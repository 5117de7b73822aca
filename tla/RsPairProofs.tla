---------------------------- MODULE RsPairProofs ----------------------------
(***************************************************************************)
(* Proofs about the R&S file pair, for every session of captures: opening  *)
(* while the exporter writes implements the open of one file, a pair left  *)
(* alone opens as what it is, and what a cut file can be misread as.       *)
(***************************************************************************)
EXTENDS RsPair, OrderProofs

(* How far the XML and the payload of capture g of a session can be.       *)
Xmls(s)     == [gen : 1 .. Len(s), attrs : 1 .. Len(Attrs)]
Payloads(s) == UNION {{[gen |-> g, len |-> n] : n \in {0} \cup PayloadLens(s[g])} :
                          g \in 1 .. Len(s)}

(* The files of the exporter: neither is more than a capture ahead.        *)
FilesInv ==
    /\ session \in Sessions
    /\ xml = Unread.xml \/ xml \in [gen : 1 .. Len(session), attrs : 0 .. Len(Attrs)]
    /\ payload = Unread.payload \/ payload \in Payloads(session)
    /\ xml.gen - payload.gen \in -1 .. 1

(* What the reader has seen of them, and what it made of that.             *)
ReaderInv ==
    /\ pc \in {"idle", "sniffed", "read"} /\ quiet \in BOOLEAN
    /\ seen = [xml |-> seen.xml, payload |-> seen.payload]
    /\ pc # "idle" => handle = Closed
    /\ pc = "sniffed" => xml.gen # 0
    /\ pc = "read" => seen.xml \in Xmls(session)
    /\ handle.tag \in {"closed", "err", "ok"}
    /\ handle.tag = "closed" => handle = Closed
    /\ IsOpen => /\ seen.xml \in Xmls(session) /\ seen.payload \in Payloads(session)
                 /\ handle = OpenRs(Described(session, seen.xml, seen.payload))

(* Nothing was written since the sniff: what was seen is what is there.    *)
QuietInv ==
    quiet => /\ pc = "idle" => handle # Closed
             /\ PairWhole /\ xml.gen # 0
             /\ pc = "read" => seen.xml = xml
             /\ pc = "idle" =>
                  \/ handle = BadPair /\ ActiveChannels(xml, session[xml.gen]) = <<>>
                  \/ handle = OpenRs(Described(session, xml, payload))

IInv == FilesInv /\ ReaderInv /\ QuietInv


-----------------------------------------------------------------------------
(* The attributes that a cut XML has are the first ones.                   *)
LEMMA AttrsAre ==
    /\ Len(Attrs) = 14
    /\ \A k \in 1 .. 14 : Attrs[k] = <<"SourceType", 0>> <=> k = 1
    /\ \A k \in 1 .. 14 : Attrs[k] = <<"RecordLength", 0>> <=> k = 2
    /\ \A k \in 1 .. 14 : Attrs[k] = <<"Source", 0>> <=> k = 5
    /\ \A k \in 1 .. 14 : Attrs[k] = <<"MultiChannelExport", 0>> <=> k = 6
    /\ \A i \in Slots, k \in 1 .. 14 : Attrs[k] = <<"MultiChannelExportState", i>> <=> k = 7 + i
    /\ \A i \in Slots, k \in 1 .. 14 : Attrs[k] = <<"MultiChannelSource", i>> <=> k = 11 + i
<1>1. Len(Attrs) = 14
  BY DEF Attrs
<1>2. /\ Attrs[1] = <<"SourceType", 0>> /\ Attrs[2] = <<"RecordLength", 0>>
      /\ Attrs[3] = <<"XStop", 0>> /\ Attrs[4] = <<"LeadingSettlingSamples", 0>>
      /\ Attrs[5] = <<"Source", 0>> /\ Attrs[6] = <<"MultiChannelExport", 0>>
      /\ Attrs[7] = <<"MultiChannelExportState", 0>>
      /\ Attrs[8] = <<"MultiChannelExportState", 1>>
      /\ Attrs[9] = <<"MultiChannelExportState", 2>>
      /\ Attrs[10] = <<"MultiChannelExportState", 3>>
      /\ Attrs[11] = <<"MultiChannelSource", 0>> /\ Attrs[12] = <<"MultiChannelSource", 1>>
      /\ Attrs[13] = <<"MultiChannelSource", 2>> /\ Attrs[14] = <<"MultiChannelSource", 3>>
  BY DEF Attrs
<1> DEFINE A == Attrs
<1>3. /\ A[1] = <<"SourceType", 0>> /\ A[2] = <<"RecordLength", 0>>
      /\ A[3] = <<"XStop", 0>> /\ A[4] = <<"LeadingSettlingSamples", 0>>
      /\ A[5] = <<"Source", 0>> /\ A[6] = <<"MultiChannelExport", 0>>
  BY <1>2
<1>4. /\ \A k \in 7 .. 10 : A[k] = <<"MultiChannelExportState", k - 7>>
      /\ \A k \in 11 .. 14 : A[k] = <<"MultiChannelSource", k - 11>>
  BY <1>2
<1> HIDE DEF A
<1>5. /\ \A k \in 1 .. 14 : A[k] = <<"SourceType", 0>> <=> k = 1
      /\ \A k \in 1 .. 14 : A[k] = <<"RecordLength", 0>> <=> k = 2
      /\ \A k \in 1 .. 14 : A[k] = <<"Source", 0>> <=> k = 5
      /\ \A k \in 1 .. 14 : A[k] = <<"MultiChannelExport", 0>> <=> k = 6
  BY <1>3, <1>4
<1>6. \A i \in 0 .. 3, k \in 1 .. 14 : A[k] = <<"MultiChannelExportState", i>> <=> k = 7 + i
  BY <1>3, <1>4
<1>7. \A i \in 0 .. 3, k \in 1 .. 14 : A[k] = <<"MultiChannelSource", i>> <=> k = 11 + i
  BY <1>3, <1>4
<1> QED
  BY <1>1, <1>5, <1>6, <1>7 DEF A, Slots

LEMMA HasAttr ==
    ASSUME NEW x, x.attrs \in 0 .. 14
    PROVE  /\ Has(x, "SourceType") <=> x.attrs >= 1
           /\ Has(x, "RecordLength") <=> x.attrs >= 2
           /\ Has(x, "Source") <=> x.attrs >= 5
           /\ Has(x, "MultiChannelExport") <=> x.attrs >= 6
           /\ \A i \in Slots : /\ HasEntry(x, "MultiChannelExportState", i) <=> x.attrs >= 7 + i
                               /\ HasEntry(x, "MultiChannelSource", i) <=> x.attrs >= 11 + i
<1>1. ASSUME NEW t, NEW i, NEW n \in 1 .. 14, \A k \in 1 .. 14 : Attrs[k] = <<t, i>> <=> k = n
      PROVE  HasEntry(x, t, i) <=> x.attrs >= n
  BY <1>1 DEF HasEntry
<1>2. 1 \in 1 .. 14 /\ 2 \in 1 .. 14 /\ 5 \in 1 .. 14 /\ 6 \in 1 .. 14
  OBVIOUS
<1>3. \A i \in Slots : 7 + i \in 1 .. 14 /\ 11 + i \in 1 .. 14
  BY DEF Slots
<1>4. /\ Has(x, "SourceType") <=> x.attrs >= 1
      /\ Has(x, "RecordLength") <=> x.attrs >= 2
      /\ Has(x, "Source") <=> x.attrs >= 5
      /\ Has(x, "MultiChannelExport") <=> x.attrs >= 6
  BY <1>1, <1>2, AttrsAre DEF Has
<1>5. ASSUME NEW i \in Slots
      PROVE  /\ HasEntry(x, "MultiChannelExportState", i) <=> x.attrs >= 7 + i
             /\ HasEntry(x, "MultiChannelSource", i) <=> x.attrs >= 11 + i
  BY <1>1, <1>3, AttrsAre
<1> QED
  BY <1>4, <1>5

-----------------------------------------------------------------------------
(* What opening a pair results in.                                         *)
Width(c) == RsPrefix(c.fmt) + Len(c.active) * RsBytes[c.fmt]

LEMMA OpenRsIs ==
    ASSUME NEW f, LET r == OpenRs(f) IN r.tag = "ok"
    PROVE  LET r == OpenRs(f) IN
           /\ f.h.active # <<>>
           /\ PayloadFits(f.h, Width(f.h), f.size)
           /\ r.val.size = f.size
           /\ r.val.h.fmt = f.h.fmt /\ r.val.h.stride = Width(f.h)
           /\ r.val.h.rec = Smaller(f.h.rec, f.h.hw)
           /\ r.val.h.chans = [k \in 1 .. Len(f.h.active) |->
                                  [channel |-> f.h.active[k], slot |-> k - 1]]
<1>1. Err("bad R&S pair").tag = "err" /\ Overrun.tag = "err"
  BY DEF Err, Overrun
<1>2. ~(f.size < 8 \/ f.h.hw = 0 \/ f.h.active = <<>>)
  BY <1>1 DEF OpenRs
<1>3. PayloadFits(f.h, Width(f.h), f.size)
  BY <1>1, <1>2 DEF OpenRs, Width
<1> QED
  BY <1>2, <1>3 DEF OpenRs, Width, Ok

LEMMA OpenRsOpens ==
    ASSUME NEW f, ~(f.size < 8), f.h.hw # 0, f.h.active # <<>>,
           PayloadFits(f.h, Width(f.h), f.size)
    PROVE  OpenRs(f).tag = "ok"
BY DEF OpenRs, Width, Ok

LEMMA OpenRsTag ==
    ASSUME NEW f
    PROVE  OpenRs(f).tag \in {"ok", "err"}
BY DEF OpenRs, Ok, Err, Overrun

LEMMA Tagged ==
    Closed.tag = "closed" /\ BadPair.tag = "err" /\ BadPair # Closed
<1>1. Closed.tag = "closed" /\ BadPair.tag = "err"
  BY DEF Closed, BadPair, Err
<1>2. "closed" # "err"
  OBVIOUS
<1> HIDE DEF Closed, BadPair
<1> QED
  BY <1>1, <1>2

-----------------------------------------------------------------------------
(* The channels that parse_xml finds, in a whole XML and in a cut one.     *)
LEMMA Captures ==
    ASSUME NEW s \in Sessions
    PROVE  Len(s) \in Nat \ {0} /\ \A g \in 1 .. Len(s) : CaptureShape(s[g])
BY SessionsAssumption

LEMMA OnSlotsAre ==
    ASSUME NEW S \in SUBSET Slots
    PROVE  Len(InOrder(S)) \in 0 .. 4 /\ InOrder(S) \in [1 .. Len(InOrder(S)) -> S]
<1>1. IsFiniteSet(Slots) /\ Cardinality(Slots) = 4
  <2>1. 0 \in Int /\ 3 \in Int
    OBVIOUS
  <2>2. IsFiniteSet(0 .. 3) /\ Cardinality(0 .. 3) = IF 0 > 3 THEN 0 ELSE 3 - 0 + 1
    BY <2>1, FS_Interval
  <2> QED
    BY <2>2 DEF Slots
<1>2. IsFiniteSet(S) /\ Cardinality(S) <= 4 /\ Cardinality(S) \in Nat
  BY <1>1, FS_Subset, FS_CardinalityType
<1>3. S \in SUBSET Nat
  BY DEF Slots
<1>4. InOrder(S) \in [1 .. Cardinality(S) -> S]
  BY <1>2, <1>3, InOrderLists
<1>5. Len(InOrder(S)) = Cardinality(S)
  BY <1>2, <1>4
<1> QED
  BY <1>2, <1>4, <1>5

(* The members of a list of slots below b are the first ones.              *)
LEMMA Threshold ==
    ASSUME NEW N \in Nat, NEW f \in [1 .. N -> Nat], NEW b \in Int,
           \A j, k \in 1 .. N : j < k => f[j] < f[k]
    PROVE  \E m \in 0 .. N : \A k \in 1 .. N : f[k] < b <=> k <= m
<1> DEFINE above == {k \in 1 .. N : ~(f[k] < b)}
<1>1. CASE above = {}
  <2>1. N \in 0 .. N /\ \A k \in 1 .. N : f[k] < b <=> k <= N
    BY <1>1
  <2> QED
    BY <2>1
<1>2. CASE above # {}
  <2>0. above \in SUBSET Nat
    OBVIOUS
  <2> HIDE DEF above
  <2>1. PICK l \in above : \A k \in above : l <= k
    BY <1>2, <2>0, Least
  <2> USE DEF above
  <2>2. l \in 1 .. N /\ ~(f[l] < b) /\ l - 1 \in 0 .. N
    BY <2>1
  <2>3. ASSUME NEW k \in 1 .. N
        PROVE  f[k] < b <=> k <= l - 1
    <3>1. CASE k < l
      <4>1. k \notin above
        BY <2>1, <2>2, <3>1
      <4> QED
        BY <2>2, <3>1, <4>1
    <3>2. CASE ~(k < l)
      <4>1. f[k] \in Nat /\ f[l] \in Nat /\ (k = l \/ l < k)
        BY <2>2, <3>2
      <4>2. l < k => f[l] < f[k]
        BY <2>2
      <4>3. ~(f[k] < b)
        BY <2>2, <4>1, <4>2
      <4> QED
        BY <2>2, <3>2, <4>3
    <3> QED
      BY <3>1, <3>2
  <2> QED
    BY <2>2, <2>3
<1> QED
  BY <1>1, <1>2

LEMMA OnSlotsAscend ==
    ASSUME NEW S \in SUBSET Slots
    PROVE  LET on == InOrder(S)
           IN  /\ \A i \in S : \E k \in 1 .. Len(on) : on[k] = i
               /\ \A j, k \in 1 .. Len(on) : j < k => on[j] < on[k]
<1>1. IsFiniteSet(S) /\ S \in SUBSET Nat
  <2>1. 0 \in Int /\ 3 \in Int
    OBVIOUS
  <2>2. IsFiniteSet(0 .. 3)
    BY <2>1, FS_Interval
  <2>3. S \in SUBSET (0 .. 3) /\ S \in SUBSET Nat
    BY DEF Slots
  <2>4. IsFiniteSet(S)
    BY <2>2, <2>3, FS_Subset
  <2> QED
    BY <2>3, <2>4
<1> DEFINE N == Cardinality(S)
           on == InOrder(S)
<1>2. /\ N \in Nat /\ on \in [1 .. N -> S]
      /\ \A i \in S : \E k \in 1 .. N : on[k] = i
      /\ \A j, k \in 1 .. N : j < k => on[j] < on[k]
  BY <1>1, InOrderLists
<1> HIDE DEF N, on
<1>3. Len(on) = N
  BY <1>2
<1> QED
  BY <1>2, <1>3 DEF on

LEMMA FirstSlots ==
    ASSUME NEW S \in SUBSET Slots, NEW b \in Int
    PROVE  LET on == InOrder(S)
               m  == Len(InOrder({i \in S : i < b}))
           IN  /\ m \in 0 .. Len(on)
               /\ \A k \in 1 .. m : InOrder({i \in S : i < b})[k] = on[k]
               /\ \A k \in 1 .. Len(on) : on[k] < b <=> k <= m
<1> DEFINE on == InOrder(S)
           N == Len(on)
           T == {i \in S : i < b}
<1>1. /\ N \in Nat /\ on \in [1 .. N -> S] /\ S \subseteq Nat /\ on \in [1 .. N -> Nat]
      /\ \A i \in S : \E k \in 1 .. N : on[k] = i
      /\ \A j, k \in 1 .. N : j < k => on[j] < on[k]
  <2>1. S \subseteq Nat
    BY DEF Slots
  <2>2. N \in 0 .. 4 /\ on \in [1 .. N -> S]
    BY OnSlotsAre
  <2>3. /\ \A i \in S : \E k \in 1 .. N : on[k] = i
        /\ \A j, k \in 1 .. N : j < k => on[j] < on[k]
    BY OnSlotsAscend
  <2> HIDE DEF on, N
  <2>4. N \in Nat
    BY <2>2
  <2>5. \A k \in 1 .. N : on[k] \in Nat
    BY <2>1, <2>2
  <2>6. on \in [1 .. N -> Nat]
    BY <2>2, <2>5, Zenon
  <2> QED
    BY <2>1, <2>2, <2>3, <2>4, <2>6
<1> HIDE DEF on, N
<1>2. PICK m \in 0 .. N : \A k \in 1 .. N : on[k] < b <=> k <= m
  BY <1>1, Threshold
<1> DEFINE f == [k \in 1 .. m |-> on[k]]
<1>3. m \in Nat /\ \A k \in 1 .. m : k \in 1 .. N
  BY <1>1, <1>2
<1>4. f \in [1 .. m -> T]
  BY <1>1, <1>2, <1>3
<1>5. \A i \in T : \E k \in 1 .. m : f[k] = i
  <2> SUFFICES ASSUME NEW i \in S, i < b
               PROVE  \E k \in 1 .. m : f[k] = i
    OBVIOUS
  <2>1. PICK k \in 1 .. N : on[k] = i
    BY <1>1
  <2>2. k \in 1 .. m
    BY <1>2, <1>3, <2>1
  <2> QED
    BY <2>1, <2>2
<1>6. \A j, k \in 1 .. m : j < k => f[j] < f[k]
  BY <1>1, <1>3
<1>7. T \in SUBSET Nat
  BY <1>1
<1> HIDE DEF T, f
<1>8. InOrder(T) = f
  BY <1>3, <1>4, <1>5, <1>6, <1>7, InOrderIs
<1>9. Len(f) = m
  BY <1>3, <1>4
<1>10. \A k \in 1 .. m : f[k] = on[k]
  BY DEF f
<1> QED
  BY <1>2, <1>8, <1>9, <1>10 DEF T, on, N

LEMMA Active ==
    ASSUME NEW s \in Sessions, NEW x \in Xmls(s)
    PROVE  LET c == s[x.gen]
               a == ActiveChannels(x, c)
           IN  /\ x.attrs = 14 => a = Exported(c)
               /\ x.attrs >= 6 /\ ~c.multi => a = Exported(c)
               /\ x.attrs < 6 => a \in {<<1>>, <<c.source>>}
               /\ x.attrs >= 6 /\ c.multi => PassesFor(c, a)
               /\ a \in Seq(1 .. 4)
<1> DEFINE c == s[x.gen]
           a == ActiveChannels(x, c)
           all == {i \in Slots : c.slots[i] # 0}
           on == {i \in Slots : SlotOn(x, c, i)}
<1>1. CaptureShape(c) /\ x.attrs \in 1 .. 14
  <2>1. x.gen \in 1 .. Len(s) /\ x.attrs \in 1 .. 14
    BY AttrsAre DEF Xmls
  <2> QED
    BY <2>1, Captures
<1> HIDE DEF c
<1>2. /\ Has(x, "Source") <=> x.attrs >= 5
      /\ Has(x, "MultiChannelExport") <=> x.attrs >= 6
      /\ \A i \in Slots : /\ HasEntry(x, "MultiChannelExportState", i) <=> x.attrs >= 7 + i
                          /\ HasEntry(x, "MultiChannelSource", i) <=> x.attrs >= 11 + i
  BY <1>1, HasAttr
<1>3. on = {i \in all : i < x.attrs - 6}
  <2>1. \A i \in Slots : x.attrs >= 7 + i <=> i < x.attrs - 6
    BY <1>1 DEF Slots
  <2>2. ASSUME NEW i \in Slots
        PROVE  SlotOn(x, c, i) <=> i < x.attrs - 6 /\ c.slots[i] # 0
    <3>1. HasEntry(x, "MultiChannelExportState", i) <=> x.attrs >= 7 + i
      BY <1>2, Zenon
    <3>2. x.attrs >= 7 + i <=> i < x.attrs - 6
      BY <2>1
    <3> QED
      BY <3>1, <3>2, Zenon DEF SlotOn
  <2> QED
    BY <2>2
<1> DEFINE order == OnSlots(c)
           slots == InOrder(on)
           N == Len(slots)
           multi == [k \in 1 .. N |-> ChannelOf(x, c, slots[k])]
<1>4. /\ N \in 0 .. Len(order) /\ Len(order) \in 0 .. 4
      /\ order \in [1 .. Len(order) -> all]
      /\ \A k \in 1 .. N : slots[k] = order[k]
      /\ \A k \in 1 .. Len(order) : order[k] < x.attrs - 6 <=> k <= N
  <2>1. all \in SUBSET Slots /\ x.attrs - 6 \in Int
    BY <1>1
  <2>2. order = InOrder(all)
    BY DEF OnSlots
  <2> HIDE DEF all, on, order
  <2> QED
    BY <1>3, <2>1, <2>2, OnSlotsAre, FirstSlots
<1>5. PICK m \in 0 .. Len(order) : \A k \in 1 .. Len(order) : order[k] < x.attrs - 10 <=> k <= m
  <2>1. all \in SUBSET Slots /\ x.attrs - 10 \in Int
    BY <1>1
  <2>2. order = InOrder(all)
    BY DEF OnSlots
  <2> HIDE DEF all, order
  <2> QED
    BY <2>1, <2>2, FirstSlots
<1>6. a = IF x.attrs >= 6 /\ c.multi THEN multi
          ELSE <<IF x.attrs >= 5 THEN c.source ELSE 1>>
  <2>1. x.attrs >= 6 => a = IF c.multi THEN multi ELSE <<c.source>>
    BY <1>1, <1>2 DEF ActiveChannels, ValueOf
  <2>2. x.attrs < 6 => a = <<IF x.attrs >= 5 THEN c.source ELSE 1>>
    BY <1>1, <1>2 DEF ActiveChannels, ValueOf
  <2> HIDE DEF a, multi
  <2>3. x.attrs \in Nat
    BY <1>1
  <2> QED
    BY <2>1, <2>2, <2>3
<1> HIDE DEF on, a
<1>7. \A k \in 1 .. Len(order) :
        order[k] \in 0 .. 3 /\ c.slots[order[k]] \in 1 .. 4
  <2> SUFFICES ASSUME NEW k \in 1 .. Len(order)
               PROVE  order[k] \in 0 .. 3 /\ c.slots[order[k]] \in 1 .. 4
    OBVIOUS
  <2>1. order[k] \in Slots /\ c.slots[order[k]] # 0
    BY <1>4
  <2>2. c.slots[order[k]] \in 0 .. 4
    BY <1>1, <2>1 DEF CaptureShape
  <2> QED
    BY <2>1, <2>2 DEF Slots
<1> DEFINE L == Len(order)
<1>8. /\ N \in 0 .. L /\ L \in 0 .. 4 /\ m \in 0 .. L
      /\ \A k \in 1 .. N : k \in 1 .. L /\ slots[k] = order[k]
      /\ \A k \in 1 .. L : order[k] \in 0 .. 3 /\ c.slots[order[k]] \in 1 .. 4
      /\ \A k \in 1 .. L : order[k] < x.attrs - 6 <=> k <= N
      /\ \A k \in 1 .. L : order[k] < x.attrs - 10 <=> k <= m
  BY <1>4, <1>5, <1>7
<1> HIDE DEF order, slots, N, L, all
<1>9. m # 0 => N = L
  <2> SUFFICES ASSUME m # 0, N # L
               PROVE  FALSE
    OBVIOUS
  <2>1. m \in 1 .. L /\ L \in 1 .. L /\ ~(L <= N) /\ m <= m
    BY <1>8
  <2>2. order[m] < x.attrs - 10 /\ ~(order[L] < x.attrs - 6)
    BY <1>8, <2>1
  <2>3. order[m] \in 0 .. 3 /\ order[L] \in 0 .. 3
    BY <1>8, <2>1
  <2> DEFINE low  == order[m]
             high == order[L]
             n    == x.attrs
  <2>4. low < n - 10 /\ ~(high < n - 6) /\ low \in 0 .. 3 /\ high \in 0 .. 3 /\ n \in 1 .. 14
    BY <1>1, <2>2, <2>3
  <2> HIDE DEF low, high, n
  <2> QED
    BY <2>4
<1>10. x.attrs = 14 => m = L /\ N = L
  <2> SUFFICES ASSUME x.attrs = 14, L # 0
               PROVE  m = L /\ N = L
    BY <1>8
  <2>1. L \in 1 .. L /\ order[L] \in 0 .. 3
    BY <1>8
  <2>2. order[L] < x.attrs - 10 /\ order[L] < x.attrs - 6
    BY <2>1
  <2>3. L <= m /\ L <= N
    BY <1>8, <2>1, <2>2
  <2> QED
    BY <1>8, <2>3
<1>11. \A k \in 1 .. N : ChannelOf(x, c, slots[k]) =
                             IF k <= m THEN c.slots[order[k]] ELSE order[k] + 1
  <2> SUFFICES ASSUME NEW k \in 1 .. N
               PROVE  ChannelOf(x, c, slots[k]) =
                        IF k <= m THEN c.slots[order[k]] ELSE order[k] + 1
    OBVIOUS
  <2>1. k \in 1 .. L /\ slots[k] = order[k] /\ order[k] \in 0 .. 3
    BY <1>8
  <2>2. HasEntry(x, "MultiChannelSource", order[k]) <=> x.attrs >= 11 + order[k]
    <3>1. order[k] \in Slots
      BY <2>1 DEF Slots
    <3> QED
      BY <1>2, <3>1, Zenon
  <2>3. x.attrs >= 11 + order[k] <=> k <= m
    <3> DEFINE i == order[k]
               n == x.attrs
    <3>1. i \in 0 .. 3 /\ n \in 1 .. 14 /\ (i < n - 10 <=> k <= m)
      BY <1>1, <1>8, <2>1
    <3> HIDE DEF i, n
    <3>2. n >= 11 + i <=> i < n - 10
      BY <3>1
    <3> QED
      BY <3>1, <3>2 DEF i, n
  <2> QED
    BY <2>1, <2>2, <2>3 DEF ChannelOf
<1>12. multi \in Seq(1 .. 4) /\ Len(multi) = N
  <2>1. \A k \in 1 .. N : ChannelOf(x, c, slots[k]) \in 1 .. 4
    <3> SUFFICES ASSUME NEW k \in 1 .. N
                 PROVE  ChannelOf(x, c, slots[k]) \in 1 .. 4
      OBVIOUS
    <3>1. order[k] \in 0 .. 3 /\ c.slots[order[k]] \in 1 .. 4
      BY <1>8
    <3> QED
      BY <1>11, <3>1
  <2>2. N \in Nat
    BY <1>8
  <2> QED
    BY <2>1, <2>2
<1>13. a \in Seq(1 .. 4)
  <2>1. c.source \in 1 .. 4
    BY <1>1 DEF CaptureShape
  <2> DEFINE v == IF x.attrs >= 5 THEN c.source ELSE 1
  <2>2. v \in 1 .. 4
    BY <2>1
  <2>3. a = IF x.attrs >= 6 /\ c.multi THEN multi ELSE <<v>>
    BY <1>6
  <2> HIDE DEF multi, v
  <2>4. <<v>> \in Seq(1 .. 4)
    BY <2>2
  <2> QED
    BY <1>12, <2>3, <2>4
<1>14. x.attrs < 6 => a \in {<<1>>, <<c.source>>}
  BY <1>1, <1>6
<1>15. x.attrs >= 6 /\ ~c.multi => a = Exported(c)
  BY <1>1, <1>6 DEF Exported
<1>16. x.attrs = 14 /\ c.multi => a = Exported(c)
  <2> SUFFICES ASSUME x.attrs = 14, c.multi
               PROVE  multi = Exported(c)
    BY <1>6
  <2>1. Exported(c) = [k \in 1 .. L |-> c.slots[order[k]]]
    BY DEF Exported, L, order
  <2>2. \A k \in 1 .. N : k <= m
    BY <1>8, <1>10
  <2> QED
    BY <1>10, <1>11, <2>1, <2>2
<1>17. x.attrs >= 6 /\ c.multi => PassesFor(c, a)
  <2> SUFFICES ASSUME a = multi
               PROVE  PassesFor(c, a)
    BY <1>6
  <2>1. /\ Len(a) = N /\ N <= L
        /\ \A k \in 1 .. N : a[k] = IF k <= m THEN c.slots[order[k]] ELSE order[k] + 1
    BY <1>8, <1>11, <1>12
  <2>2. m \in 0 .. N
    BY <1>8, <1>9
  <2> HIDE DEF multi
  <2> QED
    BY <1>9, <2>1, <2>2 DEF PassesFor, L, order
<1> QED
  <2>1. c.multi \in BOOLEAN
    BY <1>1 DEF CaptureShape
  <2>2. x.attrs = 14 => a = Exported(c)
    BY <1>15, <1>16, <2>1
  <2> QED
    BY <1>13, <1>14, <1>15, <1>17, <2>2 DEF a, c

-----------------------------------------------------------------------------
(* A payload is never observed longer than it is when it is whole.         *)
LEMMA LengthsAre ==
    ASSUME NEW c, CaptureShape(c)
    PROVE  /\ Len(Exported(c)) \in 0 .. 4 /\ Stride(c) \in Nat
           /\ FullLen(c) \in Nat /\ FullLen(c) >= 8 /\ FullLen(c) = 8 + Stride(c) * c.hw
           /\ \A n \in {0} \cup PayloadLens(c) : n \in Nat /\ n <= FullLen(c)
<1>1. Len(Exported(c)) \in 0 .. 4
  <2>1. Len(OnSlots(c)) \in 0 .. 4
    BY OnSlotsAre DEF OnSlots
  <2> DEFINE n == Len(OnSlots(c))
             multi == [k \in 1 .. n |-> c.slots[OnSlots(c)[k]]]
  <2>2. n \in Nat /\ n \in 0 .. 4
    BY <2>1
  <2>3. Exported(c) = IF c.multi THEN multi ELSE <<c.source>>
    BY DEF Exported
  <2> HIDE DEF n
  <2>4. Len(multi) = n
    BY <2>2
  <2> HIDE DEF multi
  <2> QED
    BY <2>2, <2>3, <2>4
<1>2. RsBytes[c.fmt] \in {1, 2, 4} /\ RsPrefix(c.fmt) \in {0, 8} /\ c.hw \in Nat \ {0}
  <2>1. c.fmt \in DOMAIN RsBytes /\ c.hw \in 1 .. U32 - 1 /\ U32 \in Nat
    BY WidthAssumption DEF CaptureShape
  <2>2. RsBytes[c.fmt] \in {1, 2, 4}
    BY <2>1 DEF RsBytes
  <2> QED
    BY <2>1, <2>2 DEF RsPrefix
<1> DEFINE e == Len(Exported(c))
           b == RsBytes[c.fmt]
           p == RsPrefix(c.fmt)
           d == Stride(c)
           h == c.hw
           m == d * h
<1>3. d = p + e * b
  BY DEF Stride
<1>4. FullLen(c) = 8 + m
  BY DEF FullLen
<1>5. e \in 0 .. 4 /\ b \in {1, 2, 4} /\ p \in {0, 8} /\ h \in Nat \ {0}
  BY <1>1, <1>2
<1>6. PayloadLens(c) = {4, 8, 8 + d, FullLen(c) - 1, FullLen(c)}
  BY DEF PayloadLens
<1> HIDE DEF e, b, p, d
<1>7. d \in Nat
  BY <1>3, <1>5
<1> HIDE DEF h
<1>8. m \in Nat /\ d <= m
  <2>1. m = d * (h - 1) + d /\ h - 1 \in Nat
    BY <1>5, <1>7
  <2>2. d * (h - 1) \in Nat
    BY <1>5, <1>7
  <2> HIDE DEF m
  <2> QED
    BY <1>7, <2>1, <2>2
<1> HIDE DEF m
<1>9. \A n \in {0} \cup PayloadLens(c) : n \in Nat /\ n <= FullLen(c)
  BY <1>4, <1>6, <1>7, <1>8
<1>10. FullLen(c) \in Nat /\ FullLen(c) >= 8
  BY <1>4, <1>8
<1> QED
  BY <1>1, <1>4, <1>7, <1>9, <1>10 DEF m, d, h

(* What a payload of a session is.                                         *)
LEMMA PayloadIs ==
    ASSUME NEW s \in Sessions, NEW p \in Payloads(s)
    PROVE  LET c == s[p.gen]
           IN  /\ p.gen \in 1 .. Len(s) /\ p.len \in {0} \cup PayloadLens(c)
               /\ CaptureShape(c) /\ p.len \in Nat /\ p.len <= FullLen(c)
<1>1. p.gen \in 1 .. Len(s) /\ p.len \in {0} \cup PayloadLens(s[p.gen])
  BY DEF Payloads
<1>2. CaptureShape(s[p.gen])
  BY <1>1, Captures
<1> QED
  BY <1>1, <1>2, LengthsAre

LEMMA PayloadOf ==
    ASSUME NEW s, NEW g \in 1 .. Len(s), NEW n \in {0} \cup PayloadLens(s[g])
    PROVE  [gen |-> g, len |-> n] \in Payloads(s)
BY DEF Payloads

-----------------------------------------------------------------------------
(* The exporter writes its pairs one after the other.                      *)
LEMMA FilesTyped ==
    ASSUME FilesInv
    PROVE  /\ session \in Sessions /\ Len(session) \in Nat \ {0}
           /\ xml.gen \in 0 .. Len(session) /\ xml.attrs \in 0 .. 14
           /\ xml = [gen |-> xml.gen, attrs |-> xml.attrs]
           /\ xml.gen = 0 => xml = Unread.xml
           /\ payload.gen \in 0 .. Len(session) /\ payload.len \in Nat
           /\ payload = [gen |-> payload.gen, len |-> payload.len]
           /\ payload.gen = 0 => payload = Unread.payload
           /\ payload.gen # 0 => payload \in Payloads(session)
<1>1. session \in Sessions /\ Len(session) \in Nat \ {0}
  BY Captures DEF FilesInv
<1>2. Unread.xml = [gen |-> 0, attrs |-> 0] /\ Unread.payload = [gen |-> 0, len |-> 0]
  BY DEF Unread
<1>3. /\ xml.gen \in 0 .. Len(session) /\ xml.attrs \in 0 .. 14
      /\ xml = [gen |-> xml.gen, attrs |-> xml.attrs]
      /\ xml.gen = 0 => xml = Unread.xml
  BY <1>1, <1>2, AttrsAre DEF FilesInv
<1>4. CASE payload = Unread.payload
  BY <1>1, <1>2, <1>3, <1>4
<1>5. CASE payload \in Payloads(session)
  <2>1. payload.gen \in 1 .. Len(session) /\ payload.len \in Nat
    BY <1>1, <1>5, PayloadIs
  <2>2. payload = [gen |-> payload.gen, len |-> payload.len]
    BY <1>5 DEF Payloads
  <2> QED
    BY <1>1, <1>3, <1>5, <2>1, <2>2
<1> QED
  BY <1>4, <1>5 DEF FilesInv

LEMMA FilesStep == FilesInv /\ [Next]_vars => FilesInv'
<1> SUFFICES ASSUME FilesInv, [Next]_vars
             PROVE  FilesInv'
  OBVIOUS
<1> DEFINE T == /\ session \in Sessions /\ Len(session) \in Nat \ {0}
                /\ xml.gen \in 0 .. Len(session) /\ xml.attrs \in 0 .. 14
                /\ payload.gen \in 0 .. Len(session) /\ payload.len \in Nat
<1>1. T
  BY FilesTyped
<1>2. xml.gen - payload.gen \in -1 .. 1
  BY DEF FilesInv
<1>3. CASE UNCHANGED exporterVars
  BY <1>3 DEF FilesInv, exporterVars
<1>4. CASE Exporter(StartXml)
  <2>1. /\ xml' = [gen |-> xml.gen + 1, attrs |-> 0] /\ UNCHANGED <<payload, session>>
        /\ xml.gen < Len(session) /\ (xml.gen < payload.gen \/ xml.gen = payload.gen)
    BY <1>4 DEF Exporter, StartXml, PairWhole
  <2>2. xml' \in [gen : 1 .. Len(session), attrs : 0 .. Len(Attrs)]
    <3>1. Len(Attrs) = 14
      BY AttrsAre
    <3> QED
      BY <1>1, <2>1, <3>1
  <2>3. xml'.gen - payload'.gen \in -1 .. 1
    BY <1>1, <1>2, <2>1
  <2> QED
    BY <2>1, <2>2, <2>3 DEF FilesInv
<1>5. CASE Exporter(WriteAttr)
  <2>1. /\ xml' = [xml EXCEPT !.attrs = @ + 1] /\ UNCHANGED <<payload, session>>
        /\ xml.gen # 0 /\ xml.attrs # 14
    BY <1>5, AttrsAre DEF Exporter, WriteAttr, XmlWhole
  <2>2. xml \in [gen : 1 .. Len(session), attrs : 0 .. Len(Attrs)]
    BY <2>1 DEF FilesInv, Unread
  <2>3. xml' \in [gen : 1 .. Len(session), attrs : 0 .. Len(Attrs)] /\ xml'.gen = xml.gen
    <3>1. Len(Attrs) = 14
      BY AttrsAre
    <3>2. xml = [gen |-> xml.gen, attrs |-> xml.attrs] /\ xml.gen \in 1 .. Len(session)
      BY <2>2
    <3>3. xml' = [gen |-> xml.gen, attrs |-> xml.attrs + 1]
      BY <2>1, <3>2
    <3> DEFINE n == xml.attrs
    <3>4. n \in 0 .. 14 /\ n # 14
      BY <1>1, <2>1
    <3> HIDE DEF n
    <3>5. n + 1 \in 0 .. 14
      BY <3>4
    <3> QED
      BY <3>1, <3>2, <3>3, <3>5 DEF n
  <2> QED
    BY <1>2, <2>1, <2>3 DEF FilesInv
<1>6. CASE Exporter(StartPayload)
  <2>1. /\ payload' = [gen |-> payload.gen + 1, len |-> 0] /\ UNCHANGED <<xml, session>>
        /\ payload.gen < Len(session) /\ (payload.gen < xml.gen \/ xml.gen = payload.gen)
    BY <1>6 DEF Exporter, StartPayload, PairWhole
  <2>2. payload.gen + 1 \in 1 .. Len(session)
    BY <1>1, <2>1
  <2>3. payload' \in Payloads(session)
    BY <2>1, <2>2, PayloadOf
  <2>4. xml'.gen - payload'.gen \in -1 .. 1
    BY <1>1, <1>2, <2>1
  <2> QED
    BY <2>1, <2>3, <2>4 DEF FilesInv
<1>7. CASE Exporter(WritePayload)
  <2>1. payload.gen # 0 /\ UNCHANGED <<xml, session>>
    BY <1>7 DEF Exporter, WritePayload, PayloadWhole
  <2>2. PICK n \in PayloadLens(session[payload.gen]) : payload' = [payload EXCEPT !.len = n]
    BY <1>7 DEF Exporter, WritePayload
  <2>3. payload = [gen |-> payload.gen, len |-> payload.len]
    BY FilesTyped
  <2>4. payload' = [gen |-> payload.gen, len |-> n]
    BY <2>2, <2>3
  <2>5. payload' \in Payloads(session) /\ payload'.gen = payload.gen
    <3>1. payload.gen \in 1 .. Len(session)
      BY <1>1, <2>1
    <3>2. n \in {0} \cup PayloadLens(session[payload.gen])
      BY <2>2
    <3>3. [gen |-> payload.gen, len |-> n] \in Payloads(session)
      BY <3>1, <3>2, PayloadOf
    <3> QED
      BY <2>4, <3>3
  <2> QED
    BY <1>2, <2>1, <2>5 DEF FilesInv
<1>8. CASE SniffXml \/ ReadXml \/ MapPayload \/ Drop
  <2>1. UNCHANGED exporterVars
    BY <1>8 DEF SniffXml, ReadXml, Parse, MapPayload, Drop, EndOpen, exporterVars
  <2> QED
    BY <1>3, <2>1
<1> QED
  BY <1>3, <1>4, <1>5, <1>6, <1>7, <1>8 DEF Next, vars, exporterVars

-----------------------------------------------------------------------------
(* The reader keeps what it read, and opens what it kept.                  *)
LEMMA ReaderStep == FilesInv /\ ReaderInv /\ [Next]_vars => ReaderInv'
<1> SUFFICES ASSUME FilesInv, ReaderInv, [Next]_vars
             PROVE  ReaderInv'
  OBVIOUS
<1>1. Closed.tag = "closed" /\ BadPair.tag = "err" /\ BadPair # Closed
  BY Tagged
<1>2. UNCHANGED session
  BY DEF Next, vars, Exporter, SniffXml, ReadXml, Parse, MapPayload, Drop, EndOpen, exporterVars
<1>3. /\ xml.gen \in 0 .. Len(session) /\ xml.attrs \in 0 .. 14
      /\ xml = [gen |-> xml.gen, attrs |-> xml.attrs] /\ Len(session) \in Nat
      /\ payload.gen # 0 => payload \in Payloads(session)
  BY FilesTyped
<1>4. CASE UNCHANGED vars
  BY <1>4 DEF vars, ReaderInv, IsOpen
<1>6. CASE Exporter(StartXml)
  <2>1. xml'.gen # 0
    BY <1>3, <1>6 DEF Exporter, StartXml
  <2> QED
    BY <1>2, <1>6, <2>1 DEF Exporter, ReaderInv, IsOpen
<1>7. CASE Exporter(WriteAttr)
  <2>1. xml'.gen = xml.gen
    BY <1>3, <1>7 DEF Exporter, WriteAttr
  <2> QED
    BY <1>2, <1>7, <2>1 DEF Exporter, ReaderInv, IsOpen
<1>8. CASE Exporter(StartPayload) \/ Exporter(WritePayload)
  <2>1. UNCHANGED xml
    BY <1>8 DEF Exporter, StartPayload, WritePayload
  <2> QED
    BY <1>2, <1>8, <2>1 DEF Exporter, ReaderInv, IsOpen
<1>9. CASE SniffXml
  <2>1. CASE EndOpen(BadPair) /\ quiet' = FALSE /\ UNCHANGED seen
    BY <1>1, <1>2, <1>9, <2>1 DEF SniffXml, EndOpen, exporterVars, ReaderInv, IsOpen
  <2>2. CASE xml.gen # 0 /\ pc' = "sniffed" /\ quiet' = PairWhole
             /\ UNCHANGED <<exporterVars, seen, handle>>
    <3>1. handle = Closed
      BY <1>9 DEF SniffXml
    <3>2. quiet' \in BOOLEAN
      BY <2>2 DEF PairWhole
    <3> QED
      BY <1>1, <1>2, <2>2, <3>1, <3>2 DEF ReaderInv, IsOpen, exporterVars
  <2> QED
    BY <1>9, <2>1, <2>2 DEF SniffXml
<1>10. CASE ReadXml
  <2>1. CASE EndOpen(BadPair) /\ UNCHANGED <<seen, quiet>>
    BY <1>1, <1>2, <1>10, <2>1 DEF ReadXml, EndOpen, exporterVars, ReaderInv, IsOpen
  <2>2. CASE Has(xml, "SourceType") /\ Parse
    <3>1. /\ pc' = "read" /\ seen' = [seen EXCEPT !.xml = xml] /\ Has(xml, "SourceType")
          /\ UNCHANGED <<xml, payload, quiet, handle>> /\ pc = "sniffed"
      BY <1>10, <2>2 DEF ReadXml, Parse, exporterVars
    <3>2. xml.attrs \in 1 .. 14 /\ xml.gen \in 1 .. Len(session)
      BY <1>3, <3>1, HasAttr DEF ReaderInv
    <3>3. xml \in Xmls(session)
      BY <1>3, <3>2, AttrsAre DEF Xmls
    <3>4. seen' = [xml |-> xml, payload |-> seen.payload]
      BY <3>1 DEF ReaderInv
    <3> QED
      BY <1>1, <1>2, <3>1, <3>3, <3>4 DEF ReaderInv, IsOpen
  <2> QED
    BY <1>10, <2>1, <2>2 DEF ReadXml
<1>11. CASE MapPayload
  <2> DEFINE o == OpenRs(Described(session, seen.xml, payload))
  <2>1. /\ handle' = (IF payload.gen = 0 THEN BadPair ELSE o) /\ pc' = "idle"
        /\ UNCHANGED quiet /\ seen' = [seen EXCEPT !.payload = payload] /\ pc = "read"
    BY <1>11 DEF MapPayload, EndOpen
  <2>2. o.tag \in {"ok", "err"}
    BY OpenRsTag
  <2>3. seen' = [xml |-> seen.xml, payload |-> payload] /\ seen.xml \in Xmls(session)
    BY <2>1 DEF ReaderInv
  <2>4. payload.gen # 0 => payload \in Payloads(session)
    BY <1>3
  <2>5. payload.gen # 0 => handle' = OpenRs(Described(session', seen'.xml, seen'.payload))
    BY <1>2, <2>1, <2>3
  <2> HIDE DEF o
  <2>6. handle'.tag = "ok" => payload.gen # 0
    BY <1>1, <2>1
  <2>7. handle'.tag \in {"ok", "err"}
    BY <1>1, <2>1, <2>2
  <2>8. quiet' \in BOOLEAN
    BY <2>1 DEF ReaderInv
  <2> QED
    BY <1>2, <2>1, <2>3, <2>4, <2>5, <2>6, <2>7, <2>8 DEF ReaderInv, IsOpen
<1>12. CASE Drop
  <2>1. handle' = Closed /\ pc' = pc /\ quiet' = FALSE /\ handle # Closed
    BY <1>12 DEF Drop
  <2>2. seen' = [xml |-> seen'.xml, payload |-> seen'.payload]
    BY <1>12 DEF Drop, Unread
  <2>3. pc = "idle"
    BY <2>1 DEF ReaderInv
  <2> QED
    BY <1>1, <1>2, <2>1, <2>2, <2>3 DEF ReaderInv, IsOpen
<1> QED
  BY <1>4, <1>6, <1>7, <1>8, <1>9, <1>10, <1>11, <1>12 DEF Next

(* What was whole at the sniff and is untouched since is what was read.    *)
LEMMA QuietStep == FilesInv /\ ReaderInv /\ QuietInv /\ [Next]_vars => QuietInv'
<1> SUFFICES ASSUME FilesInv, ReaderInv, QuietInv, [Next]_vars, quiet'
             PROVE  QuietInv'
  BY DEF QuietInv
<1>1. Closed.tag = "closed" /\ BadPair.tag = "err" /\ BadPair # Closed
  BY Tagged
<1>2. CASE UNCHANGED vars
  BY <1>2 DEF vars, QuietInv, PairWhole, XmlWhole, PayloadWhole
<1>3. CASE Exporter(StartXml) \/ Exporter(WriteAttr) \/ Exporter(StartPayload)
           \/ Exporter(WritePayload)
  BY <1>3 DEF Exporter
<1>4. CASE SniffXml
  <2>1. /\ xml.gen # 0 /\ pc' = "sniffed" /\ quiet' = PairWhole
        /\ UNCHANGED <<session, xml, payload>>
    BY <1>4 DEF SniffXml, exporterVars
  <2>2. PairWhole'
    BY <2>1 DEF PairWhole, XmlWhole, PayloadWhole
  <2> QED
    BY <2>1, <2>2 DEF QuietInv
<1>5. CASE ReadXml
  <2>1. UNCHANGED <<session, xml, payload, quiet>>
    BY <1>5 DEF ReadXml, Parse, EndOpen, exporterVars
  <2>2. PairWhole /\ xml.gen # 0
    BY <2>1 DEF QuietInv
  <2>3. PairWhole' /\ xml'.gen # 0
    BY <2>1, <2>2 DEF PairWhole, XmlWhole, PayloadWhole
  <2>4. CASE (~Has(xml, "SourceType") \/ NoChannels \/ ~XmlWhole) /\ EndOpen(BadPair)
    <3>1. handle' = BadPair /\ pc' = "idle"
      BY <2>4 DEF EndOpen
    <3>2. XmlWhole /\ xml.attrs = 14
      BY <2>2, AttrsAre DEF PairWhole, XmlWhole
    <3>3. Has(xml, "SourceType")
      BY <3>2, HasAttr
    <3> QED
      BY <1>1, <2>1, <2>3, <2>4, <3>1, <3>2, <3>3 DEF QuietInv, NoChannels
  <2>5. CASE Parse
    <3>1. pc' = "read" /\ seen' = [seen EXCEPT !.xml = xml]
      BY <2>5 DEF Parse
    <3>2. seen'.xml = xml'
      BY <2>1, <3>1 DEF ReaderInv
    <3> QED
      BY <2>3, <3>1, <3>2 DEF QuietInv
  <2> QED
    BY <1>5, <2>4, <2>5 DEF ReadXml
<1>6. CASE MapPayload
  <2>1. UNCHANGED <<session, xml, payload, quiet>> /\ pc' = "idle" /\ pc = "read"
    BY <1>6 DEF MapPayload, EndOpen, exporterVars
  <2>2. PairWhole /\ xml.gen # 0 /\ seen.xml = xml
    BY <2>1 DEF QuietInv
  <2>3. PairWhole' /\ xml'.gen # 0 /\ payload.gen # 0
    BY <2>1, <2>2 DEF PairWhole, XmlWhole, PayloadWhole
  <2>4. handle' = OpenRs(Described(session, xml, payload))
    BY <1>6, <2>2, <2>3 DEF MapPayload, EndOpen
  <2>5. handle' = OpenRs(Described(session', xml', payload'))
    BY <2>1, <2>4
  <2>6. handle' # Closed
    BY <1>1, <2>5, OpenRsTag
  <2> QED
    BY <2>1, <2>3, <2>5, <2>6 DEF QuietInv
<1>7. CASE Drop
  BY <1>7 DEF Drop
<1> QED
  BY <1>2, <1>3, <1>4, <1>5, <1>6, <1>7 DEF Next

LEMMA Inductive == Spec => []IInv
<1>1. Init => IInv
  <2> SUFFICES ASSUME Init
               PROVE  IInv
    OBVIOUS
  <2>1. Unread.xml = [gen |-> 0, attrs |-> 0] /\ Unread.payload = [gen |-> 0, len |-> 0]
        /\ Unread = [xml |-> Unread.xml, payload |-> Unread.payload]
    BY DEF Unread
  <2>2. xml = Unread.xml /\ payload = Unread.payload /\ session \in Sessions
        /\ pc = "idle" /\ seen = Unread /\ quiet = FALSE /\ handle = Closed
    BY DEF Init
  <2>3. xml.gen - payload.gen \in -1 .. 1
    BY <2>1, <2>2
  <2>4. FilesInv
    BY <2>2, <2>3 DEF FilesInv
  <2>5. ReaderInv
    BY <2>1, <2>2, Tagged DEF ReaderInv, IsOpen
  <2> QED
    BY <2>2, <2>4, <2>5 DEF IInv, QuietInv
<1>2. IInv /\ [Next]_vars => IInv'
  BY FilesStep, ReaderStep, QuietStep DEF IInv
<1> QED
  BY <1>1, <1>2, PTL DEF Spec

-----------------------------------------------------------------------------
LEMMA TypeHolds == IInv => TypeOK
<1> SUFFICES ASSUME IInv
             PROVE  TypeOK
  OBVIOUS
<1>1. FilesInv /\ ReaderInv
  BY DEF IInv
<1>2. /\ xml.gen \in 0 .. Len(session) /\ payload.gen \in 0 .. Len(session)
      /\ xml.attrs \in 0 .. Len(Attrs) /\ session \in Sessions
  BY <1>1, FilesTyped, AttrsAre
<1>3. seen.xml \in Xmls(session) => seen.xml.attrs > 0
  <2>1. Len(Attrs) = 14
    BY AttrsAre
  <2> QED
    BY <2>1 DEF Xmls
<1>4. seen.payload \in Payloads(session) => seen.payload.gen > 0
  BY <1>2, PayloadIs
<1> QED
  BY <1>1, <1>2, <1>3, <1>4 DEF TypeOK, FilesInv, ReaderInv

(* The exporter's two files are never more than a capture apart, and what  *)
(* a handle was opened with is an XML read at least up to the attribute    *)
(* that makes it one, and a payload (rohde_schwarz.rs:51-126).             *)
THEOREM TypeCorrect == Spec => []TypeOK
BY Inductive, TypeHolds, PTL

(* What is known of the file that a handle was opened from.                *)
LEMMA HandleIs ==
    ASSUME IInv, IsOpen
    PROVE  LET a == ActiveChannels(seen.xml, Parsed)
               d == session[seen.payload.gen]
           IN  /\ session \in Sessions /\ seen.xml \in Xmls(session)
               /\ seen.payload \in Payloads(session)
               /\ Listed(H) = a /\ Len(H.chans) = Len(a) /\ Len(a) \in Nat /\ a # <<>>
               /\ 8 + (RsPrefix(d.fmt) + Len(a) * RsBytes[d.fmt]) * d.hw <= seen.payload.len
<1> DEFINE a == ActiveChannels(seen.xml, Parsed)
           d == session[seen.payload.gen]
           f == Described(session, seen.xml, seen.payload)
<1>1. /\ session \in Sessions /\ seen.xml \in Xmls(session)
      /\ seen.payload \in Payloads(session) /\ handle = OpenRs(f)
  BY DEF IInv, FilesInv, ReaderInv
<1>2. f.size = seen.payload.len /\ f.h.active = a /\ f.h.fmt = d.fmt /\ f.h.hw = d.hw
  BY DEF Described, Parsed
<1>3. a \in Seq(1 .. 4)
  BY <1>1, Active DEF Parsed
<1> HIDE DEF f, a, d
<1>4. OpenRs(f).tag = "ok"
  BY <1>1 DEF IsOpen
<1>5. /\ a # <<>> /\ PayloadFits(f.h, Width(f.h), f.size)
      /\ H.chans = [k \in 1 .. Len(a) |-> [channel |-> a[k], slot |-> k - 1]]
  BY <1>1, <1>2, <1>4, OpenRsIs DEF H
<1>6. Len(a) \in Nat /\ a = [k \in 1 .. Len(a) |-> a[k]]
  BY <1>3
<1>7. Len(H.chans) = Len(a)
  BY <1>5, <1>6
<1>8. Listed(H) = [k \in 1 .. Len(a) |-> a[k]]
  BY <1>5, <1>6, <1>7 DEF Listed
<1>9. 8 + (RsPrefix(d.fmt) + Len(a) * RsBytes[d.fmt]) * d.hw <= seen.payload.len
  BY <1>2, <1>5 DEF PayloadFits, Width
<1> QED
  BY <1>1, <1>5, <1>6, <1>7, <1>8, <1>9 DEF a, d

LEMMA TornHolds == IInv => TornPayloadRefused
<1> SUFFICES ASSUME IInv, IsOpen, SamePair, seen.xml.attrs = Len(Attrs)
             PROVE  seen.payload.len = FullLen(Parsed)
  BY DEF TornPayloadRefused
<1> DEFINE a == ActiveChannels(seen.xml, Parsed)
           c == session[seen.payload.gen]
<1>1. /\ session \in Sessions /\ seen.xml \in Xmls(session)
      /\ seen.payload \in Payloads(session)
      /\ 8 + (RsPrefix(c.fmt) + Len(a) * RsBytes[c.fmt]) * c.hw <= seen.payload.len
  BY HandleIs
<1>2. c = Parsed
  BY DEF SamePair, Parsed
<1>3. a = Exported(c)
  <2> DEFINE g == session[seen.xml.gen]
  <2>1. seen.xml.attrs = 14
    BY AttrsAre
  <2>2. ActiveChannels(seen.xml, g) = Exported(g)
    BY <1>1, <2>1, Active
  <2> QED
    BY <1>2, <2>2 DEF Parsed
<1>4. CaptureShape(c) /\ seen.payload.len \in Nat /\ seen.payload.len <= FullLen(c)
  BY <1>1, PayloadIs
<1>5. FullLen(c) \in Nat /\ FullLen(c) = 8 + Stride(c) * c.hw
  BY <1>4, LengthsAre
<1> HIDE DEF a, c
<1>6. 8 + Stride(c) * c.hw <= seen.payload.len
  BY <1>1, <1>3 DEF Stride
<1> DEFINE m == 8 + Stride(c) * c.hw
<1>7. m <= seen.payload.len /\ FullLen(c) = m
  BY <1>5, <1>6
<1> HIDE DEF m
<1> QED
  BY <1>2, <1>4, <1>5, <1>7

(* Whatever is exported and however far the files are written, a payload   *)
(* that is not whole is never accepted with its own whole XML              *)
(* (rohde_schwarz.rs:101).                                                 *)
THEOREM Torn == Spec => []TornPayloadRefused
BY Inductive, TornHolds, PTL

LEMMA ReadsHold == IInv => TornXmlReads
<1> SUFFICES ASSUME IInv, IsOpen, SamePair
             PROVE  TornXmlReads
  BY DEF TornXmlReads
<1> DEFINE c == Parsed
           x == seen.xml
           a == ActiveChannels(x, c)
<1>1. /\ session \in Sessions /\ x \in Xmls(session)
      /\ Listed(H) = a
  BY HandleIs
<1>2. x.attrs \in 1 .. 14 /\ x.gen \in 1 .. Len(session)
  BY <1>1, AttrsAre DEF Xmls
<1>3. c.multi \in BOOLEAN
  BY <1>1, <1>2, Captures DEF Parsed, CaptureShape
<1>4. /\ x.attrs >= 6 /\ ~c.multi => a = Exported(c)
      /\ x.attrs < 6 => a \in {<<1>>, <<c.source>>}
      /\ x.attrs >= 6 /\ c.multi => PassesFor(c, a)
  BY <1>1, Active DEF Parsed
<1>5. Has(x, "MultiChannelExport") <=> x.attrs >= 6
  BY <1>2, HasAttr
<1> HIDE DEF a, c, x
<1>6. \/ a = Exported(c)
      \/ ~Has(x, "MultiChannelExport") /\ a \in {<<1>>, <<c.source>>}
      \/ c.multi /\ PassesFor(c, a)
  BY <1>2, <1>3, <1>4, <1>5
<1> QED
  BY <1>1, <1>6 DEF TornXmlReads, c, x

(* A cut XML that is accepted is misread as a single channel, or without   *)
(* its last channels, or with the last ones misnumbered: never with a      *)
(* channel left out in the middle, nor in another order, nor both short    *)
(* and with a number of its own (rohde_schwarz.rs:275-333).                *)
THEOREM Reads == Spec => []TornXmlReads
BY Inductive, ReadsHold, PTL

LEMMA QuietHolds == IInv => QuietOpen
<1> SUFFICES ASSUME IInv, quiet, pc = "idle", handle # Closed
             PROVE  QuietOpen
  BY DEF QuietOpen
<1> DEFINE c == session[xml.gen]
           a == ActiveChannels(xml, c)
           f == Described(session, xml, payload)
<1>1. FilesInv /\ QuietInv
  BY DEF IInv
<1>2. /\ session \in Sessions /\ xml.gen = payload.gen /\ xml.gen \in 1 .. Len(session)
      /\ xml.attrs = 14 /\ payload.len = FullLen(c)
      /\ xml = [gen |-> xml.gen, attrs |-> xml.attrs]
  BY <1>1, FilesTyped, AttrsAre DEF QuietInv, PairWhole, XmlWhole, PayloadWhole
<1>3. xml \in Xmls(session)
  BY <1>2, AttrsAre DEF Xmls
<1>4. a = Exported(c) /\ CaptureShape(c)
  BY <1>2, <1>3, Active, Captures
<1>5. /\ f.size = FullLen(c) /\ f.h.active = Exported(c) /\ f.h.fmt = c.fmt
      /\ f.h.hw = c.hw /\ f.h.rec = c.rec
  BY <1>2, <1>4, HasAttr DEF Described, ValueOf
<1>6. /\ Len(Exported(c)) \in Nat /\ FullLen(c) \in Nat /\ FullLen(c) >= 8
      /\ FullLen(c) = 8 + Stride(c) * c.hw
      /\ Exported(c) = [k \in 1 .. Len(Exported(c)) |-> Exported(c)[k]]
  <2>1. a \in Seq(1 .. 4)
    BY <1>2, <1>3, Active
  <2>2. Exported(c) = [k \in 1 .. Len(Exported(c)) |-> Exported(c)[k]]
    BY <1>4, <2>1
  <2> QED
    BY <1>4, <2>2, LengthsAre
<1>7. c.hw # 0
  BY <1>4, WidthAssumption DEF CaptureShape
<1>8. (handle = BadPair /\ a = <<>>) \/ handle = OpenRs(f)
  BY <1>1 DEF QuietInv
<1> HIDE DEF f, a
<1>9. CASE Exported(c) = <<>>
  <2>1. OpenRs(f) = BadPair
    BY <1>5, <1>9 DEF OpenRs, BadPair
  <2> QED
    BY <1>8, <1>9, <2>1 DEF QuietOpen
<1>10. CASE Exported(c) # <<>>
  <2>1. handle = OpenRs(f)
    BY <1>4, <1>8, <1>10
  <2>2. Width(f.h) = Stride(c)
    BY <1>5 DEF Width, Stride
  <2>3. PayloadFits(f.h, Width(f.h), f.size)
    <3> DEFINE m == Stride(c) * c.hw
    <3>1. FullLen(c) = 8 + m /\ FullLen(c) \in Nat
      BY <1>6
    <3>2. PayloadFits(f.h, Width(f.h), f.size) <=> 8 + m <= f.size
      BY <1>5, <2>2 DEF PayloadFits
    <3> HIDE DEF m
    <3> QED
      BY <1>5, <3>1, <3>2
  <2>4. ~(f.size < 8)
    BY <1>5, <1>6
  <2>5. OpenRs(f).tag = "ok"
    BY <1>5, <1>7, <1>10, <2>3, <2>4, OpenRsOpens
  <2>6. /\ H.chans = [k \in 1 .. Len(Exported(c)) |->
                        [channel |-> Exported(c)[k], slot |-> k - 1]]
        /\ H.fmt = c.fmt /\ H.stride = Stride(c) /\ H.rec = Smaller(c.rec, c.hw)
        /\ handle.val.size = FullLen(c)
    BY <1>5, <2>1, <2>2, <2>5, OpenRsIs DEF H
  <2>7. Len(H.chans) = Len(Exported(c))
    BY <1>6, <2>6
  <2>8. Listed(H) = Exported(c)
    <3>1. Listed(H) = [k \in 1 .. Len(Exported(c)) |-> Exported(c)[k]]
      BY <1>6, <2>6, <2>7 DEF Listed
    <3> QED
      BY <1>6, <3>1
  <2> QED
    BY <1>10, <2>1, <2>5, <2>6, <2>8 DEF QuietOpen, IsOpen
<1> QED
  BY <1>9, <1>10

(* A pair that nobody touches between the sniff and the mapping opens as   *)
(* the capture it is (rohde_schwarz.rs:62-126).                            *)
THEOREM Quiet == Spec => []QuietOpen
BY Inductive, QuietHolds, PTL

-----------------------------------------------------------------------------
(* Every pair that can be put together is a file of WfmFile.               *)
LEMMA PairIs ==
    ASSUME NEW s \in Sessions, NEW x \in Xmls(s), NEW p \in Payloads(s)
    PROVE  Described(s, x, p) \in PairFiles
BY DEF PairFiles, Xmls, Payloads

(* What cannot be told apart from opening a pair whose payload is empty.   *)
LEMMA SomeRefused ==
    ASSUME NEW s \in Sessions
    PROVE  \E f \in PairFiles : OpenRs(f) = BadPair /\ f.fam = "RohdeSchwarz"
<1> DEFINE x == [gen |-> 1, attrs |-> 1]
           p == [gen |-> 1, len |-> 0]
           f == Described(s, x, p)
<1>1. 1 \in 1 .. Len(s)
  BY Captures
<1>2. x \in Xmls(s) /\ p \in Payloads(s)
  BY <1>1, AttrsAre, PayloadOf DEF Xmls
<1>3. f \in PairFiles
  BY <1>2, PairIs
<1>4. f.size = 0 /\ f.fam = "RohdeSchwarz"
  BY DEF Described
<1> HIDE DEF f
<1>5. OpenRs(f) = BadPair
  BY <1>4 DEF OpenRs, BadPair
<1> QED
  BY <1>3, <1>4, <1>5

LEMMA OpensAsRs ==
    ASSUME NEW f, f.fam = "RohdeSchwarz"
    PROVE  W!OpenFile(f) = OpenRs(f)
<1>1. W!OpenFile(f) = W!OpenRs(f)
  BY DEF W!OpenFile, W!AsStored
<1>2. \A n : W!RsPrefix(n) = RsPrefix(n)
  BY DEF W!RsPrefix, RsPrefix
<1>3. W!RsBytes = RsBytes
  BY DEF W!RsBytes, RsBytes
<1>4. \A h, stride, size : W!PayloadFits(h, stride, size) = PayloadFits(h, stride, size)
  BY DEF W!PayloadFits, PayloadFits
<1>5. \A a, b : W!Smaller(a, b) = Smaller(a, b)
  BY DEF W!Smaller, Smaller
<1>6. /\ \A v : W!Ok(v) = Ok(v)
      /\ \A v : W!Err(v) = Err(v)
      /\ W!Overrun = Overrun
  BY DEF W!Ok, Ok, W!Err, Err, W!Overrun, Overrun
<1>7. W!OpenRs(f) = OpenRs(f)
  BY <1>2, <1>3, <1>4, <1>5, <1>6, Zenon DEF W!OpenRs, OpenRs
<1> QED
  BY <1>1, <1>7

(* What a step is to a caller who sees only the handle.                    *)
LEMMA StepIs ==
    ASSUME IInv, [Next]_vars, handle' # handle
    PROVE  \/ handle # Closed /\ handle' = Closed
           \/ handle = Closed /\ \E f \in PairFiles :
                 f.fam = "RohdeSchwarz" /\ handle' = OpenRs(f)
<1>1. FilesInv /\ ReaderInv /\ session \in Sessions
  BY DEF IInv, FilesInv
<1>2. handle' = BadPair =>
        \E f \in PairFiles : f.fam = "RohdeSchwarz" /\ handle' = OpenRs(f)
  BY <1>1, SomeRefused
<1>3. CASE SniffXml
  BY <1>2, <1>3 DEF SniffXml, EndOpen
<1>4. CASE ReadXml
  <2>1. handle = Closed
    BY <1>1, <1>4 DEF ReadXml, ReaderInv
  <2> QED
    BY <1>2, <1>4, <2>1 DEF ReadXml, Parse, EndOpen
<1>5. CASE MapPayload
  <2> DEFINE f == Described(session, seen.xml, payload)
  <2>1. handle = Closed /\ seen.xml \in Xmls(session)
    BY <1>1, <1>5 DEF MapPayload, ReaderInv
  <2>2. handle' = IF payload.gen = 0 THEN BadPair ELSE OpenRs(f)
    BY <1>5 DEF MapPayload, EndOpen
  <2>3. payload.gen # 0 => f \in PairFiles
    BY <1>1, <2>1, FilesTyped, PairIs
  <2>4. f.fam = "RohdeSchwarz"
    BY DEF Described
  <2> HIDE DEF f
  <2> QED
    BY <1>2, <2>1, <2>2, <2>3, <2>4
<1>6. CASE Drop
  BY <1>6 DEF Drop
<1>7. CASE Exporter(StartXml) \/ Exporter(WriteAttr) \/ Exporter(StartPayload)
           \/ Exporter(WritePayload)
  BY <1>7 DEF Exporter
<1> QED
  BY <1>3, <1>4, <1>5, <1>6, <1>7 DEF Next, vars

LEMMA StepMaps == IInv /\ [Next]_vars => [W!Next]_(W!vars)
<1> SUFFICES ASSUME IInv, [Next]_vars, handle' # handle
             PROVE  W!Next
  BY DEF W!vars
<1>1. W!Closed = Closed
  BY DEF W!Closed, Closed
<1>2. CASE handle # Closed /\ handle' = Closed
  BY <1>1, <1>2 DEF W!Next, W!Drop
<1>3. ASSUME handle = Closed,
             NEW f \in PairFiles, f.fam = "RohdeSchwarz", handle' = OpenRs(f)
      PROVE  W!Next
  BY <1>1, <1>3, OpensAsRs DEF W!Next, W!Open
<1> QED
  BY <1>2, <1>3, StepIs

(* Opening a pair while it is written implements WfmFile: three looks at   *)
(* two changing files come to the open of one file that might have been    *)
(* there, or to a stutter (rohde_schwarz.rs:62-126).                       *)
THEOREM Implements == Spec => ImplementsWfmFile
<1>1. Init => W!Init
  BY DEF Init, W!Init, W!Closed, Closed
<1> QED
  BY <1>1, StepMaps, Inductive, PTL DEF Spec, ImplementsWfmFile, W!Spec

-----------------------------------------------------------------------------
(* The theorems of HandleProofs, for the handles of such pairs and for     *)
(* every start and length.                                                 *)
AnyUsize == (0 .. USize - 1) \cup {Absent}

P == INSTANCE HandleProofs WITH
    Files <- PairFiles, Starts <- AnyUsize, Lengths <- AnyUsize

LEMMA PairsAreFiles ==
    /\ P!FilesAssumption /\ P!ArgumentsAssumption
    /\ P!WidthAssumption /\ P!HeaderSizeAssumption /\ P!ThresholdAssumption
<1>1. P!WidthAssumption /\ P!HeaderSizeAssumption /\ P!ThresholdAssumption
  BY WidthAssumption, HeaderSizeAssumption, ThresholdAssumption
     DEF P!WidthAssumption, P!HeaderSizeAssumption, P!ThresholdAssumption
<1>2. P!ArgumentsAssumption
  BY DEF P!ArgumentsAssumption, AnyUsize, P!Usizes, P!Absent, Absent
<1>3. ASSUME NEW f \in PairFiles
      PROVE  P!FileShape(f)
  <2>0. PICK s \in Sessions :
           \E x \in Xmls(s), p \in Payloads(s) : f = Described(s, x, p)
    BY DEF PairFiles, Xmls, Payloads
  <2>1. PICK x \in Xmls(s), p \in Payloads(s) : f = Described(s, x, p)
    BY <2>0
  <2> DEFINE c == s[x.gen]
             d == s[p.gen]
  <2>2. CaptureShape(c) /\ CaptureShape(d) /\ p.len \in Nat /\ p.len <= FullLen(d)
    <3>1. x.gen \in 1 .. Len(s)
      BY DEF Xmls
    <3> QED
      BY <3>1, Captures, PayloadIs
  <2>3. p.len \in 0 .. USize - 1
    <3>1. FullLen(d) \in Nat /\ FullLen(d) < USize
      BY <2>2, LengthsAre DEF CaptureShape
    <3> HIDE DEF d
    <3> QED
      BY <2>2, <3>1, WidthAssumption
  <2>4. ActiveChannels(x, c) \in Seq(1 .. 4)
    BY Active
  <2>5. d.fmt \in DOMAIN RsBytes /\ d.hw \in 0 .. U32 - 1
    BY <2>2, WidthAssumption DEF CaptureShape
  <2>6. \A t, v : v \in 0 .. USize - 1 => ValueOf(x, t, v, 0) \in 0 .. USize - 1
    BY WidthAssumption DEF ValueOf
  <2>7. c.rec \in 0 .. USize - 1 /\ c.lead \in 0 .. USize - 1
    BY <2>2 DEF CaptureShape
  <2>8. /\ f.fam = "RohdeSchwarz" /\ f.size = p.len
        /\ f.h.fmt = d.fmt /\ f.h.hw = d.hw /\ f.h.active = ActiveChannels(x, c)
        /\ f.h.rec = ValueOf(x, "RecordLength", c.rec, 0)
        /\ f.h.lead = ValueOf(x, "LeadingSettlingSamples", c.lead, 0)
    BY <2>1 DEF Described
  <2> HIDE DEF c, d
  <2>9. /\ f.size \in P!Usizes /\ f.h.rec \in P!Usizes /\ f.h.lead \in P!Usizes
        /\ f.h.hw \in P!U32s /\ f.h.active \in Seq(1 .. 4) /\ f.h.fmt \in DOMAIN P!RsBytes
    BY <2>3, <2>4, <2>5, <2>6, <2>7, <2>8 DEF P!Usizes, P!U32s, P!RsBytes, RsBytes
  <2> QED
    BY <2>8, <2>9 DEF P!FileShape, P!AllFamilies, P!AsStored
<1> QED
  BY <1>1, <1>2, <1>3 DEF P!FilesAssumption

LEMMA OpensAsPair ==
    ASSUME NEW f, f.fam = "RohdeSchwarz"
    PROVE  P!OpenFile(f) = OpenRs(f)
<1>1. P!OpenFile(f) = P!OpenRs(f)
  BY DEF P!OpenFile, P!AsStored
<1>2. \A n : P!RsPrefix(n) = RsPrefix(n)
  BY DEF P!RsPrefix, RsPrefix
<1>3. P!RsBytes = RsBytes
  BY DEF P!RsBytes, RsBytes
<1>4. \A h, stride, size : P!PayloadFits(h, stride, size) = PayloadFits(h, stride, size)
  BY DEF P!PayloadFits, PayloadFits
<1>5. \A a, b : P!Smaller(a, b) = Smaller(a, b)
  BY DEF P!Smaller, Smaller
<1>6. /\ \A v : P!Ok(v) = Ok(v)
      /\ \A v : P!Err(v) = Err(v)
      /\ P!Overrun = Overrun
  BY DEF P!Ok, Ok, P!Err, Err, P!Overrun, Overrun
<1>7. P!OpenRs(f) = OpenRs(f)
  BY <1>2, <1>3, <1>4, <1>5, <1>6, Zenon DEF P!OpenRs, OpenRs
<1> QED
  BY <1>1, <1>7

LEMMA IsPairHandle == Spec => P!Spec
<1>1. Init => P!Init
  BY DEF Init, P!Init, P!Closed, Closed
<1>2. IInv /\ [Next]_vars => [P!Next]_(P!vars)
  <2> SUFFICES ASSUME IInv, [Next]_vars, handle' # handle
               PROVE  P!Next
    BY DEF P!vars
  <2>1. P!Closed = Closed
    BY DEF P!Closed, Closed
  <2>2. CASE handle # Closed /\ handle' = Closed
    BY <2>1, <2>2 DEF P!Next, P!Drop
  <2>3. ASSUME handle = Closed,
               NEW f \in PairFiles, f.fam = "RohdeSchwarz", handle' = OpenRs(f)
        PROVE  P!Next
    BY <2>1, <2>3, OpensAsPair DEF P!Next, P!Open
  <2> QED
    BY <2>2, <2>3, StepIs
<1> QED
  BY <1>1, <1>2, Inductive, PTL DEF Spec, P!Spec

(* A handle put together from a cut XML, a payload that is not whole or    *)
(* the files of two captures is still a handle: every answer it gives is   *)
(* one of the file, a slice is the window of the whole, nothing panics, no *)
(* byte is part of two samples, and the answers of its operations agree    *)
(* (rohde_schwarz.rs:62-126, parser.rs:86-160).                            *)
THEOREM MixedPairs ==
    Spec => [](/\ P!TypeOK /\ P!WindowsInFile /\ P!SliceIsWindow /\ P!PanicsOnlyOn
               /\ P!OpenChecksSuffice /\ P!AnswersAgree /\ P!RowTimes
               /\ P!ColumnsAreChannels /\ P!InfoPredictsRows /\ P!EveryByteOnce)
BY PairsAreFiles, IsPairHandle, P!TypeCorrect, P!Windows, P!Slices, P!Panics, P!ChecksSuffice,
   P!Agreement, P!TimesAgree, P!ColumnsAgree, P!InfoTells, P!BytesOnce, PTL
=============================================================================
