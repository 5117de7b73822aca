--------------------------- MODULE KeysightProofs ---------------------------
(***************************************************************************)
(* Proofs about KeysightScan, for any files: the cursor stays in the file, *)
(* and the payload windows it leaves behind are in the file, in order and  *)
(* apart. The inductive invariant keeps every window behind the cursor and *)
(* the open record's choice behind the windows of the earlier records.     *)
(* A second invariant says how far the walk and the file as a whole agree, *)
(* and at the end of it their answers are the same. The last says what the *)
(* decodes will need of the windows kept.                                  *)
(***************************************************************************)
EXTENDS KeysightScan, OrderProofs, SequenceTheorems

FirstPayload == HeadSize + RecordMin + BufferMin

Kinds  == {"float", "logic", "other"}
Waves  == [pts: Int, off: Int, len: Int, kind: Kinds, bpp: Int]
Choice == [kind: Kinds, bpp: Int, off: Int, len: Int]

(* A window that lies behind all headers before the offset at. *)
Behind(w, at) ==
    /\ w.off \in Int /\ w.len \in Int
    /\ w.off >= FirstPayload /\ w.len >= 0 /\ w.off + w.len <= at

AllBehind(ws, at) == \A i \in 1 .. Len(ws) : Behind(ws[i], at)
EndBefore(ws, at) == \A i \in 1 .. Len(ws) : ws[i].off + ws[i].len < at
Apart(ws) == \A i, j \in 1 .. Len(ws) : i < j => ws[i].off + ws[i].len < ws[j].off

(* Where the walk is. *)
CounterInv ==
    /\ raw \in Raws
    /\ cursor \in 0 .. raw.size
    /\ pc \in {"head", "record", "buffer", "done"}
    /\ pc = "done" <=> result # NoResult
    /\ k \in Nat \ {0} /\ b \in Nat \ {0}
    /\ pc \in {"record", "buffer"} => raw.n \in 0 .. MaxWaveforms
    /\ pc = "head" => cursor = 0 /\ k = 1
    /\ pc = "record" => k <= raw.n + 1 /\ cursor >= HeadSize
    /\ pc = "buffer" => /\ k <= raw.n /\ cursor >= HeadSize + RecordMin
                        /\ Record.nbufs \in 1 .. MaxBuffers
                        /\ b <= Record.nbufs + 1

(* What it leaves behind. *)
WindowInv ==
    /\ wfs \in Seq(Waves)
    /\ chosen \in {NoBuffer} \cup Choice
    /\ AllBehind(wfs, cursor)
    /\ Apart(wfs)
    /\ pc = "buffer" /\ chosen # NoBuffer => Behind(chosen, cursor) /\ EndBefore(wfs, chosen.off)

IInv == CounterInv /\ WindowInv

-----------------------------------------------------------------------------
(* Behind and AllBehind only ask more of a smaller offset. *)
LEMMA FurtherBehind ==
    ASSUME NEW ws, NEW at \in Int, NEW later \in Int, at <= later, AllBehind(ws, at)
    PROVE  AllBehind(ws, later)
  BY DEF AllBehind, Behind

(* A window appended behind all others leaves them behind it and apart. *)
LEMMA AppendWindow ==
    ASSUME NEW S, NEW ws \in Seq(S), NEW w \in S, NEW at \in Int,
           AllBehind(ws, at), Apart(ws), Behind(w, at), EndBefore(ws, w.off)
    PROVE  AllBehind(Append(ws, w), at) /\ Apart(Append(ws, w))
  <1> DEFINE aw == Append(ws, w)
  <1>1. /\ Len(ws) \in Nat
        /\ Len(aw) = Len(ws) + 1
        /\ \A i \in 1 .. Len(ws) : aw[i] = ws[i]
        /\ aw[Len(ws) + 1] = w
    OBVIOUS
  <1> HIDE DEF aw
  <1>2. AllBehind(aw, at)
    BY <1>1 DEF AllBehind
  <1>3. ASSUME NEW i \in 1 .. Len(aw), NEW j \in 1 .. Len(aw), i < j
        PROVE  aw[i].off + aw[i].len < aw[j].off
    <2>1. CASE j <= Len(ws)
      BY <1>1, <1>3, <2>1 DEF Apart
    <2>2. CASE j = Len(ws) + 1
      BY <1>1, <1>3, <2>2 DEF EndBefore
    <2> QED
      BY <1>1, <2>1, <2>2
  <1> QED
    BY <1>2, <1>3 DEF Apart, aw

(* A buffer's size as it fits: not negative, and within the file. *)
LEMMA FittingSize ==
    ASSUME NEW r \in Raws, NEW at \in Nat, NEW size \in r.size - USize + 1 .. USize - 1,
           at + (size % USize) <= r.size
    PROVE  size >= 0 /\ at + size <= r.size
  <1>1. r.size \in Nat /\ r.size < USize /\ USize \in Nat
    BY RawsAssumption, WidthAssumption DEF RawFiles
  <1>2. CASE size >= 0
    <2>1. size % USize = size
      BY <1>1, <1>2
    <2> QED
      BY <1>1, <1>2, <2>1
  <1>3. CASE size < 0
    <2>1. size % USize = size + USize
      BY <1>1, <1>3
    <2> QED
      BY <1>1, <1>3, <2>1
  <1> QED
    BY <1>1, <1>2, <1>3

(* A declared record and buffer are of the file, with sizes a file can have. *)
LEMMA RecordShape ==
    ASSUME NEW r \in Raws, r.n \in 0 .. MaxWaveforms, NEW i \in 1 .. r.n
    PROVE  r.recs[i] \in RecordHeaders
  <1>1. r.recs \in Seq(RecordHeaders) /\ Len(r.recs) = r.n
    BY RawsAssumption DEF RawFiles
  <1> QED
    BY <1>1, ElementOfSeq

LEMMA BufferShape ==
    ASSUME NEW r \in Raws, r.n \in 0 .. MaxWaveforms, NEW i \in 1 .. r.n,
           r.recs[i].nbufs \in 1 .. MaxBuffers, NEW j \in 1 .. r.recs[i].nbufs
    PROVE  /\ r.recs[i].bufs[j] \in BufferHeaders
           /\ r.recs[i].bufs[j].size \in r.size - USize + 1 .. USize - 1
  <1>1. Len(r.recs) = r.n
    BY RawsAssumption
  <1>2. Len(r.recs[i].bufs) = r.recs[i].nbufs
    BY <1>1, RawsAssumption
  <1>3. r.recs[i].bufs \in Seq(BufferHeaders)
    BY RecordShape DEF RecordHeaders
  <1>4. r.recs[i].bufs[j] \in BufferHeaders
    BY <1>2, <1>3, ElementOfSeq
  <1> QED
    BY <1>1, <1>2, <1>4, RawsAssumption

-----------------------------------------------------------------------------
LEMMA InitInv == Init => IInv
  <1> SUFFICES ASSUME Init PROVE IInv
    OBVIOUS
  <1>1. raw.size \in Nat
    BY RawsAssumption DEF Init, Begin, RawFiles
  <1>2. CounterInv
    BY <1>1 DEF Init, Begin, CounterInv
  <1>3. WindowInv
    BY DEF Init, Begin, WindowInv, AllBehind, Apart
  <1> QED
    BY <1>2, <1>3 DEF IInv

LEMMA FailInv == IInv /\ pc # "done" /\ Fail => IInv'
  <1> SUFFICES ASSUME IInv, Fail PROVE IInv'
    OBVIOUS
  <1>1. CounterInv'
    BY DEF IInv, CounterInv, Fail, Err, NoResult
  <1>2. WindowInv'
    BY DEF IInv, WindowInv, Fail, AllBehind, Apart
  <1> QED
    BY <1>1, <1>2 DEF IInv

LEMMA HeadInv == IInv /\ ReadHead => IInv'
  <1> SUFFICES ASSUME IInv, ReadHead PROVE IInv'
    OBVIOUS
  <1>1. CASE raw.size < HeadSize \/ raw.n \notin 0 .. MaxWaveforms
    BY <1>1, FailInv DEF ReadHead
  <1>2. CASE ~(raw.size < HeadSize \/ raw.n \notin 0 .. MaxWaveforms)
    <2>1. /\ cursor = 0 /\ k = 1 /\ raw.size \in Nat /\ raw.n \in 0 .. MaxWaveforms
          /\ cursor' = HeadSize /\ pc' = "record" /\ pc = "head"
          /\ UNCHANGED <<raw, k, b, chosen, wfs, result>>
      BY <1>2, RawsAssumption DEF ReadHead, IInv, CounterInv, RawFiles
    <2>2. AllBehind(wfs, HeadSize)
      BY <2>1, FurtherBehind DEF IInv, WindowInv, HeadSize
    <2>3. CounterInv'
      BY <1>2, <2>1 DEF IInv, CounterInv, HeadSize, MaxWaveforms
    <2>4. WindowInv'
      BY <2>1, <2>2 DEF IInv, WindowInv, Apart
    <2> QED
      BY <2>3, <2>4 DEF IInv
  <1> QED
    BY <1>1, <1>2

LEMMA RecordInv == IInv /\ ReadRecord => IInv'
  <1> SUFFICES ASSUME IInv, ReadRecord PROVE IInv'
    OBVIOUS
  <1>1. CASE ~Readable \/ ~PlausibleRecord(Record)
    BY <1>1, FailInv DEF ReadRecord
  <1>2. CASE Readable /\ PlausibleRecord(Record)
    <2>1. /\ pc = "record" /\ k <= raw.n /\ cursor >= HeadSize
          /\ raw \in Raws /\ raw.n \in 0 .. MaxWaveforms /\ k \in Nat \ {0}
          /\ cursor \in 0 .. raw.size /\ raw.size \in Nat
      BY RawsAssumption DEF ReadRecord, IInv, CounterInv, RawFiles
    <2>2. Record.hsize \in Int
      BY <2>1, RecordShape DEF Record, RecordHeaders, MaxWaveforms
    <2>3. /\ Record.hsize >= RecordMin /\ cursor + Record.hsize <= raw.size
          /\ Record.nbufs \in 1 .. MaxBuffers
      BY <1>2 DEF PlausibleRecord
    <2>4. /\ cursor' = cursor + Record.hsize /\ b' = 1 /\ chosen' = NoBuffer
          /\ pc' = "buffer" /\ UNCHANGED <<raw, k, wfs, result>>
      BY <1>2 DEF ReadRecord
    <2>5. cursor' \in 0 .. raw.size /\ cursor <= cursor' /\ cursor' >= HeadSize + RecordMin
      BY <2>1, <2>2, <2>3, <2>4 DEF HeadSize, RecordMin
    <2>6. AllBehind(wfs, cursor')
      BY <2>1, <2>5, FurtherBehind DEF IInv, WindowInv
    <2>7. Record' = Record
      BY <2>4 DEF Record
    <2>8. CounterInv'
      BY <2>1, <2>3, <2>4, <2>5, <2>7 DEF IInv, CounterInv, MaxBuffers
    <2>9. WindowInv'
      BY <2>4, <2>6 DEF IInv, WindowInv, Apart
    <2> QED
      BY <2>8, <2>9 DEF IInv
  <1> QED
    BY <1>1, <1>2

LEMMA BufferInv == IInv /\ ReadBuffer => IInv'
  <1> SUFFICES ASSUME IInv, ReadBuffer PROVE IInv'
    OBVIOUS
  <1> DEFINE buf == Record.bufs[b]
             at  == cursor + buf.hsize
  <1>1. CASE ~Readable \/ buf.hsize < BufferMin \/ at > raw.size \/ ~Fits(at, buf.size)
    BY <1>1, FailInv DEF ReadBuffer
  <1>2. CASE ~(~Readable \/ buf.hsize < BufferMin \/ at > raw.size \/ ~Fits(at, buf.size))
    <2>1. /\ pc = "buffer" /\ k \in 1 .. raw.n /\ cursor >= HeadSize + RecordMin
          /\ b \in 1 .. Record.nbufs /\ Record.nbufs \in 1 .. MaxBuffers
          /\ raw \in Raws /\ raw.n \in 0 .. MaxWaveforms
          /\ cursor \in 0 .. raw.size /\ raw.size \in Nat
      BY RawsAssumption DEF ReadBuffer, IInv, CounterInv, RawFiles, MaxWaveforms, MaxBuffers
    <2>2. buf \in BufferHeaders /\ buf.size \in raw.size - USize + 1 .. USize - 1
      BY <2>1, BufferShape DEF Record
    <2>3. /\ chosen' = IF Upgrades(buf) THEN Window(buf, at) ELSE chosen
          /\ cursor' = at + buf.size /\ b' = b + 1
          /\ UNCHANGED <<raw, pc, k, wfs, result>>
      BY <1>2 DEF ReadBuffer
    <2>4. buf.hsize \in Int /\ buf.size \in Int /\ buf.bpp \in Int /\ buf.kind \in Kinds
      BY <2>2 DEF BufferHeaders, Kinds
    <2>5. at \in Nat /\ at >= cursor + BufferMin /\ at >= FirstPayload
      BY <1>2, <2>1, <2>4 DEF FirstPayload, BufferMin, HeadSize, RecordMin
    <2>6. buf.size >= 0 /\ at + buf.size <= raw.size
      <3> HIDE DEF buf, at
      <3> QED
        BY <1>2, <2>1, <2>2, <2>5, FittingSize DEF Fits
    <2> HIDE DEF buf, at
    <2>7. cursor' \in 0 .. raw.size /\ cursor <= cursor' /\ cursor' >= HeadSize + RecordMin
      BY <2>1, <2>3, <2>4, <2>5, <2>6 DEF BufferMin, HeadSize, RecordMin
    <2>8. AllBehind(wfs, cursor')
      BY <2>1, <2>7, FurtherBehind DEF IInv, WindowInv
    <2>9. CounterInv'
      <3>1. Record' = Record
        BY <2>3 DEF Record
      <3> QED
        BY <2>1, <2>3, <2>7, <3>1 DEF IInv, CounterInv, MaxBuffers, MaxWaveforms
    <2>10. CASE Upgrades(buf)
      <3>1. chosen' = Window(buf, at)
        BY <2>3, <2>10
      <3>2. chosen' \in Choice /\ chosen'.off = at /\ chosen'.len = buf.size
        BY <2>4, <2>5, <3>1 DEF Window, Choice
      <3>3. Behind(chosen', cursor')
        BY <2>3, <2>4, <2>5, <2>6, <3>2 DEF Behind
      <3>4. EndBefore(wfs, at)
        BY <2>1, <2>5, SMTT(30) DEF IInv, WindowInv, AllBehind, Behind, EndBefore, BufferMin
      <3> QED
        BY <2>3, <2>8, <2>9, <3>2, <3>3, <3>4 DEF IInv, WindowInv, Apart, EndBefore
    <2>11. CASE ~Upgrades(buf)
      <3>1. chosen' = chosen
        BY <2>3, <2>11
      <3>2. chosen # NoBuffer => Behind(chosen, cursor') /\ EndBefore(wfs, chosen.off)
        BY <2>1, <2>7 DEF IInv, WindowInv, Behind
      <3> QED
        BY <2>1, <2>3, <2>8, <2>9, <3>1, <3>2 DEF IInv, WindowInv, Apart, EndBefore
    <2> QED
      BY <2>10, <2>11
  <1> QED
    BY <1>1, <1>2

LEMMA EndRecordInv == IInv /\ EndRecord => IInv'
  <1> SUFFICES ASSUME IInv, EndRecord PROVE IInv'
    OBVIOUS
  <1>1. /\ pc = "buffer" /\ k \in 1 .. raw.n /\ cursor >= HeadSize
        /\ raw \in Raws /\ raw.n \in 0 .. MaxWaveforms
        /\ pc' = "record" /\ k' = k + 1
        /\ UNCHANGED <<raw, cursor, b, chosen, result>>
    BY DEF EndRecord, IInv, CounterInv, HeadSize, RecordMin, MaxWaveforms, CounterInv
  <1>2. CounterInv'
    BY <1>1 DEF IInv, CounterInv, MaxWaveforms
  <1>3. CASE chosen = NoBuffer
    <2>1. wfs' = wfs
      BY <1>3 DEF EndRecord
    <2> QED
      BY <1>1, <1>2, <2>1 DEF IInv, WindowInv, AllBehind, Apart
  <1>4. CASE chosen # NoBuffer
    <2> DEFINE w == [pts |-> Record.pts, off |-> chosen.off, len |-> chosen.len,
                     kind |-> chosen.kind, bpp |-> chosen.bpp]
    <2>1. wfs' = Append(wfs, w)
      BY <1>4 DEF EndRecord
    <2>2. chosen \in Choice /\ Behind(chosen, cursor) /\ EndBefore(wfs, chosen.off)
          /\ wfs \in Seq(Waves) /\ AllBehind(wfs, cursor) /\ Apart(wfs) /\ cursor \in Int
      BY <1>1, <1>4 DEF IInv, WindowInv, CounterInv
    <2>3. Record.pts \in Int
      BY <1>1, RecordShape DEF Record, RecordHeaders
    <2>4. w \in Waves /\ w.off = chosen.off /\ w.len = chosen.len
      BY <2>2, <2>3 DEF Waves, Choice
    <2>5. Behind(w, cursor) /\ EndBefore(wfs, w.off)
      BY <2>2, <2>4 DEF Behind, EndBefore
    <2> HIDE DEF w
    <2>6. AllBehind(Append(wfs, w), cursor) /\ Apart(Append(wfs, w))
      BY <2>2, <2>4, <2>5, AppendWindow
    <2>7. Append(wfs, w) \in Seq(Waves)
      BY <2>2, <2>4
    <2>8. WindowInv'
      BY <1>1, <2>1, <2>2, <2>6, <2>7 DEF WindowInv
    <2> QED
      BY <1>2, <2>8 DEF IInv
  <1> QED
    BY <1>3, <1>4

LEMMA FinishInv == IInv /\ Finish => IInv'
  <1> SUFFICES ASSUME IInv, Finish PROVE IInv'
    OBVIOUS
  <1>1. result' # NoResult
    BY DEF Finish, Ok, NoResult
  <1>2. CounterInv'
    BY <1>1 DEF IInv, CounterInv, Finish
  <1>3. WindowInv'
    BY DEF IInv, WindowInv, Finish, AllBehind, Apart
  <1> QED
    BY <1>2, <1>3 DEF IInv

LEMMA StutterInv == IInv /\ UNCHANGED vars => IInv'
  BY DEF vars, IInv, CounterInv, WindowInv, AllBehind, Apart, EndBefore, Record

LEMMA StepInv == IInv /\ [Next]_vars => IInv'
  BY HeadInv, RecordInv, BufferInv, EndRecordInv, FinishInv, StutterInv DEF Next

LEMMA Invariance == Spec => []IInv
  BY InitInv, StepInv, PTL DEF Spec

-----------------------------------------------------------------------------
LEMMA CountersImply == IInv => TypeOK
  BY RawsAssumption DEF IInv, CounterInv, TypeOK, RawFiles

LEMMA WindowsImply == IInv => PayloadsApart
  <1> SUFFICES ASSUME IInv PROVE PayloadsApart
    OBVIOUS
  <1>1. AllBehind(Windows, cursor) /\ Apart(Windows)
    <2>1. CASE pc = "buffer" /\ chosen # NoBuffer
      <3>1. wfs \in Seq(Waves \cup Choice) /\ chosen \in Waves \cup Choice
        BY <2>1, SeqMonotonic DEF IInv, WindowInv
      <3> QED
        BY <2>1, <3>1, AppendWindow DEF IInv, WindowInv, CounterInv, Windows
    <2>2. CASE ~(pc = "buffer" /\ chosen # NoBuffer)
      BY <2>2 DEF IInv, WindowInv, Windows
    <2> QED
      BY <2>1, <2>2
  <1> QED
    BY <1>1 DEF PayloadsApart, AllBehind, Behind, Apart, FirstPayload

-----------------------------------------------------------------------------
(* For any files, the cursor of keysight::parse stays in the file and its  *)
(* counters within what the headers declare (keysight.rs:129-275).         *)
THEOREM TypeCorrect == Spec => []TypeOK
  BY Invariance, CountersImply, PTL

(* For any files, whatever their headers say, the payload windows that the *)
(* parse leaves to later decodes are in the file, in order and apart.      *)
THEOREM WindowsApart == Spec => []PayloadsApart
  BY Invariance, WindowsImply, PTL

-----------------------------------------------------------------------------
(* What the walk answers is what the file as a whole calls for. The places *)
(* of the headers are recursive functions.                                 *)

(* The buffers of a record one behind the other. *)
LEMMA BuffersFollow ==
    ASSUME NEW rec \in RecordHeaders, NEW at \in Int
    PROVE  /\ AfterBuffers(rec, at, 0) = at + rec.hsize
           /\ \A j \in 0 .. Len(rec.bufs) : AfterBuffers(rec, at, j) \in Int
           /\ \A j \in 1 .. Len(rec.bufs) :
                AfterBuffers(rec, at, j) = AfterBuffers(rec, at, j - 1)
                                           + rec.bufs[j].hsize + rec.bufs[j].size
<1> DEFINE N == Len(rec.bufs)
           G(e, j) == [m \in 0 .. j |-> IF m = 0 THEN at + rec.hsize
                                        ELSE e[m - 1] + rec.bufs[m].hsize + rec.bufs[m].size]
           A(j) == CHOOSE e : e = G(e, j)
<1>1. /\ N \in Nat /\ rec.hsize \in Int
      /\ \A m \in 1 .. N : rec.bufs[m].hsize \in Int /\ rec.bufs[m].size \in Int
  <2>1. rec.bufs \in Seq(BufferHeaders) /\ rec.hsize \in Int
    BY DEF RecordHeaders
  <2>2. \A m \in 1 .. N : rec.bufs[m] \in BufferHeaders
    BY <2>1, ElementOfSeq
  <2> QED
    BY <2>1, <2>2, SMTT(30) DEF BufferHeaders
<1> HIDE DEF N
<1>2. ASSUME NEW j \in 0 .. N
      PROVE  /\ A(j) \in [0 .. j -> Int] /\ A(j)[0] = at + rec.hsize
             /\ \A m \in 1 .. j : A(j)[m] = A(j)[m - 1] + rec.bufs[m].hsize + rec.bufs[m].size
  <2> DEFINE F == [m \in 1 .. j |-> [x \in Int |-> x + rec.bufs[m].hsize + rec.bufs[m].size]]
  <2>1. F \in [1 .. j -> [Int -> Int]]
    BY <1>1
  <2>2. j \in Nat /\ at + rec.hsize \in Int
    BY <1>1
  <2>3. \A m \in 1 .. j, x \in Int : F[m][x] = x + rec.bufs[m].hsize + rec.bufs[m].size
    OBVIOUS
  <2> DEFINE start == at + rec.hsize
  <2> HIDE DEF F, start
  <2>14. start \in Int
    BY <2>2 DEF start
  <2>15. \E e \in [0 .. j -> Int] : StepsBy(e, start, F, j)
    <3>1. j \in Nat
      BY <2>2
    <3> QED
      BY <2>1, <3>1, <2>14, Recursive
  <2>4. PICK e : /\ e \in [0 .. j -> Int] /\ e[0] = at + rec.hsize
                 /\ \A m \in 1 .. j : e[m] = F[m][e[m - 1]]
    BY <2>15 DEF StepsBy, start
  <2>5. ASSUME NEW m \in 1 .. j
        PROVE  e[m] = e[m - 1] + rec.bufs[m].hsize + rec.bufs[m].size
    <3>1. e[m - 1] \in Int
      <4>1. m - 1 \in 0 .. j
        BY <2>2
      <4> QED
        BY <2>4, <4>1
    <3> QED
      BY <2>3, <2>4, <3>1
  <2>6. e = G(e, j)
    BY <2>4, <2>5
  <2> HIDE DEF G
  <2>7. A(j) = G(A(j), j)
    BY <2>6
  <2> DEFINE c == A(j)
  <2>8. c = G(c, j)
    BY <2>7
  <2> HIDE DEF A, c
  <2>9. c[0] = at + rec.hsize
    BY <2>2, <2>8 DEF G
  <2>10. \A m \in 1 .. j : c[m] = c[m - 1] + rec.bufs[m].hsize + rec.bufs[m].size
    BY <2>2, <2>8 DEF G
  <2>11. ASSUME NEW m \in 1 .. j, e[m - 1] = c[m - 1]
         PROVE  e[m] = c[m]
    BY <2>5, <2>10, <2>11
  <2>12. \A m \in 0 .. j : e[m] = c[m]
    <3>1. e[0] = c[0]
      BY <2>4, <2>9
    <3>2. \A m \in 1 .. j : e[m - 1] = c[m - 1] => e[m] = c[m]
      BY <2>11
    <3> QED
      BY <2>2, <3>1, <3>2, SameRecursion DEF StepAlike
  <2>13. c \in [0 .. j -> Int]
    <3>1. c = [m \in 0 .. j |-> c[m]]
      BY <2>8 DEF G
    <3> QED
      BY <2>4, <2>12, <3>1
  <2> QED
    BY <2>9, <2>10, <2>13 DEF c
<1>3. \A j : AfterBuffers(rec, at, j) = A(j)[j]
  BY DEF AfterBuffers
<1> HIDE DEF A
<1>4. ASSUME NEW j \in 1 .. N
      PROVE  A(j)[j - 1] = A(j - 1)[j - 1]
  <2>1. j - 1 \in Nat /\ j - 1 \in 0 .. N /\ j \in 0 .. N /\ j - 1 \in 0 .. j - 1
    BY <1>1
  <2>2. \A m \in 1 .. j - 1 : A(j)[m - 1] = A(j - 1)[m - 1] => A(j)[m] = A(j - 1)[m]
    <3>1. \A m \in 1 .. j - 1 :
            /\ A(j)[m] = A(j)[m - 1] + rec.bufs[m].hsize + rec.bufs[m].size
            /\ A(j - 1)[m] = A(j - 1)[m - 1] + rec.bufs[m].hsize + rec.bufs[m].size
      BY <1>2, <2>1
    <3> QED
      BY <3>1
  <2>3. A(j)[0] = A(j - 1)[0]
    BY <1>2, <2>1
  <2>4. \A m \in 0 .. j - 1 : A(j)[m] = A(j - 1)[m]
    BY <2>1, <2>2, <2>3, SameRecursion DEF StepAlike
  <2> QED
    BY <2>1, <2>4
<1>5. AfterBuffers(rec, at, 0) = at + rec.hsize
  BY <1>1, <1>2, <1>3
<1>6. \A j \in 0 .. N : AfterBuffers(rec, at, j) \in Int
  BY <1>1, <1>2, <1>3
<1>7. \A j \in 1 .. N : AfterBuffers(rec, at, j) = AfterBuffers(rec, at, j - 1)
                                           + rec.bufs[j].hsize + rec.bufs[j].size
  <2> SUFFICES ASSUME NEW j \in 1 .. N
               PROVE  A(j)[j] = A(j - 1)[j - 1] + rec.bufs[j].hsize + rec.bufs[j].size
    BY <1>3
  <2>1. j \in 0 .. N /\ j \in 1 .. j
    BY <1>1
  <2>2. A(j)[j] = A(j)[j - 1] + rec.bufs[j].hsize + rec.bufs[j].size
    BY <1>2, <2>1
  <2> QED
    BY <1>4, <2>2
<1> QED
  BY <1>5, <1>6, <1>7 DEF N

(* The records one behind the other. *)
LEMMA RecordsFollow ==
    ASSUME NEW recs \in Seq(RecordHeaders)
    PROVE  /\ RecAt(recs, 1) = HeadSize
           /\ \A i \in 1 .. Len(recs) + 1 : RecAt(recs, i) \in Int
           /\ \A i \in 1 .. Len(recs) :
                RecAt(recs, i + 1) = AfterBuffers(recs[i], RecAt(recs, i), Len(recs[i].bufs))
<1> DEFINE N == Len(recs)
           Past(m, x) == AfterBuffers(recs[m], x, Len(recs[m].bufs))
           G(e, i) == [m \in 1 .. i |-> IF m = 1 THEN HeadSize ELSE Past(m - 1, e[m - 1])]
           A(i) == CHOOSE e : e = G(e, i)
<1>1. N \in Nat /\ HeadSize \in Int
  BY DEF HeadSize
<1>2. \A m \in 1 .. N, x \in Int : Past(m, x) \in Int
  <2> SUFFICES ASSUME NEW m \in 1 .. N, NEW x \in Int
               PROVE  Past(m, x) \in Int
    OBVIOUS
  <2>1. recs[m] \in RecordHeaders
    BY ElementOfSeq
  <2>2. Len(recs[m].bufs) \in 0 .. Len(recs[m].bufs)
    BY <2>1 DEF RecordHeaders
  <2> QED
    BY <2>1, <2>2, BuffersFollow
<1> HIDE DEF N, Past
<1>3. ASSUME NEW i \in 1 .. N + 1
      PROVE  /\ A(i) = [m \in 1 .. i |-> A(i)[m]] /\ A(i)[1] = HeadSize
             /\ \A m \in 1 .. i : A(i)[m] \in Int
             /\ \A m \in 2 .. i : A(i)[m] = Past(m - 1, A(i)[m - 1])
  <2> DEFINE F == [m \in 1 .. i - 1 |-> [x \in Int |-> Past(m, x)]]
  <2>1. F \in [1 .. i - 1 -> [Int -> Int]]
    BY <1>1, <1>2
  <2>2. i - 1 \in Nat /\ i \in Nat
    BY <1>1
  <2>3. \A m \in 1 .. i - 1, x \in Int : F[m][x] = Past(m, x)
    OBVIOUS
  <2> HIDE DEF F
  <2>4. PICK e : /\ e \in [0 .. i - 1 -> Int] /\ e[0] = HeadSize
                 /\ \A m \in 1 .. i - 1 : e[m] = F[m][e[m - 1]]
    <3> DEFINE n == i - 1
    <3>1. n \in Nat /\ F \in [1 .. n -> [Int -> Int]]
      BY <2>1, <2>2
    <3> HIDE DEF n
    <3>2. \E e \in [0 .. n -> Int] : StepsBy(e, HeadSize, F, n)
      BY <1>1, <3>1, Recursive
    <3> QED
      BY <3>2 DEF n, StepsBy
  <2>5. \A m \in 1 .. i - 1 : e[m] = Past(m, e[m - 1])
    <3>1. \A m \in 1 .. i - 1 : m - 1 \in 0 .. i - 1
      BY <2>2
    <3> QED
      BY <2>3, <2>4, <3>1
  <2> DEFINE f == [m \in 1 .. i |-> e[m - 1]]
  <2>6. \A m \in 1 .. i : f[m] = IF m = 1 THEN HeadSize ELSE Past(m - 1, f[m - 1])
    <3> SUFFICES ASSUME NEW m \in 1 .. i
                 PROVE  f[m] = IF m = 1 THEN HeadSize ELSE Past(m - 1, f[m - 1])
      OBVIOUS
    <3>1. CASE m = 1
      BY <2>4, <3>1
    <3>2. CASE m # 1
      <4>1. m - 1 \in 1 .. i - 1 /\ m - 1 \in 1 .. i
        BY <2>2, <3>2
      <4>2. f[m] = e[m - 1] /\ f[m - 1] = e[(m - 1) - 1]
        BY <4>1
      <4>3. e[m - 1] = Past(m - 1, e[(m - 1) - 1])
        BY <2>5, <4>1
      <4> QED
        BY <3>2, <4>2, <4>3
    <3> QED
      BY <3>1, <3>2
  <2>7. f = G(f, i)
    BY <2>6
  <2> HIDE DEF f, G
  <2>8. \E g : g = G(g, i)
    BY <2>7
  <2>9. A(i) = G(A(i), i)
    BY <2>8
  <2> DEFINE c == A(i)
  <2>10. c = G(c, i)
    BY <2>9
  <2> HIDE DEF A, c
  <2>11. \A m \in 1 .. i : c[m] = IF m = 1 THEN HeadSize ELSE Past(m - 1, c[m - 1])
    <3> DEFINE g == G(c, i)
    <3>1. \A m \in 1 .. i : g[m] = IF m = 1 THEN HeadSize ELSE Past(m - 1, c[m - 1])
      BY DEF G
    <3> HIDE DEF g
    <3> QED
      BY <2>10, <3>1 DEF g
  <2>12. c = [m \in 1 .. i |-> c[m]]
    BY <2>10 DEF G
  <2> DEFINE d == [m \in 0 .. i - 1 |-> c[m + 1]]
  <2>13. \A m \in 0 .. i - 1 : e[m] = d[m]
    <3>1. d[0] = c[1] /\ c[1] = HeadSize /\ 0 \in 0 .. i - 1 /\ 1 \in 1 .. i
      BY <2>2, <2>11
    <3>2. ASSUME NEW m \in 1 .. i - 1, e[m - 1] = d[m - 1]
          PROVE  e[m] = d[m]
      <4>1. d[m] = c[m + 1] /\ d[m - 1] = c[(m - 1) + 1] /\ (m - 1) + 1 = m
            /\ m + 1 \in 1 .. i /\ m + 1 # 1 /\ (m + 1) - 1 = m
        BY <2>2
      <4>2. c[m + 1] = Past(m, c[m])
        BY <2>11, <4>1
      <4>3. e[m] = Past(m, e[m - 1])
        BY <2>5
      <4> QED
        BY <3>2, <4>1, <4>2, <4>3
    <3> HIDE DEF d
    <3>3. \A m \in 1 .. i - 1 : e[m - 1] = d[m - 1] => e[m] = d[m]
      BY <3>2
    <3>4. e[0] = d[0]
      BY <2>4, <3>1
    <3> QED
      BY <2>2, <3>3, <3>4, SameRecursion, ZenonT(60) DEF StepAlike
  <2>14. \A m \in 1 .. i : c[m] \in Int
    <3> SUFFICES ASSUME NEW m \in 1 .. i
                 PROVE  c[m] \in Int
      OBVIOUS
    <3>1. m - 1 \in 0 .. i - 1 /\ (m - 1) + 1 = m
      BY <2>2
    <3>2. d[m - 1] = c[m]
      BY <3>1
    <3> HIDE DEF d
    <3> QED
      BY <2>4, <2>13, <3>1, <3>2
  <2>15. c[1] = HeadSize /\ \A m \in 2 .. i : c[m] = Past(m - 1, c[m - 1])
    BY <2>2, <2>11
  <2> QED
    BY <2>12, <2>14, <2>15 DEF c
<1>4. \A i : RecAt(recs, i) = A(i)[i]
  BY DEF RecAt, Past
<1> HIDE DEF A
<1>5. ASSUME NEW i \in 1 .. N
      PROVE  A(i + 1)[i] = A(i)[i]
  <2>1. i \in 1 .. N + 1 /\ i + 1 \in 1 .. N + 1 /\ i \in Nat /\ i - 1 \in Nat
    BY <1>1
  <2> DEFINE e == [m \in 0 .. i - 1 |-> A(i + 1)[m + 1]]
             f == [m \in 0 .. i - 1 |-> A(i)[m + 1]]
  <2>2. ASSUME NEW m \in 1 .. i - 1, e[m - 1] = f[m - 1]
        PROVE  e[m] = f[m]
    <3>1. /\ m - 1 \in 0 .. i - 1 /\ m \in 0 .. i - 1 /\ (m - 1) + 1 = m
          /\ m + 1 \in 2 .. i /\ m + 1 \in 2 .. i + 1 /\ (m + 1) - 1 = m
      BY <2>1
    <3>2. e[m] = A(i + 1)[m + 1] /\ f[m] = A(i)[m + 1]
          /\ e[m - 1] = A(i + 1)[m] /\ f[m - 1] = A(i)[m]
      BY <3>1
    <3>3. A(i + 1)[m + 1] = Past(m, A(i + 1)[m]) /\ A(i)[m + 1] = Past(m, A(i)[m])
      BY <1>3, <2>1, <3>1
    <3> QED
      BY <2>2, <3>2, <3>3
  <2>3. e[0] = f[0]
    <3>1. 0 \in 0 .. i - 1
      BY <2>1
    <3>2. A(i + 1)[1] = A(i)[1]
      BY <1>3, <2>1
    <3> QED
      BY <3>1, <3>2
  <2>4. i - 1 \in 0 .. i - 1 /\ (i - 1) + 1 = i
    BY <2>1
  <2>5. e[i - 1] = A(i + 1)[i] /\ f[i - 1] = A(i)[i]
    BY <2>4
  <2> HIDE DEF e, f
  <2>6. \A m \in 1 .. i - 1 : e[m - 1] = f[m - 1] => e[m] = f[m]
    BY <2>2
  <2>7. \A m \in 0 .. i - 1 : e[m] = f[m]
    <3> DEFINE n == i - 1
    <3>1. n \in Nat /\ \A m \in 1 .. n : e[m - 1] = f[m - 1] => e[m] = f[m]
      BY <2>1, <2>6
    <3> HIDE DEF n
    <3>2. \A m \in 0 .. n : e[m] = f[m]
      BY <2>3, <3>1, SameRecursion, ZenonT(60) DEF StepAlike
    <3> QED
      BY <3>2 DEF n
  <2> QED
    BY <2>4, <2>5, <2>7
<1>6. RecAt(recs, 1) = HeadSize
  BY <1>1, <1>3, <1>4
<1>7. \A i \in 1 .. N + 1 : RecAt(recs, i) \in Int
  BY <1>1, <1>3, <1>4
<1>8. \A i \in 1 .. N : RecAt(recs, i + 1) = Past(i, RecAt(recs, i))
  <2> SUFFICES ASSUME NEW i \in 1 .. N
               PROVE  A(i + 1)[i + 1] = Past(i, A(i)[i])
    BY <1>4
  <2>1. i + 1 \in 1 .. N + 1 /\ i + 1 \in 2 .. i + 1 /\ (i + 1) - 1 = i
    BY <1>1
  <2>2. A(i + 1)[i + 1] = Past(i, A(i + 1)[i])
    BY <1>3, <2>1
  <2> QED
    BY <1>5, <2>2
<1> QED
  BY <1>6, <1>7, <1>8 DEF N, Past

-----------------------------------------------------------------------------
(* The file as a whole, said of the raw records: where payload l of record *)
(* i is, what is wrong with the file, and the waveforms of the first n     *)
(* records.                                                                *)
PayloadAt(r, i, l) ==
    AfterBuffers(r.recs[i], RecAt(r.recs, i), l - 1) + r.recs[i].bufs[l].hsize
PayloadEnd(r, i, l) == PayloadAt(r, i, l) + r.recs[i].bufs[l].size

Bad(r) ==
    \/ ~Intact(r)
    \/ \E i \in 1 .. Len(r.recs) :
        \/ r.recs[i].pts <= 0
        \/ r.recs[i].bufs = <<>>
        \/ \E l \in 1 .. Len(r.recs[i].bufs) : PayloadEnd(r, i, l) > r.size

Wanted(bufs) == IF OfKind(bufs, "float") # {} THEN OfKind(bufs, "float")
                ELSE OfKind(bufs, "logic")
Best(bufs) == CHOOSE l \in Wanted(bufs) : \A m \in Wanted(bufs) : l <= m

WaveOf(r, i) ==
    LET l   == Best(r.recs[i].bufs)
        buf == r.recs[i].bufs[l]
    IN  [pts |-> r.recs[i].pts, off |-> PayloadAt(r, i, l), len |-> buf.size,
         kind |-> buf.kind, bpp |-> buf.bpp]

KeptTo(r, n) == {i \in 1 .. n : HasSupported(r.recs[i])}
WavesTo(r, n) == LET kept == InOrder(KeptTo(r, n))
                 IN  [m \in 1 .. Len(kept) |-> WaveOf(r, kept[m])]

LEMMA KeptIsFinite ==
    ASSUME NEW r, NEW n \in Nat
    PROVE  /\ KeptTo(r, n) \in SUBSET Nat /\ IsFiniteSet(KeptTo(r, n))
           /\ \A i \in KeptTo(r, n) : i < n + 1
<1>1. KeptTo(r, n) \in SUBSET (1 .. n)
  BY DEF KeptTo
<1>2. IsFiniteSet(1 .. n)
  BY FS_Interval
<1> QED
  BY <1>1, <1>2, FS_Subset

LEMMA NoWavesAtFirst ==
    ASSUME NEW r
    PROVE  WavesTo(r, 0) = <<>>
<1>1. KeptTo(r, 0) = {}
  BY DEF KeptTo
<1>2. Cardinality({}) = 0
  BY FS_EmptySet
<1>3. InOrder({}) = <<>>
  BY <1>2 DEF InOrder
<1>4. WavesTo(r, 0) = [m \in 1 .. 0 |-> WaveOf(r, <<>>[m])]
  <2> DEFINE none == InOrder(KeptTo(r, 0))
  <2>1. none = <<>>
    BY <1>1, <1>3
  <2> HIDE DEF none
  <2>2. Len(none) = 0
    BY <2>1
  <2>3. WavesTo(r, 0) = [m \in 1 .. Len(none) |-> WaveOf(r, none[m])]
    BY DEF WavesTo, none
  <2> QED
    BY <2>1, <2>2, <2>3
<1> QED
  BY <1>4

(* One record more is one waveform more, if it has a supported buffer.     *)
LEMMA WavesGrow ==
    ASSUME NEW r, NEW n \in Nat
    PROVE  WavesTo(r, n + 1) = IF HasSupported(r.recs[n + 1])
                               THEN Append(WavesTo(r, n), WaveOf(r, n + 1))
                               ELSE WavesTo(r, n)
<1>1. CASE HasSupported(r.recs[n + 1])
  <2> DEFINE S == KeptTo(r, n)
             kept == InOrder(S)
  <2>1. KeptTo(r, n + 1) = S \cup {n + 1}
    BY <1>1 DEF KeptTo
  <2>2. S \in SUBSET Nat /\ IsFiniteSet(S) /\ \A i \in S : i < n + 1
    BY KeptIsFinite
  <2> HIDE DEF S
  <2>3. InOrder(S \cup {n + 1}) = Append(kept, n + 1)
    <3> DEFINE t == n + 1
    <3>1. t \in Nat /\ \A i \in S : i < t
      BY <2>2
    <3> HIDE DEF t
    <3>2. InOrder(S \cup {t}) = Append(kept, t)
      BY <2>2, <3>1, InOrderAppend
    <3> QED
      BY <3>2 DEF t
  <2>4. kept \in Seq(S) /\ Len(kept) \in Nat
    <3>1. Cardinality(S) \in Nat /\ kept \in [1 .. Cardinality(S) -> S]
      BY <2>2, InOrderLists
    <3> QED
      BY <3>1
  <2> HIDE DEF kept
  <2> DEFINE longer == Append(kept, n + 1)
  <2>5. /\ Len(longer) = Len(kept) + 1 /\ longer[Len(kept) + 1] = n + 1
        /\ \A m \in 1 .. Len(kept) : longer[m] = kept[m]
    <3>1. kept \in Seq(S \cup {n + 1}) /\ n + 1 \in S \cup {n + 1}
      BY <2>4, SeqMonotonic
    <3> QED
      BY <3>1
  <2> HIDE DEF longer
  <2>6. WavesTo(r, n + 1) = [m \in 1 .. Len(kept) + 1 |-> WaveOf(r, longer[m])]
    BY <2>1, <2>3, <2>5 DEF WavesTo, longer
  <2> DEFINE ws == [m \in 1 .. Len(kept) |-> WaveOf(r, kept[m])]
  <2>7. WavesTo(r, n) = ws
    BY DEF WavesTo, kept, S
  <2>8. ws \in Seq({WaveOf(r, i) : i \in S} \cup {WaveOf(r, n + 1)}) /\ Len(ws) = Len(kept)
    <3>1. \A m \in 1 .. Len(kept) : kept[m] \in S
      BY <2>4, ElementOfSeq
    <3> QED
      BY <2>4, <3>1
  <2>9. Append(ws, WaveOf(r, n + 1)) = [m \in 1 .. Len(kept) + 1 |-> WaveOf(r, longer[m])]
    <3> DEFINE aw == Append(ws, WaveOf(r, n + 1))
               ow == [m \in 1 .. Len(kept) + 1 |-> WaveOf(r, longer[m])]
    <3>1. aw \in Seq({WaveOf(r, i) : i \in S} \cup {WaveOf(r, n + 1)}) /\ Len(aw) = Len(kept) + 1
      BY <2>8
    <3>2. \A m \in 1 .. Len(kept) : aw[m] = WaveOf(r, kept[m])
      BY <2>4, <2>8
    <3>3. aw[Len(kept) + 1] = WaveOf(r, n + 1)
      BY <2>8
    <3> HIDE DEF aw
    <3>4. \A m \in 1 .. Len(kept) + 1 : aw[m] = WaveOf(r, longer[m])
      BY <2>4, <2>5, <3>2, <3>3
    <3>5. aw = [m \in 1 .. Len(aw) |-> aw[m]]
      BY <3>1
    <3> QED
      BY <3>1, <3>4, <3>5 DEF aw
  <2> QED
    BY <1>1, <2>6, <2>7, <2>9
<1>2. CASE ~HasSupported(r.recs[n + 1])
  <2>1. KeptTo(r, n + 1) = KeptTo(r, n)
    BY <1>2 DEF KeptTo
  <2> QED
    BY <1>2, <2>1 DEF WavesTo
<1> QED
  BY <1>1, <1>2

(* OpenKeysight of a raw file, said of the raw records.                    *)
LEMMA OpenedWhole ==
    ASSUME NEW r \in Raws
    PROVE  OpenKeysight(Described(r))
              = IF Bad(r) THEN Err("implausible record")
                ELSE Ok([fam |-> "Keysight", size |-> r.size,
                         h |-> [timed |-> r.timed, wfs |-> WavesTo(r, Len(r.recs))]])
<1> DEFINE N == Len(r.recs)
           BufsOf(i) == [l \in 1 .. Len(r.recs[i].bufs) |->
                            [kind |-> r.recs[i].bufs[l].kind, bpp |-> r.recs[i].bufs[l].bpp,
                             off |-> PayloadAt(r, i, l), len |-> r.recs[i].bufs[l].size]]
           ws == [i \in 1 .. N |-> [pts |-> r.recs[i].pts, bufs |-> BufsOf(i)]]
           f == [fam |-> "Keysight", size |-> r.size,
                 h |-> [intact |-> Intact(r), timed |-> r.timed, wfs |-> ws]]
<1>1. Described(r) = f
  BY DEF Described, PayloadAt
<1>2. N \in Nat /\ \A i \in 1 .. N : r.recs[i].bufs \in Seq(BufferHeaders)
  <2>1. r.recs \in Seq(RecordHeaders)
    BY RawsAssumption DEF RawFiles
  <2>2. \A i \in 1 .. N : r.recs[i] \in RecordHeaders
    BY <2>1, ElementOfSeq
  <2> QED
    BY <2>1, <2>2, SMTT(30) DEF RecordHeaders
<1>3. Len(ws) = N /\ \A i \in 1 .. N : ws[i] = [pts |-> r.recs[i].pts, bufs |-> BufsOf(i)]
  BY <1>2
<1>4. ASSUME NEW i \in 1 .. N
      PROVE  /\ Len(BufsOf(i)) = Len(r.recs[i].bufs)
             /\ \A l \in 1 .. Len(r.recs[i].bufs) :
                  BufsOf(i)[l] = [kind |-> r.recs[i].bufs[l].kind, bpp |-> r.recs[i].bufs[l].bpp,
                                  off |-> PayloadAt(r, i, l), len |-> r.recs[i].bufs[l].size]
  <2>1. Len(r.recs[i].bufs) \in Nat
    BY <1>2
  <2> QED
    BY <2>1
<1>5. f.h.wfs = ws /\ f.h.intact = Intact(r) /\ f.h.timed = r.timed /\ f.fam = "Keysight" /\ f.size = r.size
  BY Zenon
<1> HIDE DEF N, f, ws, BufsOf
<1>6. ASSUME NEW i \in 1 .. N
      PROVE  /\ Len(ws[i].bufs) = Len(r.recs[i].bufs)
             /\ \A l \in 1 .. Len(r.recs[i].bufs) :
                  /\ Supported(ws[i].bufs[l]) <=> Supported(r.recs[i].bufs[l])
                  /\ ws[i].bufs[l].kind = r.recs[i].bufs[l].kind
  <2>1. ws[i].bufs = BufsOf(i)
    BY <1>3
  <2>2. \A l \in 1 .. Len(r.recs[i].bufs) :
            /\ BufsOf(i)[l].kind = r.recs[i].bufs[l].kind
            /\ BufsOf(i)[l].bpp = r.recs[i].bufs[l].bpp
    <3> SUFFICES ASSUME NEW l \in 1 .. Len(r.recs[i].bufs)
                 PROVE  /\ BufsOf(i)[l].kind = r.recs[i].bufs[l].kind
                        /\ BufsOf(i)[l].bpp = r.recs[i].bufs[l].bpp
      OBVIOUS
    <3>1. BufsOf(i)[l] = [kind |-> r.recs[i].bufs[l].kind, bpp |-> r.recs[i].bufs[l].bpp,
                          off |-> PayloadAt(r, i, l), len |-> r.recs[i].bufs[l].size]
      BY <1>4, Zenon
    <3> QED
      BY <3>1
  <2> QED
    BY <1>4, <2>1, <2>2 DEF Supported
<1>7. \A i \in 1 .. N : HasSupported(ws[i]) <=> HasSupported(r.recs[i])
  BY <1>6 DEF HasSupported
<1>8. ASSUME NEW i \in 1 .. N, HasSupported(r.recs[i])
      PROVE  LET l == Chosen(ws[i].bufs)
             IN  [pts |-> ws[i].pts, off |-> l.off, len |-> l.len, kind |-> l.kind,
                  bpp |-> l.bpp] = WaveOf(r, i)
  <2> DEFINE bufs == r.recs[i].bufs
             mine == ws[i].bufs
  <2>1. OfKind(mine, "float") = OfKind(bufs, "float") /\ OfKind(mine, "logic") = OfKind(bufs, "logic")
    BY <1>6 DEF OfKind
  <2>2. Chosen(mine) = mine[Best(bufs)]
    BY <2>1 DEF Chosen, Best, Wanted
  <2>3. Best(bufs) \in 1 .. Len(bufs)
    <3>1. Wanted(bufs) # {}
      <4>1. PICK l \in 1 .. Len(bufs) : Supported(bufs[l])
        BY <1>8 DEF HasSupported
      <4>2. bufs[l].kind \in {"float", "logic"}
        BY <4>1 DEF Supported
      <4> QED
        BY <4>1, <4>2 DEF Wanted, OfKind
    <3>2. Wanted(bufs) \in SUBSET (1 .. Len(bufs))
      BY DEF Wanted, OfKind
    <3>3. Wanted(bufs) \in SUBSET Nat
      BY <3>2
    <3> DEFINE T == Wanted(bufs)
    <3> HIDE DEF T
    <3>4. T \in SUBSET Nat /\ T # {}
      BY <3>1, <3>3 DEF T
    <3>5. \E l \in T : \A m \in T : l <= m
      BY <3>4, Least
    <3>6. Best(bufs) \in T
      BY <3>5 DEF Best, T
    <3> QED
      BY <3>2, <3>6 DEF T
  <2> DEFINE l == Best(bufs)
  <2> HIDE DEF l
  <2>4. mine[l] = [kind |-> bufs[l].kind, bpp |-> bufs[l].bpp,
                   off |-> PayloadAt(r, i, l), len |-> bufs[l].size]
    BY <1>3, <1>4, <2>3 DEF l
  <2>5. ws[i].pts = r.recs[i].pts
    BY <1>3
  <2> QED
    BY <2>2, <2>4, <2>5 DEF WaveOf, l
<1> DEFINE Broken == \/ ~Intact(r)
                     \/ \E i \in 1 .. Len(ws) :
                          \/ ws[i].pts <= 0
                          \/ ws[i].bufs = <<>>
                          \/ \E l \in 1 .. Len(ws[i].bufs) :
                                ws[i].bufs[l].off + ws[i].bufs[l].len > r.size
<1>9. Broken <=> Bad(r)
  <2>1. \A i \in 1 .. N : ws[i].pts = r.recs[i].pts
    BY <1>3
  <2>2. \A i \in 1 .. N : ws[i].bufs = <<>> <=> r.recs[i].bufs = <<>>
    <3> SUFFICES ASSUME NEW i \in 1 .. N
                 PROVE  ws[i].bufs = <<>> <=> r.recs[i].bufs = <<>>
      OBVIOUS
    <3>1. r.recs[i].bufs \in Seq(BufferHeaders)
      BY <1>2
    <3>2. ws[i].bufs = BufsOf(i)
      BY <1>3
    <3>3. CASE Len(r.recs[i].bufs) = 0
      BY <3>1, <3>2, <3>3 DEF BufsOf
    <3>4. CASE Len(r.recs[i].bufs) # 0
      <4>1. Len(ws[i].bufs) # 0
        BY <1>6, <3>4
      <4> QED
        BY <3>1, <3>4, <4>1
    <3> QED
      BY <3>3, <3>4
  <2>3. \A i \in 1 .. N : \A l \in 1 .. Len(r.recs[i].bufs) :
            ws[i].bufs[l].off + ws[i].bufs[l].len = PayloadEnd(r, i, l)
    <3> SUFFICES ASSUME NEW i \in 1 .. N, NEW l \in 1 .. Len(r.recs[i].bufs)
                 PROVE  ws[i].bufs[l].off + ws[i].bufs[l].len = PayloadEnd(r, i, l)
      OBVIOUS
    <3>1. ws[i].bufs = BufsOf(i)
      BY <1>3
    <3>3. BufsOf(i)[l] = [kind |-> r.recs[i].bufs[l].kind, bpp |-> r.recs[i].bufs[l].bpp,
                          off |-> PayloadAt(r, i, l), len |-> r.recs[i].bufs[l].size]
      BY <1>4, Zenon
    <3>2. BufsOf(i)[l].off = PayloadAt(r, i, l) /\ BufsOf(i)[l].len = r.recs[i].bufs[l].size
      BY <3>3
    <3> QED
      BY <3>1, <3>2 DEF PayloadEnd
  <2>4. \A i \in 1 .. N : Len(ws[i].bufs) = Len(r.recs[i].bufs)
    BY <1>6
  <2>5. Len(ws) = N
    BY <1>3
  <2>6. ASSUME NEW i \in 1 .. N
        PROVE  (\E l \in 1 .. Len(ws[i].bufs) : ws[i].bufs[l].off + ws[i].bufs[l].len > r.size)
               <=> \E l \in 1 .. Len(r.recs[i].bufs) : PayloadEnd(r, i, l) > r.size
    BY <2>3, <2>4
  <2>7. Bad(r) <=> \/ ~Intact(r)
                   \/ \E i \in 1 .. N :
                        \/ r.recs[i].pts <= 0
                        \/ r.recs[i].bufs = <<>>
                        \/ \E l \in 1 .. Len(r.recs[i].bufs) : PayloadEnd(r, i, l) > r.size
    BY DEF Bad, N
  <2> QED
    BY <2>1, <2>2, <2>5, <2>6, <2>7
<1>10. {i \in 1 .. Len(ws) : HasSupported(ws[i])} = KeptTo(r, N)
  BY <1>3, <1>7 DEF KeptTo
<1> DEFINE kept == InOrder(KeptTo(r, N))
<1>11. ASSUME NEW m \in 1 .. Len(kept)
       PROVE  kept[m] \in 1 .. N /\ HasSupported(r.recs[kept[m]])
  <2>1. KeptTo(r, N) \in SUBSET Nat /\ IsFiniteSet(KeptTo(r, N))
    BY <1>2, KeptIsFinite
  <2>2. Cardinality(KeptTo(r, N)) \in Nat /\ kept \in [1 .. Cardinality(KeptTo(r, N)) -> KeptTo(r, N)]
    BY <2>1, InOrderLists
  <2>3. kept[m] \in KeptTo(r, N)
    BY <2>2
  <2> QED
    BY <2>3 DEF KeptTo
<1>12. [m \in 1 .. Len(kept) |-> LET l == Chosen(ws[kept[m]].bufs)
                                 IN  [pts |-> ws[kept[m]].pts, off |-> l.off, len |-> l.len,
                                      kind |-> l.kind, bpp |-> l.bpp]]
         = WavesTo(r, N)
  BY <1>8, <1>11, SMTT(30) DEF WavesTo
<1> HIDE DEF kept, Broken
<1>13. OpenKeysight(f) = IF Broken THEN Err("implausible record")
                         ELSE Ok([fam |-> "Keysight", size |-> r.size,
                                  h |-> [timed |-> r.timed, wfs |-> WavesTo(r, N)]])
  BY <1>5, <1>10, <1>12 DEF OpenKeysight, kept, Broken
<1> QED
  BY <1>1, <1>9, <1>13 DEF N

-----------------------------------------------------------------------------
(* What the walk has found right so far, and what it has picked.           *)
HeadGood(rec) == rec.hsize >= RecordMin /\ rec.nbufs \in 1 .. MaxBuffers /\ rec.pts > 0
BufGood(r, i, l) ==
    /\ r.recs[i].bufs[l].hsize >= BufferMin /\ r.recs[i].bufs[l].size >= 0
    /\ PayloadEnd(r, i, l) <= r.size
GoodTo(r, n) == \A i \in 1 .. n :
    HeadGood(r.recs[i]) /\ \A l \in 1 .. Len(r.recs[i].bufs) : BufGood(r, i, l)

FirstFloat(bufs, m, l) ==
    /\ bufs[l].kind = "float"
    /\ \A o \in 1 .. m : Supported(bufs[o]) /\ bufs[o].kind = "float" => l <= o
FirstLogic(bufs, m, l) ==
    /\ bufs[l].kind # "float"
    /\ \A o \in 1 .. m : Supported(bufs[o]) => bufs[o].kind # "float" /\ l <= o
(* c is what the first m buffers of record i leave in chosen. *)
Picked(r, i, m, c) ==
    LET bufs == r.recs[i].bufs
    IN  \/ c = NoBuffer /\ \A o \in 1 .. m : ~Supported(bufs[o])
        \/ \E l \in 1 .. m :
            /\ Supported(bufs[l])
            /\ c = Window(bufs[l], PayloadAt(r, i, l))
            /\ FirstFloat(bufs, m, l) \/ FirstLogic(bufs, m, l)

WalkInv ==
    /\ pc = "head" => wfs = <<>>
    /\ pc \in {"record", "buffer"} =>
        raw.size >= HeadSize /\ wfs = WavesTo(raw, k - 1) /\ GoodTo(raw, k - 1)
    /\ pc = "record" => cursor = RecAt(raw.recs, k)
    /\ pc = "buffer" =>
        /\ HeadGood(Record) /\ \A l \in 1 .. b - 1 : BufGood(raw, k, l)
        /\ cursor = AfterBuffers(Record, RecAt(raw.recs, k), b - 1)
        /\ Picked(raw, k, b - 1, chosen)
    /\ pc = "done" => result = OpenKeysight(Described(raw))

LEMMA GoodCount ==
    ASSUME NEW rec, HeadGood(rec)
    PROVE  rec.nbufs \in Int /\ rec.nbufs >= 1 /\ rec.nbufs <= MaxBuffers
<1> DEFINE n == rec.nbufs
<1>1. n \in 1 .. MaxBuffers
  BY DEF HeadGood
<1> HIDE DEF n
<1>2. n \in Int /\ n >= 1 /\ n <= MaxBuffers
  BY <1>1 DEF MaxBuffers
<1> QED
  BY <1>2 DEF n

(* The places of one record and of its buffers. *)
LEMMA Places ==
    ASSUME NEW r \in Raws, r.n \in 0 .. MaxWaveforms, NEW i \in 1 .. r.n
    PROVE  /\ Len(r.recs) = r.n /\ r.recs[i] \in RecordHeaders /\ r.size \in Nat
           /\ r.recs[i].hsize \in Int /\ r.recs[i].nbufs \in Int /\ r.recs[i].pts \in Int
           /\ Len(r.recs[i].bufs) \in Nat
           /\ RecAt(r.recs, i) \in Int
           /\ RecAt(r.recs, i + 1)
                = AfterBuffers(r.recs[i], RecAt(r.recs, i), Len(r.recs[i].bufs))
           /\ AfterBuffers(r.recs[i], RecAt(r.recs, i), 0) = RecAt(r.recs, i) + r.recs[i].hsize
<1>1. r.recs \in Seq(RecordHeaders) /\ r.size \in Nat /\ Len(r.recs) = r.n
  BY RawsAssumption DEF RawFiles
<1>2. r.recs[i] \in RecordHeaders
  BY <1>1, ElementOfSeq
<1>3. i \in 1 .. Len(r.recs) /\ i \in 1 .. Len(r.recs) + 1
  BY <1>1
<1>4. /\ RecAt(r.recs, i) \in Int
      /\ RecAt(r.recs, i + 1)
           = AfterBuffers(r.recs[i], RecAt(r.recs, i), Len(r.recs[i].bufs))
  BY <1>1, <1>3, RecordsFollow
<1>5. AfterBuffers(r.recs[i], RecAt(r.recs, i), 0) = RecAt(r.recs, i) + r.recs[i].hsize
  BY <1>2, <1>4, BuffersFollow
<1>6. /\ r.recs[i].hsize \in Int /\ r.recs[i].nbufs \in Int /\ r.recs[i].pts \in Int
      /\ Len(r.recs[i].bufs) \in Nat
  BY <1>2 DEF RecordHeaders
<1> QED
  BY <1>1, <1>2, <1>4, <1>5, <1>6

LEMMA BufferPlaces ==
    ASSUME NEW r \in Raws, r.n \in 0 .. MaxWaveforms, NEW i \in 1 .. r.n,
           NEW l \in 1 .. Len(r.recs[i].bufs)
    PROVE  /\ r.recs[i].bufs[l].hsize \in Int /\ r.recs[i].bufs[l].size \in Int
           /\ AfterBuffers(r.recs[i], RecAt(r.recs, i), l - 1) \in Int
           /\ AfterBuffers(r.recs[i], RecAt(r.recs, i), l) = PayloadEnd(r, i, l)
           /\ PayloadAt(r, i, l) \in Int /\ PayloadEnd(r, i, l) \in Int
           /\ PayloadAt(r, i, l) = AfterBuffers(r.recs[i], RecAt(r.recs, i), l - 1)
                                   + r.recs[i].bufs[l].hsize
           /\ PayloadEnd(r, i, l) = PayloadAt(r, i, l) + r.recs[i].bufs[l].size
<1> DEFINE rec == r.recs[i]
           at == RecAt(r.recs, i)
<1>1. rec \in RecordHeaders /\ at \in Int /\ Len(rec.bufs) \in Nat
  BY Places
<1>2. rec.bufs[l] \in BufferHeaders
  <2>1. rec.bufs \in Seq(BufferHeaders)
    BY <1>1 DEF RecordHeaders
  <2> QED
    BY <2>1, ElementOfSeq
<1>3. rec.bufs[l].hsize \in Int /\ rec.bufs[l].size \in Int
  BY <1>2 DEF BufferHeaders
<1> HIDE DEF at
<1>4. /\ AfterBuffers(rec, at, l - 1) \in Int
      /\ AfterBuffers(rec, at, l) = AfterBuffers(rec, at, l - 1)
                                    + rec.bufs[l].hsize + rec.bufs[l].size
  <2>1. l - 1 \in 0 .. Len(rec.bufs)
    BY <1>1
  <2> QED
    BY <1>1, <2>1, BuffersFollow
<1> QED
  BY <1>3, <1>4, SMTT(30) DEF PayloadEnd, PayloadAt, at

LEMMA BadBuffer ==
    ASSUME NEW r \in Raws, r.n \in 0 .. MaxWaveforms, NEW i \in 1 .. r.n,
           NEW l \in 1 .. Len(r.recs[i].bufs), ~BufGood(r, i, l)
    PROVE  Bad(r)
<1>1. i \in 1 .. Len(r.recs)
  BY Places
<1>2. /\ r.recs[i].bufs[l].hsize \in Int /\ r.recs[i].bufs[l].size \in Int
      /\ PayloadEnd(r, i, l) \in Int /\ r.size \in Nat
  BY BufferPlaces, Places
<1>3. CASE PayloadEnd(r, i, l) > r.size
  BY <1>1, <1>3 DEF Bad
<1>4. CASE ~(r.recs[i].bufs[l].hsize >= BufferMin /\ r.recs[i].bufs[l].size >= 0)
  BY <1>1, <1>4 DEF Bad, Intact
<1> QED
  BY <1>2, <1>3, <1>4 DEF BufGood

LEMMA BadHead ==
    ASSUME NEW r \in Raws, r.n \in 0 .. MaxWaveforms, NEW i \in 1 .. r.n,
           ~HeadGood(r.recs[i])
    PROVE  Bad(r)
<1>1. /\ i \in 1 .. Len(r.recs) /\ r.recs[i].hsize \in Int /\ r.recs[i].nbufs \in Int
      /\ r.recs[i].pts \in Int
  BY Places
<1>2. CASE ~(r.recs[i].hsize >= RecordMin /\ r.recs[i].nbufs <= MaxBuffers)
  BY <1>1, <1>2 DEF Bad, Intact
<1>3. CASE r.recs[i].nbufs <= 0
  <2>1. r.recs[i].bufs = <<>>
    BY <1>1, <1>3, RawsAssumption
  <2> QED
    BY <1>1, <2>1 DEF Bad
<1>4. CASE r.recs[i].pts <= 0
  BY <1>1, <1>4 DEF Bad
<1> DEFINE n == r.recs[i].nbufs
           p == r.recs[i].pts
<1>5. ~(n \in 1 .. MaxBuffers) \/ ~(r.recs[i].hsize >= RecordMin) \/ ~(p > 0)
  BY DEF HeadGood
<1>6. n \in Int /\ p \in Int
  BY <1>1
<1> HIDE DEF n, p
<1>7. n > MaxBuffers \/ n <= 0 \/ ~(r.recs[i].hsize >= RecordMin) \/ p <= 0
  BY <1>5, <1>6 DEF MaxBuffers
<1>8. n > MaxBuffers => ~(n <= MaxBuffers)
  BY <1>6 DEF MaxBuffers
<1> QED
  BY <1>2, <1>3, <1>4, <1>7, <1>8 DEF n, p

(* A record or buffer header that is not in the file any more. *)
LEMMA BeyondEnd ==
    ASSUME NEW r \in Raws, r.n \in 0 .. MaxWaveforms, NEW i \in 1 .. r.n,
           \/ RecAt(r.recs, i) + 4 > r.size
           \/ RecAt(r.recs, i) + r.recs[i].hsize > r.size
    PROVE  Bad(r)
<1>1. CASE ~HeadGood(r.recs[i])
  BY <1>1, BadHead
<1>2. CASE HeadGood(r.recs[i])
  <2>1. Len(r.recs) = r.n /\ r.recs[i].nbufs \in 1 .. MaxBuffers
    BY <1>2, Places DEF HeadGood
  <2>2. Len(r.recs[i].bufs) = r.recs[i].nbufs
    BY <2>1, RawsAssumption
  <2>8. r.recs[i].nbufs \in Int /\ r.recs[i].nbufs >= 1
    BY <1>2, GoodCount
  <2>3. 1 \in 1 .. Len(r.recs[i].bufs)
    BY <2>2, <2>8
  <2> DEFINE buf == r.recs[i].bufs[1]
  <2>4. /\ buf.hsize \in Int /\ buf.size \in Int
        /\ PayloadEnd(r, i, 1) = AfterBuffers(r.recs[i], RecAt(r.recs, i), 1 - 1)
                                 + buf.hsize + buf.size
    BY <2>3, BufferPlaces
  <2>5. /\ AfterBuffers(r.recs[i], RecAt(r.recs, i), 0) = RecAt(r.recs, i) + r.recs[i].hsize
        /\ RecAt(r.recs, i) \in Int /\ r.recs[i].hsize \in Int /\ r.size \in Nat
    BY Places
  <2>6. r.recs[i].hsize >= RecordMin /\ 1 - 1 = 0
    BY <1>2 DEF HeadGood
  <2>7. ~BufGood(r, i, 1)
    <3> SUFFICES ASSUME buf.hsize >= BufferMin, buf.size >= 0
                 PROVE  PayloadEnd(r, i, 1) > r.size
      BY <2>4, <2>5, <2>6 DEF BufGood
    <3> HIDE DEF buf
    <3> QED
      BY <2>4, <2>5, <2>6 DEF BufferMin, RecordMin
  <2> QED
    BY <2>3, <2>7, BadBuffer
<1> QED
  BY <1>1, <1>2

LEMMA BeyondEndInside ==
    ASSUME NEW r \in Raws, r.n \in 0 .. MaxWaveforms, NEW i \in 1 .. r.n,
           NEW l \in 1 .. Len(r.recs[i].bufs),
           \/ AfterBuffers(r.recs[i], RecAt(r.recs, i), l - 1) + 4 > r.size
           \/ PayloadAt(r, i, l) > r.size
    PROVE  ~BufGood(r, i, l)
<1> DEFINE buf == r.recs[i].bufs[l]
<1>1. r.size \in Nat
  BY Places
<1>2. /\ buf.hsize \in Int /\ buf.size \in Int
      /\ AfterBuffers(r.recs[i], RecAt(r.recs, i), l - 1) \in Int
      /\ PayloadAt(r, i, l) = AfterBuffers(r.recs[i], RecAt(r.recs, i), l - 1) + buf.hsize
      /\ PayloadEnd(r, i, l) = PayloadAt(r, i, l) + buf.size
  BY BufferPlaces, SMTT(30)
<1> SUFFICES ASSUME buf.hsize >= BufferMin, buf.size >= 0
             PROVE  PayloadEnd(r, i, l) > r.size
  BY <1>1, <1>2, SMTT(30) DEF BufGood
<1> HIDE DEF buf
<1> QED
  BY <1>1, <1>2 DEF BufferMin

LEMMA AllGood ==
    ASSUME NEW r \in Raws, r.n \in 0 .. MaxWaveforms, r.size >= HeadSize, GoodTo(r, r.n)
    PROVE  ~Bad(r)
<1>1. Len(r.recs) = r.n /\ r.size \in Nat /\ r.recs \in Seq(RecordHeaders)
  BY RawsAssumption DEF RawFiles
<1>2. ASSUME NEW i \in 1 .. r.n
      PROVE  /\ r.recs[i].hsize >= RecordMin /\ r.recs[i].nbufs <= MaxBuffers
             /\ ~(r.recs[i].pts <= 0) /\ r.recs[i].bufs # <<>>
  <2>1. HeadGood(r.recs[i])
    BY DEF GoodTo
  <2>2. r.recs[i].nbufs \in Int /\ r.recs[i].pts \in Int /\ r.recs[i] \in RecordHeaders
    BY Places
  <2>3. Len(r.recs[i].bufs) = r.recs[i].nbufs
    BY <1>1, <2>1, RawsAssumption DEF HeadGood
  <2>4. Len(r.recs[i].bufs) # 0 /\ r.recs[i].nbufs <= MaxBuffers
    <3>1. r.recs[i].nbufs \in Int /\ r.recs[i].nbufs >= 1 /\ r.recs[i].nbufs <= MaxBuffers
      BY <2>1, GoodCount
    <3> QED
      BY <2>3, <3>1
  <2>5. r.recs[i].bufs # <<>>
    <3>1. Len(<<>>) = 0
      BY EmptySeq
    <3> QED
      BY <2>4, <3>1
  <2>6. r.recs[i].hsize >= RecordMin /\ ~(r.recs[i].pts <= 0)
    BY <2>1, <2>2 DEF HeadGood
  <2> QED
    BY <2>4, <2>5, <2>6
<1>3. ASSUME NEW i \in 1 .. r.n, NEW l \in 1 .. Len(r.recs[i].bufs)
      PROVE  /\ r.recs[i].bufs[l].hsize >= BufferMin /\ r.recs[i].bufs[l].size >= 0
             /\ ~(PayloadEnd(r, i, l) > r.size)
  <2>1. BufGood(r, i, l)
    BY DEF GoodTo
  <2>2. PayloadEnd(r, i, l) \in Int
    BY BufferPlaces
  <2> QED
    BY <1>1, <2>1, <2>2 DEF BufGood
<1>4. Intact(r)
  BY <1>1, <1>2, <1>3 DEF Intact
<1> QED
  BY <1>1, <1>2, <1>3, <1>4 DEF Bad

-----------------------------------------------------------------------------
(* A supported buffer is a float or a logic one, and its window is no      *)
(* NoBuffer.                                                               *)
LEMMA SupportedKind ==
    ASSUME NEW buf, Supported(buf), NEW at
    PROVE  /\ buf.kind \in {"float", "logic"}
           /\ Window(buf, at).kind = buf.kind /\ Window(buf, at) # NoBuffer
<1>1. buf.kind \in {"float", "logic"}
  BY DEF Supported
<1>2. Window(buf, at).kind = buf.kind
  BY DEF Window
<1>3. NoBuffer.kind = "none"
  BY DEF NoBuffer
<1> QED
  BY <1>1, <1>2, <1>3

(* The next buffer read. *)
LEMMA PickedGrows ==
    ASSUME NEW r, NEW i, NEW m \in Nat, Picked(r, i, m, chosen)
    PROVE  Picked(r, i, m + 1, IF Upgrades(r.recs[i].bufs[m + 1])
                               THEN Window(r.recs[i].bufs[m + 1], PayloadAt(r, i, m + 1))
                               ELSE chosen)
<1> DEFINE bufs == r.recs[i].bufs
           t == m + 1
           w == Window(bufs[t], PayloadAt(r, i, t))
<1>0. t \in Nat /\ t > m /\ t \in 1 .. t /\ \A o \in 1 .. t : o = t \/ o \in 1 .. m
  OBVIOUS
<1>1. CASE chosen = NoBuffer /\ \A o \in 1 .. m : ~Supported(bufs[o])
  <2>1. CASE Supported(bufs[t])
    <3>1. Upgrades(bufs[t])
      BY <1>1, <2>1 DEF Upgrades
    <3> HIDE DEF t, bufs
    <3>2. FirstFloat(bufs, t, t) \/ FirstLogic(bufs, t, t)
      BY <1>0, <1>1, <2>1 DEF FirstFloat, FirstLogic
    <3>3. Picked(r, i, t, w)
      BY <1>0, <2>1, <3>2 DEF Picked, bufs
    <3> QED
      BY <3>1, <3>3 DEF t, bufs
  <2>2. CASE ~Supported(bufs[t])
    <3>1. ~Upgrades(bufs[t])
      BY <2>2 DEF Upgrades
    <3> HIDE DEF t
    <3>2. Picked(r, i, t, chosen)
      BY <1>0, <1>1, <2>2 DEF Picked
    <3> QED
      BY <3>1, <3>2 DEF t
  <2> QED
    BY <2>1, <2>2
<1>2. ASSUME NEW l \in 1 .. m, Supported(bufs[l]),
             chosen = Window(bufs[l], PayloadAt(r, i, l)),
             FirstFloat(bufs, m, l) \/ FirstLogic(bufs, m, l)
      PROVE  Picked(r, i, t, IF Upgrades(bufs[t]) THEN w ELSE chosen)
  <2>1. chosen # NoBuffer /\ chosen.kind = bufs[l].kind
    BY <1>2, SupportedKind
  <2>2. l \in 1 .. t /\ l < t /\ l \in Nat
    BY <1>2
  <2>3. CASE Upgrades(bufs[t])
    <3>1. Supported(bufs[t]) /\ bufs[l].kind # "float" /\ bufs[t].kind = "float"
      BY <2>1, <2>3 DEF Upgrades
    <3>2. FirstLogic(bufs, m, l)
      BY <1>2, <3>1 DEF FirstFloat
    <3> HIDE DEF t, bufs
    <3>3. FirstFloat(bufs, t, t)
      BY <1>0, <3>1, <3>2 DEF FirstFloat, FirstLogic
    <3>4. Picked(r, i, t, w)
      BY <1>0, <3>1, <3>3 DEF Picked, bufs
    <3> QED
      BY <2>3, <3>4 DEF t, bufs
  <2>4. CASE ~Upgrades(bufs[t])
    <3>1. ~Supported(bufs[t]) \/ bufs[l].kind = "float" \/ bufs[t].kind # "float"
      BY <2>1, <2>4 DEF Upgrades
    <3> HIDE DEF t, bufs
    <3>2. FirstFloat(bufs, t, l) \/ FirstLogic(bufs, t, l)
      <4>1. CASE FirstFloat(bufs, m, l)
        <5>1. FirstFloat(bufs, t, l)
          BY <1>0, <2>2, <4>1 DEF FirstFloat
        <5> QED
          BY <5>1
      <4>2. CASE FirstLogic(bufs, m, l)
        <5>1. FirstLogic(bufs, t, l)
          BY <1>0, <2>2, <3>1, <4>2 DEF FirstLogic
        <5> QED
          BY <5>1
      <4> QED
        BY <1>2, <4>1, <4>2
    <3>3. Picked(r, i, t, chosen)
      BY <1>2, <2>2, <3>2 DEF Picked, bufs
    <3> QED
      BY <2>4, <3>3 DEF t, bufs
  <2> QED
    BY <2>3, <2>4
<1> QED
  BY <1>1, <1>2 DEF Picked

(* All buffers read. *)
LEMMA PickedEnd ==
    ASSUME NEW r, NEW i, Len(r.recs[i].bufs) \in Nat, NEW c,
           Picked(r, i, Len(r.recs[i].bufs), c)
    PROVE  /\ c = NoBuffer <=> ~HasSupported(r.recs[i])
           /\ c # NoBuffer => [pts |-> r.recs[i].pts, off |-> c.off, len |-> c.len,
                               kind |-> c.kind, bpp |-> c.bpp] = WaveOf(r, i)
<1> DEFINE bufs == r.recs[i].bufs
           N == Len(bufs)
<1>1. CASE c = NoBuffer /\ \A o \in 1 .. N : ~Supported(bufs[o])
  BY <1>1 DEF HasSupported
<1>2. ASSUME NEW l \in 1 .. N, Supported(bufs[l]),
             c = Window(bufs[l], PayloadAt(r, i, l)),
             FirstFloat(bufs, N, l) \/ FirstLogic(bufs, N, l)
      PROVE  /\ c # NoBuffer /\ HasSupported(r.recs[i])
             /\ [pts |-> r.recs[i].pts, off |-> c.off, len |-> c.len,
                 kind |-> c.kind, bpp |-> c.bpp] = WaveOf(r, i)
  <2>1. c # NoBuffer /\ bufs[l].kind \in {"float", "logic"}
    BY <1>2, SupportedKind
  <2>2. HasSupported(r.recs[i])
    BY <1>2 DEF HasSupported
  <2>3. l \in Wanted(bufs) /\ Wanted(bufs) \in SUBSET (1 .. N)
        /\ \A o \in Wanted(bufs) : l <= o
    <3>1. CASE FirstFloat(bufs, N, l)
      <4>1. l \in OfKind(bufs, "float")
        BY <1>2, <3>1 DEF FirstFloat, OfKind
      <4>2. Wanted(bufs) = OfKind(bufs, "float")
        BY <4>1 DEF Wanted
      <4> QED
        BY <3>1, <4>1, <4>2 DEF FirstFloat, OfKind
    <3>2. CASE FirstLogic(bufs, N, l)
      <4>1. OfKind(bufs, "float") = {}
        BY <3>2, SMTT(30) DEF FirstLogic, OfKind
      <4>2. Wanted(bufs) = OfKind(bufs, "logic")
        BY <4>1 DEF Wanted
      <4>3. l \in OfKind(bufs, "logic")
        BY <1>2, <2>1, <3>2 DEF FirstLogic, OfKind
      <4> QED
        BY <3>2, <4>2, <4>3 DEF FirstLogic, OfKind
    <3> QED
      BY <1>2, <3>1, <3>2
  <2>4. Best(bufs) = l
    <3> DEFINE T == Wanted(bufs)
               e == Best(bufs)
    <3>1. e = CHOOSE o \in T : \A m \in T : o <= m
      BY DEF Best
    <3> HIDE DEF T, e
    <3>2. l \in T /\ T \in SUBSET (1 .. N) /\ \A o \in T : l <= o
      BY <2>3 DEF T
    <3>3. e \in T /\ \A m \in T : e <= m
      BY <3>1, <3>2
    <3>4. e <= l /\ l <= e /\ e \in 1 .. N
      BY <3>2, <3>3
    <3>5. e = l
      BY <3>4
    <3> QED
      BY <3>5 DEF e
  <2>5. /\ c.off = PayloadAt(r, i, l) /\ c.len = bufs[l].size
        /\ c.kind = bufs[l].kind /\ c.bpp = bufs[l].bpp
    BY <1>2 DEF Window
  <2> QED
    BY <2>1, <2>2, <2>4, <2>5 DEF WaveOf
<1> QED
  BY <1>1, <1>2 DEF Picked

-----------------------------------------------------------------------------
(* A failure is one of the file as a whole. *)
LEMMA FailAnswers ==
    ASSUME IInv, pc # "done", Bad(raw), Fail
    PROVE  WalkInv'
<1>1. raw \in Raws /\ raw' = raw /\ pc' = "done" /\ result' = Err("implausible record")
  BY DEF IInv, CounterInv, Fail
<1>2. OpenKeysight(Described(raw)) = Err("implausible record")
  BY <1>1, OpenedWhole
<1> QED
  BY <1>1, <1>2 DEF WalkInv

LEMMA WalkInit == Init => WalkInv
  BY DEF Init, Begin, WalkInv

LEMMA WalkHead == IInv /\ WalkInv /\ ReadHead => WalkInv'
<1> SUFFICES ASSUME IInv, WalkInv, ReadHead PROVE WalkInv'
  OBVIOUS
<1>1. pc = "head" /\ raw \in Raws /\ raw.size \in Nat /\ raw.recs \in Seq(RecordHeaders)
      /\ k = 1 /\ wfs = <<>>
  BY RawsAssumption DEF ReadHead, IInv, CounterInv, WalkInv, RawFiles
<1>2. CASE raw.size < HeadSize \/ raw.n \notin 0 .. MaxWaveforms
  <2>1. Bad(raw)
    BY <1>1, <1>2 DEF Bad, Intact, HeadSize
  <2>2. Fail
    BY <1>2 DEF ReadHead
  <2> QED
    BY <1>1, <2>1, <2>2, FailAnswers
<1>3. CASE ~(raw.size < HeadSize \/ raw.n \notin 0 .. MaxWaveforms)
  <2>1. cursor' = HeadSize /\ pc' = "record" /\ UNCHANGED <<raw, k, b, chosen, wfs, result>>
    BY <1>3 DEF ReadHead
  <2>2. raw.size >= HeadSize
    BY <1>1, <1>3 DEF HeadSize
  <2>3. RecAt(raw.recs, 1) = HeadSize
    BY <1>1, RecordsFollow
  <2>4. WavesTo(raw, 0) = <<>> /\ GoodTo(raw, 0)
    BY NoWavesAtFirst DEF GoodTo
  <2>5. k - 1 = 0
    BY <1>1
  <2> QED
    BY <1>1, <2>1, <2>2, <2>3, <2>4, <2>5 DEF WalkInv
<1> QED
  BY <1>2, <1>3

LEMMA WalkRecord == IInv /\ WalkInv /\ ReadRecord => WalkInv'
<1> SUFFICES ASSUME IInv, WalkInv, ReadRecord PROVE WalkInv'
  OBVIOUS
<1>1. /\ pc = "record" /\ raw \in Raws /\ raw.n \in 0 .. MaxWaveforms
      /\ k \in Nat \ {0} /\ k <= raw.n /\ raw.size \in Nat
      /\ cursor = RecAt(raw.recs, k)
  BY RawsAssumption DEF ReadRecord, IInv, CounterInv, WalkInv, RawFiles
<1>2. k \in 1 .. raw.n
  BY <1>1 DEF MaxWaveforms
<1>3. CASE ~Readable \/ ~PlausibleRecord(Record)
  <2>1. Fail
    BY <1>3 DEF ReadRecord
  <2>2. /\ RecAt(raw.recs, k) \in Int /\ Record.hsize \in Int
    BY <1>1, <1>2, Places DEF Record
  <2>3. CASE RecAt(raw.recs, k) + 4 > raw.size \/ RecAt(raw.recs, k) + Record.hsize > raw.size
    <3>1. Bad(raw)
      BY <1>1, <1>2, <2>3, BeyondEnd DEF Record
    <3> QED
      BY <1>1, <2>1, <3>1, FailAnswers
  <2>4. CASE ~HeadGood(Record)
    <3>1. Bad(raw)
      BY <1>1, <1>2, <2>4, BadHead DEF Record
    <3> QED
      BY <1>1, <2>1, <3>1, FailAnswers
  <2>5. \/ RecAt(raw.recs, k) + 4 > raw.size \/ RecAt(raw.recs, k) + Record.hsize > raw.size
        \/ ~HeadGood(Record)
    BY <1>1, <1>3, <2>2 DEF Readable, PlausibleRecord, HeadGood
  <2> QED
    BY <2>3, <2>4, <2>5
<1>4. CASE Readable /\ PlausibleRecord(Record)
  <2>1. /\ cursor' = cursor + Record.hsize /\ b' = 1 /\ chosen' = NoBuffer
        /\ pc' = "buffer" /\ UNCHANGED <<raw, k, wfs, result>>
    BY <1>4 DEF ReadRecord
  <2>2. HeadGood(Record)
    BY <1>4 DEF PlausibleRecord, HeadGood
  <2>3. cursor' = AfterBuffers(Record, RecAt(raw.recs, k), 0)
    BY <1>1, <1>2, <2>1, Places DEF Record
  <2>4. Picked(raw, k, 0, NoBuffer)
    BY DEF Picked
  <2>5. Record' = Record /\ b' - 1 = 0
    BY <2>1 DEF Record
  <2> QED
    BY <1>1, <2>1, <2>2, <2>3, <2>4, <2>5 DEF WalkInv
<1> QED
  BY <1>3, <1>4

LEMMA WalkBuffer == IInv /\ WalkInv /\ ReadBuffer => WalkInv'
<1> SUFFICES ASSUME IInv, WalkInv, ReadBuffer PROVE WalkInv'
  OBVIOUS
<1> DEFINE buf == Record.bufs[b]
           at  == cursor + buf.hsize
           wrong == ~Readable \/ buf.hsize < BufferMin \/ at > raw.size \/ ~Fits(at, buf.size)
<1>1. /\ pc = "buffer" /\ raw \in Raws /\ raw.n \in 0 .. MaxWaveforms /\ raw.size \in Nat
      /\ k \in 1 .. raw.n /\ b \in 1 .. Record.nbufs /\ Record.nbufs \in 1 .. MaxBuffers
      /\ cursor \in Nat
      /\ cursor = AfterBuffers(Record, RecAt(raw.recs, k), b - 1)
  BY RawsAssumption DEF ReadBuffer, IInv, CounterInv, WalkInv, RawFiles, MaxWaveforms, MaxBuffers
<1>2. Len(Record.bufs) = Record.nbufs
  BY <1>1, Places, RawsAssumption DEF Record
<1>3. b \in 1 .. Len(Record.bufs) /\ b \in Nat \ {0} /\ b - 1 \in Nat /\ (b - 1) + 1 = b
  BY <1>1, <1>2
<1>4. /\ buf.hsize \in Int /\ buf.size \in Int
      /\ at = PayloadAt(raw, k, b) /\ at + buf.size = PayloadEnd(raw, k, b)
      /\ AfterBuffers(Record, RecAt(raw.recs, k), b) = PayloadEnd(raw, k, b)
  BY <1>1, <1>3, BufferPlaces DEF Record
<1>5. buf.size \in raw.size - USize + 1 .. USize - 1
  BY <1>1, BufferShape DEF Record
<1>6. CASE wrong
  <2>1. Fail
    BY <1>6 DEF ReadBuffer
  <2>2. ~BufGood(raw, k, b)
    <3>1. CASE cursor + 4 > raw.size \/ at > raw.size
      <4>1. \/ AfterBuffers(raw.recs[k], RecAt(raw.recs, k), b - 1) + 4 > raw.size
            \/ PayloadAt(raw, k, b) > raw.size
        BY <1>1, <1>4, <3>1 DEF Record
      <4> QED
        BY <1>1, <1>3, <4>1, BeyondEndInside DEF Record
    <3>2. CASE buf.hsize < BufferMin
      BY <1>4, <3>2 DEF BufGood, Record, BufferMin
    <3>3. CASE ~Fits(at, buf.size) /\ buf.size >= 0
      <4>1. buf.size % USize = buf.size
        <5> DEFINE n == buf.size
        <5>1. n \in Int /\ n >= 0 /\ n <= USize - 1 /\ USize \in Nat
          BY <1>4, <1>5, <3>3, <1>1, WidthAssumption
        <5> HIDE DEF n
        <5>2. n % USize = n
          BY <5>1
        <5> QED
          BY <5>2 DEF n
      <4>2. ~(at + buf.size <= raw.size)
        BY <3>3, <4>1 DEF Fits
      <4> QED
        BY <1>4, <4>2 DEF BufGood
    <3>4. CASE ~(buf.size >= 0)
      BY <3>4 DEF BufGood, Record
    <3>5. ~Readable => cursor + 4 > raw.size
      BY <1>1 DEF Readable
    <3> HIDE DEF buf, at
    <3> QED
      BY <1>6, <3>1, <3>2, <3>3, <3>4, <3>5
  <2>3. Bad(raw)
    BY <1>1, <1>3, <2>2, BadBuffer DEF Record
  <2> QED
    BY <1>1, <2>1, <2>3, FailAnswers
<1>7. CASE ~wrong
  <2>1. /\ chosen' = IF Upgrades(buf) THEN Window(buf, at) ELSE chosen
        /\ cursor' = at + buf.size /\ b' = b + 1
        /\ UNCHANGED <<raw, pc, k, wfs, result>>
    BY <1>7 DEF ReadBuffer
  <2>2. buf.size >= 0 /\ at + buf.size <= raw.size
    <3>1. at \in Nat
      BY <1>1, <1>4, <1>7 DEF BufferMin
    <3>2. at + (buf.size % USize) <= raw.size
      BY <1>7 DEF Fits
    <3> HIDE DEF buf, at
    <3> QED
      BY <1>1, <1>5, <3>1, <3>2, FittingSize
  <2>3. BufGood(raw, k, b)
    BY <1>4, <1>7, <2>2 DEF BufGood, Record, BufferMin
  <2>4. \A l \in 1 .. b : BufGood(raw, k, l)
    <3>1. \A l \in 1 .. b - 1 : BufGood(raw, k, l)
      BY <1>1 DEF WalkInv
    <3>2. \A l \in 1 .. b : l = b \/ l \in 1 .. b - 1
      BY <1>3
    <3> QED
      BY <2>3, <3>1, <3>2
  <2>5. Picked(raw, k, b, chosen')
    <3>1. Picked(raw, k, b - 1, chosen)
      BY <1>1 DEF WalkInv
    <3>2. Picked(raw, k, (b - 1) + 1,
                 IF Upgrades(raw.recs[k].bufs[(b - 1) + 1])
                 THEN Window(raw.recs[k].bufs[(b - 1) + 1], PayloadAt(raw, k, (b - 1) + 1))
                 ELSE chosen)
      <4> DEFINE m == b - 1
      <4>1. m \in Nat /\ Picked(raw, k, m, chosen)
        BY <1>3, <3>1
      <4> HIDE DEF m
      <4>2. Picked(raw, k, m + 1,
                 IF Upgrades(raw.recs[k].bufs[m + 1])
                 THEN Window(raw.recs[k].bufs[m + 1], PayloadAt(raw, k, m + 1))
                 ELSE chosen)
        BY <4>1, PickedGrows
      <4> QED
        BY <4>2 DEF m
    <3>3. Picked(raw, k, b, IF Upgrades(raw.recs[k].bufs[b])
                            THEN Window(raw.recs[k].bufs[b], PayloadAt(raw, k, b))
                            ELSE chosen)
      BY <1>3, <3>2
    <3>4. chosen' = IF Upgrades(raw.recs[k].bufs[b])
                    THEN Window(raw.recs[k].bufs[b], PayloadAt(raw, k, b)) ELSE chosen
      BY <1>4, <2>1 DEF Record
    <3> QED
      BY <3>3, <3>4
  <2>6. cursor' = AfterBuffers(Record, RecAt(raw.recs, k), b)
    BY <1>4, <2>1
  <2>7. Record' = Record /\ b' - 1 = b
    BY <1>3, <2>1 DEF Record
  <2> HIDE DEF buf, at, wrong
  <2> QED
    BY <1>1, <2>1, <2>4, <2>5, <2>6, <2>7 DEF WalkInv
<1> QED
  BY <1>6, <1>7

LEMMA WalkEndRecord == IInv /\ WalkInv /\ EndRecord => WalkInv'
<1> SUFFICES ASSUME IInv, WalkInv, EndRecord PROVE WalkInv'
  OBVIOUS
<1>1. /\ pc = "buffer" /\ raw \in Raws /\ raw.n \in 0 .. MaxWaveforms
      /\ k \in 1 .. raw.n /\ b \in Nat \ {0} /\ ~(b <= Record.nbufs)
      /\ b <= Record.nbufs + 1 /\ Record.nbufs \in 1 .. MaxBuffers
      /\ pc' = "record" /\ k' = k + 1 /\ UNCHANGED <<raw, cursor, b, chosen, result>>
  BY SMTT(30) DEF EndRecord, IInv, CounterInv, MaxWaveforms, MaxBuffers
<1>2. /\ raw.size >= HeadSize /\ wfs = WavesTo(raw, k - 1) /\ GoodTo(raw, k - 1)
      /\ HeadGood(Record) /\ \A l \in 1 .. b - 1 : BufGood(raw, k, l)
      /\ cursor = AfterBuffers(Record, RecAt(raw.recs, k), b - 1)
      /\ Picked(raw, k, b - 1, chosen)
  BY <1>1 DEF WalkInv
<1>3. b - 1 = Len(Record.bufs) /\ Len(Record.bufs) \in Nat
  <2>1. Len(Record.bufs) = Record.nbufs
    BY <1>1, Places, RawsAssumption DEF Record
  <2>2. Record.nbufs \in Int
    BY <1>2, GoodCount
  <2>3. Len(Record.bufs) \in Nat
    BY <1>1, Places DEF Record
  <2> QED
    BY <1>1, <2>1, <2>2, <2>3
<1>4. k - 1 \in Nat /\ (k - 1) + 1 = k /\ k' - 1 = k
  BY <1>1
<1>5. GoodTo(raw, k)
  <2>1. \A i \in 1 .. k : i = k \/ i \in 1 .. k - 1
    BY <1>1
  <2> QED
    BY <1>2, <1>3, <2>1 DEF GoodTo, Record
<1>6. cursor = RecAt(raw.recs, k + 1)
  BY <1>1, <1>2, <1>3, Places DEF Record
<1>7. wfs' = WavesTo(raw, k)
  <2> DEFINE w == [pts |-> Record.pts, off |-> chosen.off, len |-> chosen.len,
                   kind |-> chosen.kind, bpp |-> chosen.bpp]
  <2>1. wfs' = IF chosen = NoBuffer THEN wfs ELSE Append(wfs, w)
    BY DEF EndRecord
  <2>2. WavesTo(raw, k) = IF HasSupported(raw.recs[k])
                          THEN Append(WavesTo(raw, k - 1), WaveOf(raw, k))
                          ELSE WavesTo(raw, k - 1)
    <3> DEFINE m == k - 1
    <3>1. m \in Nat
      BY <1>4
    <3> HIDE DEF m
    <3>2. WavesTo(raw, m + 1) = IF HasSupported(raw.recs[m + 1])
                                THEN Append(WavesTo(raw, m), WaveOf(raw, m + 1))
                                ELSE WavesTo(raw, m)
      BY <3>1, WavesGrow
    <3>3. m + 1 = k
      BY <1>4 DEF m
    <3> QED
      BY <3>2, <3>3 DEF m
  <2>3. Picked(raw, k, Len(raw.recs[k].bufs), chosen) /\ Len(raw.recs[k].bufs) \in Nat
    BY <1>2, <1>3 DEF Record
  <2>4. /\ chosen = NoBuffer <=> ~HasSupported(raw.recs[k])
        /\ chosen # NoBuffer =>
            [pts |-> raw.recs[k].pts, off |-> chosen.off, len |-> chosen.len,
             kind |-> chosen.kind, bpp |-> chosen.bpp] = WaveOf(raw, k)
    BY <2>3, PickedEnd
  <2>5. chosen # NoBuffer => w = WaveOf(raw, k)
    BY <2>4 DEF Record
  <2> HIDE DEF w
  <2> QED
    BY <1>2, <2>1, <2>2, <2>4, <2>5
<1> QED
  BY <1>1, <1>2, <1>4, <1>5, <1>6, <1>7 DEF WalkInv

LEMMA WalkFinish == IInv /\ WalkInv /\ Finish => WalkInv'
<1> SUFFICES ASSUME IInv, WalkInv, Finish PROVE WalkInv'
  OBVIOUS
<1>1. /\ pc = "record" /\ raw \in Raws /\ raw.n \in 0 .. MaxWaveforms
      /\ k \in Nat \ {0} /\ k <= raw.n + 1 /\ ~(k <= raw.n)
      /\ raw.size >= HeadSize /\ wfs = WavesTo(raw, k - 1) /\ GoodTo(raw, k - 1)
  BY DEF Finish, IInv, CounterInv, WalkInv
<1>2. k - 1 = raw.n
  BY <1>1 DEF MaxWaveforms
<1>3. Len(raw.recs) = raw.n
  BY <1>1, RawsAssumption
<1>4. ~Bad(raw)
  BY <1>1, <1>2, AllGood
<1>5. OpenKeysight(Described(raw))
         = Ok([fam |-> "Keysight", size |-> raw.size,
               h |-> [timed |-> raw.timed, wfs |-> WavesTo(raw, Len(raw.recs))]])
  BY <1>1, <1>4, OpenedWhole
<1>6. result' = OpenKeysight(Described(raw)) /\ pc' = "done" /\ raw' = raw
  BY <1>1, <1>2, <1>3, <1>5 DEF Finish
<1> QED
  BY <1>6 DEF WalkInv

LEMMA WalkStutter == WalkInv /\ UNCHANGED vars => WalkInv'
  BY DEF WalkInv, vars, Record

LEMMA WalkStep == IInv /\ WalkInv /\ [Next]_vars => WalkInv'
  BY WalkHead, WalkRecord, WalkBuffer, WalkEndRecord, WalkFinish, WalkStutter DEF Next

(* What keysight::parse answers.                                           *)
AnswersWhole == pc = "done" => result = OpenKeysight(Described(raw))

(* For any files, the walk of one cursor over headers that state their own *)
(* sizes ends with the answer that the file calls for as a whole: an error *)
(* if and only if a count, a size or a payload of any record is off, and   *)
(* else for every record with a supported buffer, in order, the window of  *)
(* its first float buffer, or without one its first logic buffer           *)
(* (keysight.rs:129-275).                                                  *)
THEOREM WalkAnswersWhole == Spec => []AnswersWhole
<1>1. WalkInv => AnswersWhole
  BY DEF WalkInv, AnswersWhole
<1>2. Init => IInv /\ WalkInv
  BY InitInv, WalkInit
<1>3. IInv /\ WalkInv /\ [Next]_vars => IInv' /\ WalkInv'
  BY StepInv, WalkStep
<1> QED
  BY <1>1, <1>2, <1>3, PTL DEF Spec

-----------------------------------------------------------------------------
(* The handle of a walk: of the windows it keeps, and of their records,    *)
(* what the decodes rely on.                                               *)
Kept(w) == w.pts \in 1 .. USize - 1 /\ Supported(w)

KeptInv ==
    /\ \A i \in 1 .. Len(wfs) : Kept(wfs[i])
    /\ chosen # NoBuffer => Supported(chosen)
    /\ pc = "buffer" => Record.pts \in 1 .. USize - 1
    /\ result.tag = "ok" => result = Ok([fam |-> "Keysight", size |-> raw.size,
                                         h |-> [timed |-> raw.timed, wfs |-> wfs]])

LEMMA KeptInit == Init => KeptInv
  BY DEF Init, Begin, KeptInv, NoResult

LEMMA KeptFail == KeptInv /\ Fail => KeptInv'
  <1> SUFFICES ASSUME KeptInv, Fail PROVE KeptInv'
    OBVIOUS
  <1>1. pc' = "done" /\ result'.tag = "err" /\ UNCHANGED <<chosen, wfs>>
    BY DEF Fail, Err
  <1> QED
    BY <1>1 DEF KeptInv

LEMMA KeptRecord == IInv /\ KeptInv /\ ReadRecord => KeptInv'
  <1> SUFFICES ASSUME IInv, KeptInv, ReadRecord PROVE KeptInv'
    OBVIOUS
  <1>1. CASE ~Readable \/ ~PlausibleRecord(Record)
    BY <1>1, KeptFail DEF ReadRecord
  <1>2. CASE Readable /\ PlausibleRecord(Record)
    <2>1. /\ pc = "record" /\ k \in 1 .. raw.n /\ raw \in Raws /\ raw.n \in 0 .. MaxWaveforms
          /\ result = NoResult
      BY DEF ReadRecord, IInv, CounterInv, MaxWaveforms
    <2>2. Record.pts \in Int /\ Len(raw.recs) = raw.n
      BY <2>1, RecordShape, RawsAssumption DEF Record, RecordHeaders
    <2>3. Record.pts > 0
      BY <1>2 DEF PlausibleRecord
    <2>4. Record.pts < USize
      BY <2>1, <2>2, RawsAssumption DEF Record
    <2>5. Record.pts \in 1 .. USize - 1
      BY <2>2, <2>3, <2>4, WidthAssumption
    <2>6. chosen' = NoBuffer /\ UNCHANGED <<raw, k, wfs, result>>
      BY <1>2 DEF ReadRecord
    <2>7. Record' = Record
      BY <2>6 DEF Record
    <2> QED
      BY <2>1, <2>5, <2>6, <2>7 DEF KeptInv, NoResult
  <1> QED
    BY <1>1, <1>2

LEMMA KeptBuffer == IInv /\ KeptInv /\ ReadBuffer => KeptInv'
  <1> SUFFICES ASSUME IInv, KeptInv, ReadBuffer PROVE KeptInv'
    OBVIOUS
  <1> DEFINE buf == Record.bufs[b]
             at  == cursor + buf.hsize
  <1>1. CASE Fail
    BY <1>1, KeptFail
  <1>2. CASE ~Fail
    <2>1. /\ chosen' = IF Upgrades(buf) THEN Window(buf, at) ELSE chosen
          /\ UNCHANGED <<raw, pc, k, wfs, result>>
      BY <1>2 DEF ReadBuffer
    <2>2. pc = "buffer" /\ result = NoResult
      BY DEF ReadBuffer, IInv, CounterInv
    <2>3. Record' = Record
      BY <2>1 DEF Record
    <2> HIDE DEF buf, at
    <2>4. Upgrades(buf) => Supported(Window(buf, at))
      BY DEF Upgrades, Supported, Window
    <2>5. chosen' # NoBuffer => Supported(chosen')
      BY <2>1, <2>4 DEF KeptInv
    <2> QED
      BY <2>1, <2>2, <2>3, <2>5 DEF KeptInv, NoResult
  <1> QED
    BY <1>1, <1>2

LEMMA KeptEndRecord == IInv /\ KeptInv /\ EndRecord => KeptInv'
  <1> SUFFICES ASSUME IInv, KeptInv, EndRecord PROVE KeptInv'
    OBVIOUS
  <1>1. /\ pc = "buffer" /\ result = NoResult /\ wfs \in Seq(Waves) /\ pc' = "record"
        /\ UNCHANGED <<raw, chosen, result>>
    BY DEF EndRecord, IInv, CounterInv, WindowInv
  <1>2. \A i \in 1 .. Len(wfs') : Kept(wfs'[i])
    <2>1. CASE chosen = NoBuffer
      BY <2>1 DEF EndRecord, KeptInv
    <2>2. CASE chosen # NoBuffer
      <3> DEFINE w == [pts |-> Record.pts, off |-> chosen.off, len |-> chosen.len,
                       kind |-> chosen.kind, bpp |-> chosen.bpp]
      <3>1. wfs' = Append(wfs, w)
        BY <2>2 DEF EndRecord
      <3>2. Kept(w)
        BY <1>1, <2>2 DEF KeptInv, Kept, Supported
      <3>3. Len(wfs') = Len(wfs) + 1 /\ wfs'[Len(wfs) + 1] = w
            /\ \A i \in 1 .. Len(wfs) : wfs'[i] = wfs[i]
        BY <1>1, <3>1, AppendProperties
      <3> HIDE DEF w
      <3>4. Len(wfs) \in Nat /\ \A i \in 1 .. Len(wfs) : Kept(wfs[i])
        BY <1>1 DEF KeptInv
      <3> HIDE DEF Kept
      <3>5. \A i \in 1 .. Len(wfs) + 1 : i \in 1 .. Len(wfs) \/ i = Len(wfs) + 1
        BY <3>4
      <3> QED
        BY <3>2, <3>3, <3>4, <3>5
    <2> QED
      BY <2>1, <2>2
  <1> QED
    BY <1>1, <1>2 DEF KeptInv, NoResult

LEMMA KeptStep == IInv /\ KeptInv /\ [Next]_vars => KeptInv'
  <1> SUFFICES ASSUME IInv, KeptInv, [Next]_vars PROVE KeptInv'
    OBVIOUS
  <1>1. CASE ReadHead
    BY <1>1, KeptFail DEF ReadHead, KeptInv, IInv, CounterInv, NoResult
  <1>2. CASE Finish
    BY <1>2 DEF Finish, KeptInv
  <1>3. CASE UNCHANGED vars
    BY <1>3 DEF vars, KeptInv, Record
  <1> QED
    BY <1>1, <1>2, <1>3, KeptRecord, KeptBuffer, KeptEndRecord DEF Next
=============================================================================
