-------------------------- MODULE ExtractionProofs --------------------------
(***************************************************************************)
(* Proofs about Extraction, for any number of threads, workers and slots,  *)
(* any handles and requests: its type invariant, that the pool works only  *)
(* for calls that are running on a mapped file, and that every reply is    *)
(* the one a sequential call returns.                                      *)
(*                                                                         *)
(* What a parallel loop computes is described without saying how: index i  *)
(* of loop k of a request either panics or is worth Value. The inductive   *)
(* invariant says that what is stored is worth that, that a panic mark has *)
(* a cause, and that an index not stored yet is still somebody's to do.    *)
(*                                                                         *)
(* Then of the pool: an index is in one place, a worker's stack waits for  *)
(* its top, nothing stored is lost, and some worker can always go on. Last *)
(* of both and the handle: the replies to concurrent calls fit together.   *)
(***************************************************************************)
EXTENDS Extraction, FiniteSetTheorems, TLAPS

(* Loop 0 of a request runs over its slots, loop k over the samples of     *)
(* slot k.                                                                 *)
LoopLen(w, req, k) ==
    IF k = 0 THEN Len(Slots(w, req)) ELSE SlotPlan(w, req, k).plan.n

Good(w, req, k, i) ==
    IF k = 0 THEN Inline(SlotPlan(w, req, i + 1)).tag # "panic"
    ELSE InBounds(SlotPlan(w, req, k).plan, i)

Value(w, req, k, i) ==
    IF k = 0 THEN AsSlot(Inline(SlotPlan(w, req, i + 1)))
    ELSE ReadSample(SlotPlan(w, req, k).plan, i)

LoopExists(w, req, k) ==
    IF k = 0 THEN Fans(w, req)
    ELSE /\ k <= Len(Slots(w, req))
         /\ SlotPlan(w, req, k).tag = "plan"
         /\ Parallel(SlotPlan(w, req, k).plan)

(* An open frame fr of loop k. *)
FrameShape(fr) ==
    /\ fr = [open |-> TRUE, n |-> fr.n, left |-> fr.left, bad |-> fr.bad, out |-> fr.out]
    /\ fr.n \in Nat /\ fr.bad \in BOOLEAN
    /\ fr.out = [i \in 0 .. fr.n - 1 |-> fr.out[i]]
    /\ \A r \in fr.left : r.lo \in Nat /\ r.hi \in Nat /\ r.lo <= r.hi /\ r.hi <= fr.n

FrameOK(fr, w, req, k) ==
    /\ FrameShape(fr)
    /\ LoopExists(w, req, k) /\ fr.n = LoopLen(w, req, k)
    /\ \A i \in 0 .. fr.n - 1 : fr.out[i] # Unset =>
            Good(w, req, k, i) /\ fr.out[i] = Value(w, req, k, i)
    /\ fr.bad => \E i \in 0 .. fr.n - 1 : ~Good(w, req, k, i)

LeafFields == {"w", "d", "f", "pos", "hi"}
LeafShape(l) ==
    /\ l = [x \in LeafFields |-> l[x]]
    /\ l.w \in Workers /\ l.f \in Frames
    /\ l.pos \in Nat /\ l.hi \in Nat /\ l.pos <= l.hi

CallShape(c) ==
    \/ c = Idle
    \/ c.st = "running" /\ c.req \in Requests /\ c = Running(c.req)
    \/ c.st = "done" /\ c.req \in Requests /\ c = Done(c.req, c.reply)

-----------------------------------------------------------------------------
(* The inductive invariant. *)

CallsInv ==
    /\ wfm \in Handles /\ mapped \in BOOLEAN
    /\ call = [t \in Threads |-> call[t]]
    /\ \A t \in Threads : CallShape(call[t])
    /\ \A t \in Threads : call[t].st = "running" => mapped

FramesInv ==
    /\ frame = [f \in Frames |-> frame[f]]
    /\ \A f \in Frames :
         \/ frame[f] = NoFrame
         \/ /\ call[f[1]].st = "running"
            /\ FrameOK(frame[f], wfm, call[f[1]].req, f[2])

LeavesInv ==
    \A l \in leaves : LeafShape(l) /\ frame[l.f].open /\ l.hi <= frame[l.f].n

(* Somebody will do index i of loop f. *)
Due(f, i) ==
    \/ \E r \in frame[f].left : r.lo <= i /\ i < r.hi
    \/ \E l \in leaves : l.f = f /\ l.pos <= i /\ i < l.hi

CoveredInv ==
    \A f \in Frames : frame[f].open /\ ~frame[f].bad =>
        \A i \in 0 .. frame[f].n - 1 : frame[f].out[i] # Unset \/ Due(f, i)

(* A running get_all_channels has its loop over slots open, and a slot's   *)
(* own loop is open only under a leaf that stands at that slot.            *)
NestedInv ==
    \A t \in Threads : call[t].st = "running" /\ Fans(wfm, call[t].req) =>
        /\ frame[<<t, 0>>].open
        /\ \A k \in 1 .. MaxSlots : frame[<<t, k>>].open =>
             \E l \in leaves : l.f = <<t, 0>> /\ l.pos = k - 1 /\ l.pos < l.hi

IInv == CallsInv /\ FramesInv /\ LeavesInv /\ CoveredInv /\ NestedInv /\ ReplyCorrect

-----------------------------------------------------------------------------
(* What the frames of a call compute, without the state.                   *)

(* A loop's length is a number, and its frame is one of Frames. *)
LEMMA LoopBounds ==
    ASSUME NEW w \in Handles, NEW req \in Requests,
           NEW k \in 0 .. MaxSlots, LoopExists(w, req, k)
    PROVE  /\ Len(Slots(w, req)) \in Nat
           /\ Len(Slots(w, req)) <= MaxSlots
           /\ LoopLen(w, req, k) \in Nat
<1>1. Len(SlotChannels(w)) \in Nat /\ Len(SlotChannels(w)) <= MaxSlots
  BY SlotsAssumption, PlansAssumption
<1>2. Len(<<req.ch>>) = 1 /\ 1 <= MaxSlots /\ MaxSlots \in Nat
  BY SlotsAssumption
<1>3. Len(Slots(w, req)) \in Nat /\ Len(Slots(w, req)) <= MaxSlots
  BY <1>1, <1>2 DEF Slots
<1>4. CASE k = 0
  BY <1>3, <1>4 DEF LoopLen
<1>5. CASE k # 0
  <2>1. k \in 1 .. Len(Slots(w, req)) /\ SlotPlan(w, req, k).tag = "plan"
    BY <1>3, <1>5 DEF LoopExists
  <2>2. SlotPlan(w, req, k).plan.n \in Nat
    BY <2>1, PlansAssumption
  <2> QED
    BY <1>3, <1>5, <2>2 DEF LoopLen
<1> QED
  BY <1>4, <1>5

(* A call that opens no loop over slots has one slot. *)
LEMMA OneSlotUnlessFan ==
    ASSUME NEW w, NEW req, ~Fans(w, req)
    PROVE  Len(Slots(w, req)) = 1
<1>1. CASE ~req.all
  BY <1>1 DEF Slots
<1>2. CASE req.all
  <2>1. w.fam \in {"Tektronix", "Isf", "Lecroy"}
    BY <1>2 DEF Fans
  <2>2. CASE w.fam \in {"Tektronix", "Isf"}
    BY <1>2, <2>2 DEF Slots, SlotChannels
  <2>3. CASE w.fam = "Lecroy"
    BY <1>2, <2>3 DEF Slots, SlotChannels, EnabledChannels
  <2> QED
    BY <2>1, <2>2, <2>3
<1> QED
  BY <1>1, <1>2

(* A value that is stored is never taken for an index not yet done. *)
LEMMA ValueIsSet ==
    ASSUME NEW w, NEW req, NEW k, NEW i
    PROVE  Value(w, req, k, i) # Unset
<1>1. \A r : AsSlot(r) # Unset
  BY DEF AsSlot, Some, None, Unset
<1>2. \A p : ReadSample(p, i) # Unset
  <2> SUFFICES ASSUME NEW p PROVE ReadSample(p, i) # Unset
    OBVIOUS
  <2>1. "ty" \in DOMAIN ReadSample(p, i)
    BY DEF ReadSample
  <2>2. "ty" \notin DOMAIN Unset
    BY DEF Unset
  <2> QED
    BY <2>1, <2>2
<1> QED
  BY <1>1, <1>2 DEF Value

(* What is collected from a frame. *)
Collect(fr) ==
    IF fr.bad THEN Panic("index out of bounds") ELSE Ok([i \in 0 .. fr.n - 1 |-> fr.out[i]])

Complete(fr) == ~fr.bad => \A i \in 0 .. fr.n - 1 : fr.out[i] # Unset

(* A complete decode loop yields what decoding its plan yields. *)
LEMMA DecodeLoopCollects ==
    ASSUME NEW w, NEW req, NEW k, k # 0, NEW fr,
           FrameOK(fr, w, req, k), Complete(fr)
    PROVE  Collect(fr) = Inline(SlotPlan(w, req, k))
<1> DEFINE p == SlotPlan(w, req, k).plan
<1>1. /\ SlotPlan(w, req, k).tag = "plan" /\ Parallel(p)
      /\ fr.n = p.n /\ fr.bad \in BOOLEAN
  BY DEF FrameOK, FrameShape, LoopExists, LoopLen
<1>2. Inline(SlotPlan(w, req, k)) = DecodeEach(p)
  BY <1>1 DEF Inline, DecodeWith
<1>3. CASE fr.bad
  <2>1. \E i \in 0 .. p.n - 1 : ~InBounds(p, i)
    BY <1>1, <1>3 DEF FrameOK, Good
  <2> QED
    BY <1>2, <1>3, <2>1 DEF DecodeEach, Collect
<1>4. CASE ~fr.bad
  <2>1. \A i \in 0 .. p.n - 1 : InBounds(p, i) /\ fr.out[i] = ReadSample(p, i)
    BY <1>1, <1>4 DEF FrameOK, Good, Value, Complete
  <2>2. [i \in 0 .. fr.n - 1 |-> fr.out[i]] = [i \in 0 .. p.n - 1 |-> ReadSample(p, i)]
    BY <1>1, <2>1
  <2> HIDE DEF p
  <2> QED
    BY <1>2, <1>4, <2>1, <2>2 DEF DecodeEach, Collect
<1> QED
  BY <1>1, <1>3, <1>4

(* The result of get_all_channels, slot by slot. *)
LEMMA AllChannelsBySlot ==
    ASSUME NEW w \in Handles, NEW req \in Requests, req.all
    PROVE  LET n == Len(Slots(w, req))
               R(k) == Inline(SlotPlan(w, req, k))
           IN  AllChannels(w, req.start, req.length) =
                 IF \E k \in 1 .. n : R(k).tag = "panic" THEN Panic("a slot panicked")
                 ELSE Ok([k \in 1 .. n |-> AsSlot(R(k))])
<1> DEFINE slots == SlotChannels(w)
           n == Len(slots)
           R(k) == Inline(SlotPlan(w, req, k))
           r == [k \in 1 .. n |-> ChannelData(w, slots[k], req.start, req.length)]
<1>1. Slots(w, req) = slots
  BY DEF Slots
<1>2. \A k \in 1 .. n : r[k] = R(k)
  BY <1>1 DEF ChannelData, Inline, SlotPlan
<1>3. AllChannels(w, req.start, req.length) =
        IF \E k \in 1 .. n : r[k].tag = "panic" THEN Panic("a slot panicked")
        ELSE Ok([k \in 1 .. n |-> IF r[k].tag = "ok" THEN Some(r[k].val) ELSE None])
  BY DEF AllChannels
<1>4. [k \in 1 .. n |-> IF r[k].tag = "ok" THEN Some(r[k].val) ELSE None]
        = [k \in 1 .. n |-> AsSlot(R(k))]
  BY <1>2 DEF AsSlot
<1> HIDE DEF r, R, slots
<1> QED
  BY <1>1, <1>2, <1>3, <1>4, ZenonT(60) DEF R

(* A complete loop over slots yields what the sequential call returns. *)
LEMMA SlotLoopCollects ==
    ASSUME NEW w \in Handles, NEW req \in Requests, NEW fr,
           FrameOK(fr, w, req, 0), Complete(fr)
    PROVE  AllSlots(Collect(fr)) = Expected(w, req)
<1> DEFINE n == Len(Slots(w, req))
           R(k) == Inline(SlotPlan(w, req, k))
<1>1. req.all /\ Fans(w, req) /\ fr.n = n /\ fr.bad \in BOOLEAN
  BY DEF FrameOK, FrameShape, LoopExists, LoopLen, Fans
<1>2. n \in Nat
  BY <1>1, LoopBounds, SlotsAssumption DEF LoopExists
<1>3. Expected(w, req) =
        IF \E k \in 1 .. n : R(k).tag = "panic" THEN Panic("a slot panicked")
        ELSE Ok([k \in 1 .. n |-> AsSlot(R(k))])
  BY <1>1, AllChannelsBySlot DEF Expected
<1>4. CASE fr.bad
  <2>1. PICK i \in 0 .. n - 1 : R(i + 1).tag = "panic"
    BY <1>1, <1>4 DEF FrameOK, Good
  <2>2. \E k \in 1 .. n : R(k).tag = "panic"
    BY <1>2, <2>1
  <2> HIDE DEF R, n
  <2> QED
    BY <1>3, <1>4, <2>2 DEF AllSlots, Collect, Panic
<1>5. CASE ~fr.bad
  <2> DEFINE out == [i \in 0 .. n - 1 |-> fr.out[i]]
  <2>1. \A i \in 0 .. n - 1 : R(i + 1).tag # "panic" /\ fr.out[i] = AsSlot(R(i + 1))
    BY <1>1, <1>5 DEF FrameOK, Good, Value, Complete
  <2>2. \A k \in 1 .. n : k - 1 \in 0 .. n - 1 /\ (k - 1) + 1 = k
    BY <1>2
  <2>3. \A k \in 1 .. n : R(k).tag # "panic" /\ out[k - 1] = AsSlot(R(k))
    <3> TAKE k \in 1 .. n
    <3>1. k - 1 \in 0 .. n - 1 /\ (k - 1) + 1 = k
      BY <2>2
    <3> HIDE DEF R, n
    <3>2. R(k).tag # "panic" /\ fr.out[k - 1] = AsSlot(R(k))
      BY <2>1, <3>1
    <3> QED
      BY <3>1, <3>2
  <2>4. Cardinality(DOMAIN out) = n
    <3>1. DOMAIN out = 0 .. n - 1
      OBVIOUS
    <3>2. 0 \in Int /\ n - 1 \in Int
      BY <1>2
    <3>3. Cardinality(0 .. n - 1) = IF 0 > n - 1 THEN 0 ELSE (n - 1) - 0 + 1
      BY <3>2, FS_Interval
    <3> HIDE DEF n, out
    <3> QED
      BY <1>2, <3>1, <3>3
  <2>5. Collect(fr) = Ok(out)
    BY <1>1, <1>5 DEF Collect
  <2> HIDE DEF R, n, out
  <2>6. AllSlots(Ok(out)) = Ok([k \in 1 .. n |-> out[k - 1]])
    BY <2>4 DEF AllSlots, Ok
  <2>7. [k \in 1 .. n |-> out[k - 1]] = [k \in 1 .. n |-> AsSlot(R(k))]
    BY <2>3
  <2> QED
    BY <1>3, <2>3, <2>5, <2>6, <2>7
<1> QED
  BY <1>1, <1>4, <1>5

(* A call without a loop over slots: its slot, decoded either way. *)
LEMMA OneSlotAnswers ==
    ASSUME NEW w \in Handles, NEW req \in Requests, ~Fans(w, req)
    PROVE  OneSlot(req, Inline(SlotPlan(w, req, 1))) = Expected(w, req)
<1> DEFINE R(k) == Inline(SlotPlan(w, req, k))
<1>1. CASE ~req.all
  BY <1>1 DEF OneSlot, Expected, Inline, SlotPlan, Slots, ChannelData
<1>2. CASE req.all
  <2>1. Len(Slots(w, req)) = 1
    BY OneSlotUnlessFan
  <2>2. Expected(w, req) =
          IF \E k \in 1 .. 1 : R(k).tag = "panic" THEN Panic("a slot panicked")
          ELSE Ok([k \in 1 .. 1 |-> AsSlot(R(k))])
    BY <1>2, <2>1, AllChannelsBySlot DEF Expected
  <2> HIDE DEF R
  <2>3. [k \in 1 .. 1 |-> AsSlot(R(k))] = <<AsSlot(R(1))>>
    OBVIOUS
  <2>4. (\E k \in 1 .. 1 : R(k).tag = "panic") <=> R(1).tag = "panic"
    <3>1. \A k : k \in 1 .. 1 <=> k = 1
      OBVIOUS
    <3> QED
      BY <3>1
  <2>5. Expected(w, req) = IF R(1).tag = "panic" THEN Panic("a slot panicked")
                           ELSE Ok(<<AsSlot(R(1))>>)
    BY <2>2, <2>3, <2>4
  <2> QED
    BY <1>2, <2>5 DEF OneSlot, R
<1> QED
  BY <1>1, <1>2

-----------------------------------------------------------------------------
(* Consequences of the invariant that every step uses.                     *)

(* An open frame is the loop of a running call; its two coordinates.       *)
LEMMA OpenFrame ==
    ASSUME IInv, NEW f \in Frames, frame[f].open
    PROVE  /\ f[1] \in Threads /\ f[2] \in 0 .. MaxSlots /\ f = <<f[1], f[2]>>
           /\ call[f[1]].st = "running"
           /\ call[f[1]].req \in Requests
           /\ call[f[1]] = Running(call[f[1]].req)
           /\ FrameOK(frame[f], wfm, call[f[1]].req, f[2])
           /\ frame[f].n \in Nat
<1>1. f[1] \in Threads /\ f[2] \in 0 .. MaxSlots /\ f = <<f[1], f[2]>>
  BY DEF Frames
<1>2. frame[f] # NoFrame
  BY DEF NoFrame
<1>3. call[f[1]].st = "running" /\ FrameOK(frame[f], wfm, call[f[1]].req, f[2])
  BY <1>2 DEF IInv, FramesInv
<1>4. call[f[1]] = Running(call[f[1]].req) /\ call[f[1]].req \in Requests
  <2>1. CallShape(call[f[1]])
    BY <1>1 DEF IInv, CallsInv
  <2>2. Idle.st # "running"
    BY DEF Idle
  <2> QED
    BY <1>3, <2>1, <2>2 DEF CallShape
<1>5. frame[f].n \in Nat
  BY <1>3 DEF FrameOK, FrameShape
<1> QED
  BY <1>1, <1>3, <1>4, <1>5

(* A finished frame is complete. *)
LEMMA FinishedIsComplete ==
    ASSUME IInv, NEW f \in Frames, frame[f].open, Finished(f)
    PROVE  Complete(frame[f])
BY DEF IInv, CoveredInv, Due, Finished, Complete

(* The calls and the handle do not move in a step of the pool. *)
PoolStep == UNCHANGED <<wfm, call, mapped>>

LEMMA PoolStepCalls ==
    ASSUME IInv, PoolStep
    PROVE  /\ CallsInv' /\ ReplyCorrect'
           /\ wfm' = wfm /\ call' = call
BY DEF PoolStep, IInv, CallsInv, ReplyCorrect

LEMMA InitInv == Init => IInv
<1> SUFFICES ASSUME Init PROVE IInv
  OBVIOUS
<1> USE DEF Init, CallInit
<1>1. \A t \in Threads : call[t] = Idle
  OBVIOUS
<1>2. Idle.st = "idle" /\ NoFrame.open = FALSE
  BY DEF Idle, NoFrame
<1>3. \A f \in Frames : frame[f] = NoFrame
  OBVIOUS
<1>4. CallsInv
  BY <1>1, <1>2 DEF CallsInv, CallShape
<1>5. FramesInv
  BY <1>3 DEF FramesInv
<1>6. LeavesInv /\ CoveredInv
  BY <1>2, <1>3 DEF LeavesInv, CoveredInv
<1>7. NestedInv /\ ReplyCorrect
  BY <1>1, <1>2 DEF NestedInv, ReplyCorrect
<1> QED
  BY <1>4, <1>5, <1>6, <1>7 DEF IInv

(* Dropping the handle: no call is running. *)
LEMMA DropInv == ASSUME IInv, Drop PROVE IInv'
<1> USE DEF Drop
<1>1. CallsInv'
  BY DEF IInv, CallsInv
<1>2. FramesInv' /\ LeavesInv' /\ CoveredInv' /\ NestedInv' /\ ReplyCorrect'
  BY DEF IInv, FramesInv, LeavesInv, CoveredInv, Due, NestedInv, ReplyCorrect
<1> QED
  BY <1>1, <1>2 DEF IInv

(* The end of a range: it covered nothing any more. *)
LEMMA ReturnInv == ASSUME IInv, NEW l \in leaves, Return(l) PROVE IInv'
<1>1. /\ leaves' = leaves \ {l} /\ frame' = frame /\ l.pos = l.hi
      /\ PoolStep
  BY DEF Return, Unwind, PoolStep
<1>2. CallsInv' /\ ReplyCorrect' /\ wfm' = wfm /\ call' = call
  BY <1>1, PoolStepCalls
<1>3. FramesInv' /\ LeavesInv'
  BY <1>1, <1>2 DEF IInv, FramesInv, LeavesInv
<1>4. l.pos \in Nat /\ l.hi \in Nat
  BY DEF IInv, LeavesInv, LeafShape
<1>5. CoveredInv'
  <2> SUFFICES ASSUME NEW f \in Frames, frame[f].open, ~frame[f].bad,
                      NEW i \in 0 .. frame[f].n - 1, frame[f].out[i] = Unset
               PROVE  Due(f, i)'
    BY <1>1 DEF CoveredInv
  <2>1. Due(f, i)
    BY DEF IInv, CoveredInv
  <2>2. ~(l.pos <= i /\ i < l.hi)
    BY <1>1, <1>4
  <2> QED
    BY <1>1, <2>1, <2>2 DEF Due
<1>6. NestedInv'
  <2> SUFFICES ASSUME NEW t \in Threads, call[t].st = "running", Fans(wfm, call[t].req)
               PROVE  /\ frame[<<t, 0>>].open
                      /\ \A k \in 1 .. MaxSlots : frame[<<t, k>>].open =>
                           \E m \in leaves' : m.f = <<t, 0>> /\ m.pos = k - 1 /\ m.pos < m.hi
    BY <1>1, <1>2 DEF NestedInv
  <2>1. ~(l.pos < l.hi)
    BY <1>1, <1>4
  <2> QED
    BY <1>1, <2>1 DEF IInv, NestedInv
<1> QED
  BY <1>2, <1>3, <1>5, <1>6 DEF IInv

-----------------------------------------------------------------------------
(* Steps of the pool that change one frame.                                *)

(* A record with a frame's fields is that frame. *)
FrameFields == {"open", "n", "left", "bad", "out"}

LEMMA FrameEquality ==
    ASSUME NEW u, NEW n, NEW left, NEW bad, NEW out,
           u = [x \in FrameFields |-> u[x]],
           u.open = TRUE, u.n = n, u.left = left, u.bad = bad, u.out = out
    PROVE  u = [open |-> TRUE, n |-> n, left |-> left, bad |-> bad, out |-> out]
<1> DEFINE v == [open |-> TRUE, n |-> n, left |-> left, bad |-> bad, out |-> out]
<1>1. v = [x \in FrameFields |-> v[x]]
  BY DEF FrameFields
<1>2. v.open = TRUE /\ v.n = n /\ v.left = left /\ v.bad = bad /\ v.out = out
  OBVIOUS
<1>3. \A x \in FrameFields : x = "open" \/ x = "n" \/ x = "left" \/ x = "bad" \/ x = "out"
  BY DEF FrameFields
<1> HIDE DEF v
<1>4. \A x \in FrameFields : u[x] = v[x]
  BY <1>2, <1>3
<1>5. u = v
  BY <1>1, <1>4
<1> QED
  BY <1>5 DEF v

(* Field updates of a frame, written out. *)
LEMMA FieldUpdates ==
    ASSUME NEW fr, FrameShape(fr), NEW S
    PROVE  /\ [fr EXCEPT !.left = S] =
                [open |-> TRUE, n |-> fr.n, left |-> S, bad |-> fr.bad, out |-> fr.out]
           /\ [fr EXCEPT !.bad = TRUE] =
                [open |-> TRUE, n |-> fr.n, left |-> fr.left, bad |-> TRUE, out |-> fr.out]
<1>1. fr = [x \in FrameFields |-> fr[x]] /\ fr.open = TRUE
  <2>1. PICK n, left, bad, out :
          fr = [open |-> TRUE, n |-> n, left |-> left, bad |-> bad, out |-> out]
    BY DEF FrameShape
  <2> QED
    BY <2>1 DEF FrameFields
<1>2. "left" \in FrameFields /\ "bad" \in FrameFields /\ "out" \in FrameFields
      /\ "open" \in FrameFields /\ "n" \in FrameFields
  BY DEF FrameFields
<1>3. [fr EXCEPT !.left = S] =
        [open |-> TRUE, n |-> fr.n, left |-> S, bad |-> fr.bad, out |-> fr.out]
  <2> DEFINE u == [fr EXCEPT !.left = S]
  <2>1. u = [x \in FrameFields |-> u[x]]
    BY <1>1
  <2>2. u.open = TRUE /\ u.n = fr.n /\ u.left = S /\ u.bad = fr.bad /\ u.out = fr.out
    BY <1>1, <1>2
  <2> HIDE DEF u
  <2>3. u = [open |-> TRUE, n |-> fr.n, left |-> S, bad |-> fr.bad, out |-> fr.out]
    BY <2>1, <2>2, FrameEquality
  <2> QED
    BY <2>3 DEF u
<1>4. [fr EXCEPT !.bad = TRUE] =
        [open |-> TRUE, n |-> fr.n, left |-> fr.left, bad |-> TRUE, out |-> fr.out]
  <2> DEFINE u == [fr EXCEPT !.bad = TRUE]
  <2>1. u = [x \in FrameFields |-> u[x]]
    BY <1>1
  <2>2. u.open = TRUE /\ u.n = fr.n /\ u.left = fr.left /\ u.bad = TRUE /\ u.out = fr.out
    BY <1>1, <1>2
  <2> HIDE DEF u
  <2>3. u = [open |-> TRUE, n |-> fr.n, left |-> fr.left, bad |-> TRUE, out |-> fr.out]
    BY <2>1, <2>2, FrameEquality
  <2> QED
    BY <2>3 DEF u
<1> QED
  BY <1>3, <1>4

(* Replacing an open frame by another of the same loop. *)
LEMMA ChangeFrame ==
    ASSUME IInv, PoolStep, NEW f \in Frames, frame[f].open, NEW fr,
           frame' = [frame EXCEPT ![f] = fr],
           FrameOK(fr, wfm, call[f[1]].req, f[2])
    PROVE  /\ FramesInv'
           /\ frame'[f] = fr /\ fr.open /\ fr.n = frame[f].n
           /\ \A g \in Frames : g # f => frame'[g] = frame[g]
           /\ \A g \in Frames : frame'[g].open <=> frame[g].open
           /\ \A g \in Frames : frame[g].open => frame'[g].n = frame[g].n
<1>1. frame = [g \in Frames |-> frame[g]]
  BY DEF IInv, FramesInv
<1>2. /\ frame'[f] = fr
      /\ \A g \in Frames : g # f => frame'[g] = frame[g]
      /\ frame' = [g \in Frames |-> frame'[g]]
  BY <1>1
<1>3. /\ call[f[1]].st = "running"
      /\ FrameOK(frame[f], wfm, call[f[1]].req, f[2])
  BY OpenFrame
<1>4. fr.n = frame[f].n
  BY <1>3 DEF FrameOK
<1>5. fr.open = TRUE
  BY DEF FrameOK, FrameShape
<1>6. wfm' = wfm /\ call' = call
  BY DEF PoolStep
<1>7. FramesInv'
  <2> SUFFICES ASSUME NEW g \in Frames
               PROVE  \/ frame'[g] = NoFrame
                      \/ /\ call[g[1]].st = "running"
                         /\ FrameOK(frame'[g], wfm, call[g[1]].req, g[2])
    BY <1>2, <1>6 DEF FramesInv
  <2>1. CASE g = f
    BY <1>2, <1>3, <2>1
  <2>2. CASE g # f
    BY <1>2, <2>2 DEF IInv, FramesInv
  <2> QED
    BY <2>1, <2>2
<1> QED
  BY <1>2, <1>4, <1>5, <1>7

(* A range is halved. *)
LEMMA SplitInv ==
    ASSUME IInv, NEW f \in Frames, NEW r \in frame[f].left, Split(f, r)
    PROVE  IInv'
<1> DEFINE mid == (r.lo + r.hi) \div 2
           S == (frame[f].left \ {r}) \cup {Span(r.lo, mid), Span(mid, r.hi)}
           fr == [open |-> TRUE, n |-> frame[f].n, left |-> S, bad |-> frame[f].bad,
                  out |-> frame[f].out]
<1>1. /\ frame[f].open /\ PoolStep /\ leaves' = leaves
      /\ frame' = [frame EXCEPT ![f].left = S]
      /\ r.hi - r.lo >= 2
  BY DEF Split, PoolStep
<1>2. FrameOK(frame[f], wfm, call[f[1]].req, f[2])
  BY <1>1, OpenFrame
<1>3. /\ r.lo \in Nat /\ r.hi \in Nat /\ r.hi <= frame[f].n
      /\ FrameShape(frame[f]) /\ frame[f].n \in Nat
  BY <1>2 DEF FrameOK, FrameShape
<1>4. mid \in Nat /\ r.lo <= mid /\ mid <= r.hi
  BY <1>1, <1>3
<1>5. \A q \in S : q.lo \in Nat /\ q.hi \in Nat /\ q.lo <= q.hi /\ q.hi <= frame[f].n
  BY <1>3, <1>4 DEF FrameShape, Span
<1> HIDE DEF S, mid
<1>6. frame' = [frame EXCEPT ![f] = fr]
  BY <1>1, <1>3, FieldUpdates
<1>7. FrameOK(fr, wfm, call[f[1]].req, f[2])
  BY <1>2, <1>5 DEF FrameOK, FrameShape
<1>8. /\ FramesInv' /\ frame'[f] = fr
      /\ \A g \in Frames : g # f => frame'[g] = frame[g]
      /\ \A g \in Frames : frame'[g].open <=> frame[g].open
      /\ \A g \in Frames : frame[g].open => frame'[g].n = frame[g].n
  BY <1>1, <1>6, <1>7, ChangeFrame, ZenonT(60)
<1>9. CallsInv' /\ ReplyCorrect' /\ wfm' = wfm /\ call' = call
  BY <1>1, PoolStepCalls
<1>10. LeavesInv'
  BY <1>1, <1>8 DEF IInv, LeavesInv, LeafShape
<1>11. CoveredInv'
  <2> SUFFICES ASSUME NEW g \in Frames, frame'[g].open, ~frame'[g].bad,
                      NEW i \in 0 .. frame'[g].n - 1, frame'[g].out[i] = Unset
               PROVE  Due(g, i)'
    BY DEF CoveredInv
  <2>1. frame[g].open /\ frame'[g].n = frame[g].n /\ frame'[g].out = frame[g].out
        /\ frame'[g].bad = frame[g].bad
    BY <1>8
  <2>2. Due(g, i)
    BY <2>1 DEF IInv, CoveredInv
  <2>3. CASE g # f
    BY <1>1, <1>8, <2>2, <2>3 DEF Due
  <2>4. CASE g = f
    <3>1. CASE \E l \in leaves : l.f = g /\ l.pos <= i /\ i < l.hi
      BY <1>1, <3>1 DEF Due
    <3>2. CASE \E q \in frame[g].left : q.lo <= i /\ i < q.hi
      <4>1. PICK q \in frame[g].left : q.lo <= i /\ i < q.hi
        BY <3>2
      <4>2. CASE q # r
        <5>1. q \in S
          BY <2>4, <4>1, <4>2 DEF S
        <5> QED
          BY <1>8, <2>4, <4>1, <5>1 DEF Due
      <4>3. CASE q = r /\ i < mid
        <5>1. Span(r.lo, mid) \in S /\ Span(r.lo, mid).lo <= i /\ i < Span(r.lo, mid).hi
          BY <4>1, <4>3 DEF S, Span
        <5> QED
          BY <1>8, <2>4, <5>1 DEF Due
      <4>4. CASE q = r /\ ~(i < mid)
        <5>1. i \in Int
          OBVIOUS
        <5>2. Span(mid, r.hi) \in S /\ Span(mid, r.hi).lo <= i /\ i < Span(mid, r.hi).hi
          BY <1>4, <4>1, <4>4, <5>1 DEF S, Span
        <5> QED
          BY <1>8, <2>4, <5>2 DEF Due
      <4> QED
        BY <4>2, <4>3, <4>4
    <3> QED
      BY <2>2, <3>1, <3>2 DEF Due
  <2> QED
    BY <2>3, <2>4
<1>12. NestedInv'
  <2>1. \A t \in Threads, k \in 0 .. MaxSlots : <<t, k>> \in Frames
    BY DEF Frames
  <2>2. 0 \in 0 .. MaxSlots /\ \A k \in 1 .. MaxSlots : k \in 0 .. MaxSlots
    BY SlotsAssumption
  <2> QED
    BY <1>1, <1>8, <1>9, <2>1, <2>2 DEF IInv, NestedInv
<1> QED
  BY <1>8, <1>9, <1>10, <1>11, <1>12 DEF IInv

(* A worker takes a range: what was left is now ahead of its leaf. *)
LEMMA TakeInv ==
    ASSUME IInv, NEW w \in Workers, NEW f \in Frames, NEW r \in frame[f].left,
           Take(w, f, r)
    PROVE  IInv'
<1> DEFINE S == frame[f].left \ {r}
           fr == [open |-> TRUE, n |-> frame[f].n, left |-> S, bad |-> frame[f].bad,
                  out |-> frame[f].out]
           l == [w |-> w, d |-> Depth(w) + 1, f |-> f, pos |-> r.lo, hi |-> r.hi]
<1>1. /\ frame[f].open /\ PoolStep /\ leaves' = leaves \cup {l}
      /\ frame' = [frame EXCEPT ![f].left = S]
  BY DEF Take, PoolStep
<1>2. FrameOK(frame[f], wfm, call[f[1]].req, f[2])
  BY <1>1, OpenFrame
<1>3. /\ r.lo \in Nat /\ r.hi \in Nat /\ r.lo <= r.hi /\ r.hi <= frame[f].n
      /\ FrameShape(frame[f]) /\ frame[f].n \in Nat
  BY <1>2 DEF FrameOK, FrameShape
<1>4. \A q \in S : q.lo \in Nat /\ q.hi \in Nat /\ q.lo <= q.hi /\ q.hi <= frame[f].n
  BY <1>3 DEF FrameShape
<1>5. l.f = f /\ l.pos = r.lo /\ l.hi = r.hi /\ LeafShape(l)
  BY <1>3 DEF LeafShape, LeafFields
<1> HIDE DEF S, l
<1>6. frame' = [frame EXCEPT ![f] = fr]
  BY <1>1, <1>3, FieldUpdates
<1>7. FrameOK(fr, wfm, call[f[1]].req, f[2])
  BY <1>2, <1>4 DEF FrameOK, FrameShape
<1>8. /\ FramesInv' /\ frame'[f] = fr
      /\ \A g \in Frames : g # f => frame'[g] = frame[g]
      /\ \A g \in Frames : frame'[g].open <=> frame[g].open
      /\ \A g \in Frames : frame[g].open => frame'[g].n = frame[g].n
  BY <1>1, <1>6, <1>7, ChangeFrame, ZenonT(60)
<1>9. CallsInv' /\ ReplyCorrect' /\ wfm' = wfm /\ call' = call
  BY <1>1, PoolStepCalls
<1>10. LeavesInv'
  <2>1. \A m \in leaves : LeafShape(m) /\ frame'[m.f].open /\ m.hi <= frame'[m.f].n
    BY <1>8 DEF IInv, LeavesInv, LeafShape
  <2>2. LeafShape(l) /\ frame'[l.f].open /\ l.hi <= frame'[l.f].n
    BY <1>1, <1>3, <1>5, <1>8
  <2> QED
    BY <1>1, <2>1, <2>2 DEF LeavesInv
<1>11. CoveredInv'
  <2> SUFFICES ASSUME NEW g \in Frames, frame'[g].open, ~frame'[g].bad,
                      NEW i \in 0 .. frame'[g].n - 1, frame'[g].out[i] = Unset
               PROVE  Due(g, i)'
    BY DEF CoveredInv
  <2>1. frame[g].open /\ frame'[g].n = frame[g].n /\ frame'[g].out = frame[g].out
        /\ frame'[g].bad = frame[g].bad
    BY <1>8
  <2>2. Due(g, i)
    BY <2>1 DEF IInv, CoveredInv
  <2>3. CASE \E m \in leaves : m.f = g /\ m.pos <= i /\ i < m.hi
    BY <1>1, <2>3 DEF Due
  <2>4. CASE \E q \in frame[g].left : q.lo <= i /\ i < q.hi
    <3>1. PICK q \in frame[g].left : q.lo <= i /\ i < q.hi
      BY <2>4
    <3>2. CASE g = f /\ q = r
      <4>1. l \in leaves' /\ l.f = g /\ l.pos <= i /\ i < l.hi
        BY <1>1, <1>5, <3>1, <3>2
      <4> QED
        BY <4>1 DEF Due
    <3>3. CASE ~(g = f /\ q = r)
      <4>1. q \in frame'[g].left
        BY <1>8, <3>1, <3>3 DEF S
      <4> QED
        BY <3>1, <4>1 DEF Due
    <3> QED
      BY <3>2, <3>3
  <2> QED
    BY <2>2, <2>3, <2>4 DEF Due
<1>12. NestedInv'
  <2>1. \A t \in Threads, k \in 0 .. MaxSlots : <<t, k>> \in Frames
    BY DEF Frames
  <2>2. 0 \in 0 .. MaxSlots /\ \A k \in 1 .. MaxSlots : k \in 0 .. MaxSlots
    BY SlotsAssumption
  <2>3. leaves \subseteq leaves'
    BY <1>1
  <2> QED
    BY <1>8, <1>9, <2>1, <2>2, <2>3 DEF IInv, NestedInv
<1> QED
  BY <1>8, <1>9, <1>10, <1>11, <1>12 DEF IInv

-----------------------------------------------------------------------------
(* Steps of a leaf. Frames other than the leaf's own stay as they are, but *)
(* for one that has no leaves and is collected.                            *)
OthersStay(l) ==
    /\ frame' = [g \in Frames |-> frame'[g]]
    /\ \A g \in Frames : g # l.f =>
         \/ frame'[g] = frame[g]
         \/ frame'[g] = NoFrame /\ g[2] # 0 /\ \A m \in leaves : m.f # g
    /\ IsSlotLoop(l.f) => ~frame'[Child(l)].open

(* What is known of a leaf that has something left to do. *)
LEMMA LeafFacts ==
    ASSUME IInv, NEW l \in leaves, l.pos < l.hi
    PROVE  /\ l.f \in Frames /\ frame[l.f].open /\ LeafShape(l)
           /\ l.pos \in 0 .. frame[l.f].n - 1 /\ l.pos \in Nat /\ l.hi \in Nat
           /\ FrameOK(frame[l.f], wfm, Request(l.f), l.f[2])
           /\ Request(l.f) \in Requests /\ wfm \in Handles
           /\ l.f[1] \in Threads /\ l.f[2] \in 0 .. MaxSlots /\ l.f = <<l.f[1], l.f[2]>>
<1>1. LeafShape(l) /\ frame[l.f].open /\ l.hi <= frame[l.f].n
  BY DEF IInv, LeavesInv
<1>2. l.f \in Frames /\ l.pos \in Nat /\ l.hi \in Nat
  BY <1>1 DEF LeafShape
<1>3. FrameOK(frame[l.f], wfm, Request(l.f), l.f[2]) /\ frame[l.f].n \in Nat
      /\ Request(l.f) \in Requests
      /\ l.f[1] \in Threads /\ l.f[2] \in 0 .. MaxSlots /\ l.f = <<l.f[1], l.f[2]>>
  BY <1>1, <1>2, OpenFrame DEF Request
<1> QED
  BY <1>1, <1>2, <1>3 DEF IInv, CallsInv

(* Leaves that go on, end, or stay keep their frames; a call's slot loop   *)
(* and the leaves above its nested loops keep theirs.                      *)
LEMMA OthersStayInv ==
    ASSUME IInv, PoolStep, NEW l \in leaves, l.pos < l.hi, OthersStay(l),
           FrameOK(frame'[l.f], wfm, Request(l.f), l.f[2]),
           Advance(l) \/ Unwind(l)
    PROVE  /\ FramesInv' /\ LeavesInv' /\ NestedInv' /\ CallsInv' /\ ReplyCorrect'
           /\ \A g \in Frames : frame'[g].open => frame[g].open
<1>1. /\ l.f \in Frames /\ frame[l.f].open /\ LeafShape(l) /\ l.pos \in Nat /\ l.hi \in Nat
      /\ FrameOK(frame[l.f], wfm, Request(l.f), l.f[2])
      /\ call[l.f[1]].st = "running"
  BY LeafFacts, OpenFrame
<1>2. CallsInv' /\ ReplyCorrect' /\ wfm' = wfm /\ call' = call
  BY PoolStepCalls
<1>3. frame'[l.f].open /\ frame'[l.f].n = frame[l.f].n
  BY <1>1 DEF FrameOK, FrameShape
<1>4. ~NoFrame.open
  BY DEF NoFrame
<1>5. \A g \in Frames : frame'[g].open => frame[g].open
  BY <1>1, <1>4 DEF OthersStay
<1>6. FramesInv'
  <2> SUFFICES ASSUME NEW g \in Frames
               PROVE  \/ frame'[g] = NoFrame
                      \/ /\ call[g[1]].st = "running"
                         /\ FrameOK(frame'[g], wfm, call[g[1]].req, g[2])
    BY <1>2 DEF FramesInv, OthersStay
  <2>1. CASE g = l.f
    BY <1>1, <2>1 DEF Request
  <2>2. CASE g # l.f
    BY <2>2 DEF IInv, FramesInv, OthersStay
  <2> QED
    BY <2>1, <2>2
<1>7. \A m \in leaves : LeafShape(m) /\ frame'[m.f].open /\ m.hi <= frame'[m.f].n
  <2> TAKE m \in leaves
  <2>1. LeafShape(m) /\ frame[m.f].open /\ m.hi <= frame[m.f].n /\ m.f \in Frames
    BY DEF IInv, LeavesInv, LeafShape
  <2>2. CASE m.f = l.f
    BY <1>3, <2>1, <2>2
  <2>3. CASE m.f # l.f
    BY <2>1, <2>3 DEF OthersStay
  <2> QED
    BY <2>1, <2>2, <2>3
<1>8. LeavesInv'
  <2>1. CASE Unwind(l)
    BY <1>7, <2>1 DEF Unwind, LeavesInv
  <2>2. CASE Advance(l)
    <3> DEFINE a == [l EXCEPT !.pos = @ + 1]
    <3>1. a.w = l.w /\ a.f = l.f /\ a.pos = l.pos + 1 /\ a.hi = l.hi
          /\ a = [x \in LeafFields |-> a[x]]
      BY <1>1 DEF LeafShape, LeafFields
    <3> HIDE DEF a
    <3>2. LeafShape(a)
      BY <1>1, <3>1 DEF LeafShape
    <3>3. \A m \in leaves' : m \in leaves \/ m = a
      BY <2>2 DEF Advance, a
    <3> QED
      BY <1>7, <3>1, <3>2, <3>3 DEF LeavesInv
  <2> QED
    BY <2>1, <2>2
<1>9. NestedInv'
  <2> SUFFICES ASSUME NEW t \in Threads, call[t].st = "running", Fans(wfm, call[t].req)
               PROVE  /\ frame'[<<t, 0>>].open
                      /\ \A k \in 1 .. MaxSlots : frame'[<<t, k>>].open =>
                           \E m \in leaves' : m.f = <<t, 0>> /\ m.pos = k - 1 /\ m.pos < m.hi
    BY <1>2 DEF NestedInv
  <2>1. 0 \in 0 .. MaxSlots /\ \A k \in 1 .. MaxSlots : k \in 0 .. MaxSlots
    BY SlotsAssumption
  <2>2. frame'[<<t, 0>>].open
    <3>1. <<t, 0>> \in Frames /\ frame[<<t, 0>>].open /\ <<t, 0>>[2] = 0
      BY <2>1 DEF Frames, IInv, NestedInv
    <3> QED
      BY <1>3, <3>1 DEF OthersStay
  <2>3. ASSUME NEW k \in 1 .. MaxSlots, frame'[<<t, k>>].open
        PROVE  \E m \in leaves' : m.f = <<t, 0>> /\ m.pos = k - 1 /\ m.pos < m.hi
    <3>1. <<t, k>> \in Frames
      BY <2>1 DEF Frames
    <3>2. frame[<<t, k>>].open
      BY <1>5, <2>3, <3>1
    <3>3. PICK m \in leaves : m.f = <<t, 0>> /\ m.pos = k - 1 /\ m.pos < m.hi
      BY <3>2 DEF IInv, NestedInv
    <3>4. CASE m = l
      <4>1. IsSlotLoop(l.f) /\ Child(l) = <<t, k>>
        BY <3>3, <3>4 DEF IsSlotLoop, Child
      <4> QED
        BY <2>3, <4>1 DEF OthersStay
    <3>5. CASE m # l
      BY <3>3, <3>5 DEF Advance, Unwind
    <3> QED
      BY <3>4, <3>5
  <2> QED
    BY <2>2, <2>3
<1> QED
  BY <1>2, <1>5, <1>6, <1>8, <1>9

(* u is frame fr with v stored at index i. *)
Stored(u, fr, i, v) == u = [fr EXCEPT !.out[i] = v]

LEMMA ElementUpdate ==
    ASSUME NEW fr, FrameShape(fr), NEW i \in 0 .. fr.n - 1, NEW v,
           NEW u, Stored(u, fr, i, v)
    PROVE  /\ FrameShape(u)
           /\ u.n = fr.n /\ u.left = fr.left /\ u.bad = fr.bad
           /\ u.out[i] = v
           /\ \A j \in 0 .. fr.n - 1 : j # i => u.out[j] = fr.out[j]
<1>1. fr = [x \in FrameFields |-> fr[x]] /\ fr.open = TRUE
  <2>1. PICK n, left, bad, out :
          fr = [open |-> TRUE, n |-> n, left |-> left, bad |-> bad, out |-> out]
    BY DEF FrameShape
  <2> QED
    BY <2>1 DEF FrameFields
<1>2. "left" \in FrameFields /\ "bad" \in FrameFields /\ "out" \in FrameFields
      /\ "open" \in FrameFields /\ "n" \in FrameFields
  BY DEF FrameFields
<1>3. fr.out = [j \in 0 .. fr.n - 1 |-> fr.out[j]]
  BY DEF FrameShape
<1>4. u = [x \in FrameFields |-> u[x]]
  BY <1>1 DEF Stored
<1>5. u.open = TRUE /\ u.n = fr.n /\ u.left = fr.left /\ u.bad = fr.bad
      /\ u.out = [fr.out EXCEPT ![i] = v]
  BY <1>1, <1>2 DEF Stored
<1>6. /\ u.out = [j \in 0 .. fr.n - 1 |-> u.out[j]]
      /\ u.out[i] = v
      /\ \A j \in 0 .. fr.n - 1 : j # i => u.out[j] = fr.out[j]
  BY <1>3, <1>5
<1>7. u = [open |-> TRUE, n |-> u.n, left |-> u.left, bad |-> u.bad, out |-> u.out]
  BY <1>4, <1>5, FrameEquality
<1>8. FrameShape(u)
  BY <1>5, <1>6, <1>7 DEF FrameShape
<1> QED
  BY <1>5, <1>6, <1>8

(* Storing the value of an index keeps a frame in order. *)
LEMMA StoredFrame ==
    ASSUME NEW fr, NEW w, NEW req, NEW k, FrameOK(fr, w, req, k),
           NEW i \in 0 .. fr.n - 1, Good(w, req, k, i),
           NEW u, Stored(u, fr, i, Value(w, req, k, i))
    PROVE  /\ FrameOK(u, w, req, k)
           /\ u.n = fr.n /\ u.left = fr.left /\ u.bad = fr.bad
           /\ u.out[i] # Unset
           /\ \A j \in 0 .. fr.n - 1 : j # i => u.out[j] = fr.out[j]
<1>1. FrameShape(fr)
  BY DEF FrameOK
<1>2. /\ FrameShape(u)
      /\ u.n = fr.n /\ u.left = fr.left /\ u.bad = fr.bad
      /\ u.out[i] = Value(w, req, k, i)
      /\ \A j \in 0 .. fr.n - 1 : j # i => u.out[j] = fr.out[j]
  BY <1>1, ElementUpdate
<1>3. \A j \in 0 .. u.n - 1 : u.out[j] # Unset =>
            Good(w, req, k, j) /\ u.out[j] = Value(w, req, k, j)
  BY <1>2 DEF FrameOK
<1>4. FrameOK(u, w, req, k)
  BY <1>2, <1>3 DEF FrameOK
<1> QED
  BY <1>2, <1>4, ValueIsSet

(* A leaf stores the value of its index and goes on. *)
LEMMA StoreInv ==
    ASSUME IInv, PoolStep, NEW l \in leaves, l.pos < l.hi, OthersStay(l), Advance(l),
           Good(wfm, Request(l.f), l.f[2], l.pos),
           Stored(frame'[l.f], frame[l.f], l.pos, Value(wfm, Request(l.f), l.f[2], l.pos))
    PROVE  IInv'
<1> DEFINE fr == frame[l.f]
           new == frame'[l.f]
           req == Request(l.f)
           k == l.f[2]
           v == Value(wfm, req, k, l.pos)
<1>1. /\ l.f \in Frames /\ frame[l.f].open /\ LeafShape(l) /\ l.pos \in 0 .. fr.n - 1
      /\ l.pos \in Nat /\ l.hi \in Nat
      /\ FrameOK(fr, wfm, req, k) /\ fr.n \in Nat
  BY LeafFacts, OpenFrame
<1>2. Stored(new, fr, l.pos, v)
  OBVIOUS
<1>3. Good(wfm, req, k, l.pos) /\ v = Value(wfm, req, k, l.pos)
  OBVIOUS
<1> HIDE DEF fr, new, req, k, v
<1>4. /\ FrameOK(new, wfm, req, k)
      /\ new.n = fr.n /\ new.left = fr.left /\ new.bad = fr.bad
      /\ new.out[l.pos] # Unset
      /\ \A j \in 0 .. fr.n - 1 : j # l.pos => new.out[j] = fr.out[j]
  BY <1>1, <1>2, <1>3, StoredFrame
<1>5. FrameOK(frame'[l.f], wfm, Request(l.f), l.f[2])
  BY <1>4 DEF new, req, k
<1> USE DEF fr, new, req
<1>6. /\ FramesInv' /\ LeavesInv' /\ NestedInv' /\ CallsInv' /\ ReplyCorrect'
      /\ \A g \in Frames : frame'[g].open => frame[g].open
  BY <1>5, OthersStayInv
<1>7. CoveredInv'
  <2> SUFFICES ASSUME NEW g \in Frames, frame'[g].open, ~frame'[g].bad,
                      NEW i \in 0 .. frame'[g].n - 1, frame'[g].out[i] = Unset
               PROVE  Due(g, i)'
    BY DEF CoveredInv
  <2>1. CASE g # l.f
    <3>1. frame'[g] = frame[g]
      BY <2>1 DEF OthersStay, NoFrame
    <3>2. Due(g, i)
      BY <3>1 DEF IInv, CoveredInv
    <3> QED
      BY <2>1, <3>1, <3>2 DEF Due, Advance
  <2>2. CASE g = l.f
    <3>1. i \in 0 .. fr.n - 1 /\ i # l.pos /\ fr.out[i] = Unset /\ ~fr.bad
      BY <1>4, <2>2
    <3>2. Due(g, i)
      BY <1>1, <2>2, <3>1 DEF IInv, CoveredInv
    <3>3. CASE \E r \in frame[g].left : r.lo <= i /\ i < r.hi
      BY <1>4, <2>2, <3>3 DEF Due
    <3>4. CASE \E m \in leaves : m.f = g /\ m.pos <= i /\ i < m.hi
      <4>1. PICK m \in leaves : m.f = g /\ m.pos <= i /\ i < m.hi
        BY <3>4
      <4>2. CASE m # l
        BY <4>1, <4>2 DEF Due, Advance
      <4>3. CASE m = l
        <5> DEFINE a == [l EXCEPT !.pos = @ + 1]
        <5>1. a.f = l.f /\ a.pos = l.pos + 1 /\ a.hi = l.hi
          BY <1>1 DEF LeafShape, LeafFields
        <5>2. a \in leaves'
          BY DEF Advance
        <5> HIDE DEF a
        <5>3. a.pos <= i /\ i < a.hi /\ a.f = g
          BY <1>1, <3>1, <4>1, <4>3, <5>1
        <5> QED
          BY <5>2, <5>3 DEF Due
      <4> QED
        BY <4>2, <4>3
    <3> QED
      BY <3>2, <3>3, <3>4 DEF Due
  <2> QED
    BY <2>1, <2>2
<1> QED
  BY <1>6, <1>7 DEF IInv

(* u is frame fr with a panic marked. *)
Marked(u, fr) == u = [fr EXCEPT !.bad = TRUE]

(* A leaf panics on an index that cannot be done. *)
LEMMA FailInv ==
    ASSUME IInv, PoolStep, NEW l \in leaves, l.pos < l.hi, OthersStay(l), Unwind(l),
           ~Good(wfm, Request(l.f), l.f[2], l.pos),
           Marked(frame'[l.f], frame[l.f])
    PROVE  IInv'
<1> DEFINE fr == frame[l.f]
           req == Request(l.f)
<1>1. /\ l.f \in Frames /\ l.pos \in 0 .. fr.n - 1
      /\ FrameOK(fr, wfm, req, l.f[2])
  BY LeafFacts
<1>2. FrameShape(fr)
  BY <1>1 DEF FrameOK
<1>3. frame'[l.f] = [open |-> TRUE, n |-> fr.n, left |-> fr.left, bad |-> TRUE, out |-> fr.out]
  BY <1>2, FieldUpdates DEF Marked
<1>4. FrameOK(frame'[l.f], wfm, req, l.f[2])
  BY <1>1, <1>3 DEF FrameOK, FrameShape
<1>5. /\ FramesInv' /\ LeavesInv' /\ NestedInv' /\ CallsInv' /\ ReplyCorrect'
      /\ \A g \in Frames : frame'[g].open => frame[g].open
  BY <1>4, OthersStayInv
<1>6. CoveredInv'
  <2> SUFFICES ASSUME NEW g \in Frames, frame'[g].open, ~frame'[g].bad,
                      NEW i \in 0 .. frame'[g].n - 1, frame'[g].out[i] = Unset
               PROVE  Due(g, i)'
    BY DEF CoveredInv
  <2>1. g # l.f
    BY <1>3
  <2>2. frame'[g] = frame[g]
    BY <2>1 DEF OthersStay, NoFrame
  <2>3. Due(g, i)
    BY <2>2 DEF IInv, CoveredInv
  <2> QED
    BY <2>1, <2>2, <2>3 DEF Due, Unwind
<1> QED
  BY <1>5, <1>6 DEF IInv

(* A leaf of a loop over slots, and the loop of the slot it stands at. *)
LEMMA SlotLeaf ==
    ASSUME IInv, NEW l \in leaves, l.pos < l.hi, IsSlotLoop(l.f)
    PROVE  /\ Child(l) \in Frames /\ Child(l) # l.f /\ l.f = <<l.f[1], 0>>
           /\ Child(l)[1] = l.f[1] /\ Child(l)[2] = l.pos + 1
           /\ l.pos + 1 \in 1 .. MaxSlots
           /\ l.pos + 1 <= Len(Slots(wfm, Request(l.f)))
           /\ Fans(wfm, Request(l.f))
           /\ frame[Child(l)].open =>
                FrameOK(frame[Child(l)], wfm, Request(l.f), l.pos + 1)
<1> DEFINE req == Request(l.f)
<1>1. /\ l.f[2] = 0 /\ l.f[1] \in Threads /\ l.f = <<l.f[1], l.f[2]>>
      /\ l.pos \in 0 .. frame[l.f].n - 1 /\ l.pos \in Nat
      /\ FrameOK(frame[l.f], wfm, req, l.f[2])
      /\ req \in Requests /\ wfm \in Handles
  BY LeafFacts DEF IsSlotLoop
<1>2. LoopExists(wfm, req, 0) /\ Fans(wfm, req) /\ frame[l.f].n = Len(Slots(wfm, req))
  BY <1>1 DEF FrameOK, LoopExists, LoopLen
<1>3. Len(Slots(wfm, req)) \in Nat /\ Len(Slots(wfm, req)) <= MaxSlots /\ MaxSlots \in Nat
  BY <1>1, <1>2, LoopBounds, SlotsAssumption
<1> HIDE DEF req
<1>4. l.pos + 1 \in 1 .. MaxSlots /\ l.pos + 1 <= Len(Slots(wfm, req))
  BY <1>1, <1>2, <1>3
<1>5. /\ Child(l)[1] = l.f[1] /\ Child(l)[2] = l.pos + 1
      /\ Child(l) \in Frames /\ Child(l) # l.f
  BY <1>1, <1>4 DEF Child, Frames
<1>6. frame[Child(l)].open => FrameOK(frame[Child(l)], wfm, req, l.pos + 1)
  <2>1. call[Child(l)[1]].req = req
    BY <1>5 DEF req, Request
  <2> QED
    BY <1>5, <2>1, OpenFrame
<1> QED
  BY <1>1, <1>2, <1>4, <1>5, <1>6 DEF req

(* A step that replaces the leaf's own frame, when no loop is nested in it. *)
LEMMA OnlyOwnFrame ==
    ASSUME IInv, NEW l \in leaves, l.pos < l.hi, NEW u,
           frame' = [frame EXCEPT ![l.f] = u],
           IsSlotLoop(l.f) => ~frame[Child(l)].open
    PROVE  OthersStay(l) /\ frame'[l.f] = u
<1>1. frame = [g \in Frames |-> frame[g]] /\ l.f \in Frames
  BY LeafFacts DEF IInv, FramesInv
<1>2. /\ frame' = [g \in Frames |-> frame'[g]] /\ frame'[l.f] = u
      /\ \A g \in Frames : g # l.f => frame'[g] = frame[g]
  BY <1>1
<1>3. IsSlotLoop(l.f) => ~frame'[Child(l)].open
  BY <1>2, SlotLeaf
<1> QED
  BY <1>2, <1>3 DEF OthersStay

(* Store and Fail, as changes of the leaf's own frame. *)
LEMMA StoreStep ==
    ASSUME IInv, NEW l \in leaves, l.pos < l.hi, NEW v, Store(l, v),
           IsSlotLoop(l.f) => ~frame[Child(l)].open
    PROVE  OthersStay(l) /\ Stored(frame'[l.f], frame[l.f], l.pos, v) /\ Advance(l)
<1> DEFINE u == [frame[l.f] EXCEPT !.out[l.pos] = v]
<1>1. frame' = [frame EXCEPT ![l.f] = u] /\ Advance(l)
  BY DEF Store
<1>2. Stored(u, frame[l.f], l.pos, v)
  BY DEF Stored
<1> HIDE DEF u
<1>3. OthersStay(l) /\ frame'[l.f] = u
  BY <1>1, OnlyOwnFrame
<1> QED
  BY <1>1, <1>2, <1>3

LEMMA FailStep ==
    ASSUME IInv, NEW l \in leaves, l.pos < l.hi, Fail(l),
           IsSlotLoop(l.f) => ~frame[Child(l)].open
    PROVE  OthersStay(l) /\ Marked(frame'[l.f], frame[l.f]) /\ Unwind(l)
<1> DEFINE u == [frame[l.f] EXCEPT !.bad = TRUE]
<1>1. frame' = [frame EXCEPT ![l.f] = u] /\ Unwind(l)
  BY DEF Fail
<1>2. Marked(u, frame[l.f])
  BY DEF Marked
<1> HIDE DEF u
<1>3. OthersStay(l) /\ frame'[l.f] = u
  BY <1>1, OnlyOwnFrame
<1> QED
  BY <1>1, <1>2, <1>3

(* One element of a decode loop. *)
LEMMA DecodeSampleInv == ASSUME IInv, NEW l \in leaves, DecodeSample(l) PROVE IInv'
<1> DEFINE k == l.f[2]
           p == SlotPlan(wfm, Request(l.f), k).plan
<1>1. /\ l.pos < l.hi /\ ~IsSlotLoop(l.f) /\ k # 0 /\ PoolStep
      /\ \/ InBounds(p, l.pos) /\ Store(l, ReadSample(p, l.pos))
         \/ ~InBounds(p, l.pos) /\ Fail(l)
  BY DEF DecodeSample, IsSlotLoop, PoolStep
<1>2. /\ Good(wfm, Request(l.f), k, l.pos) <=> InBounds(p, l.pos)
      /\ Value(wfm, Request(l.f), k, l.pos) = ReadSample(p, l.pos)
  BY <1>1 DEF Good, Value
<1> HIDE DEF p
<1>3. CASE InBounds(p, l.pos) /\ Store(l, ReadSample(p, l.pos))
  <2>1. OthersStay(l) /\ Advance(l)
        /\ Stored(frame'[l.f], frame[l.f], l.pos, ReadSample(p, l.pos))
    BY <1>1, <1>3, StoreStep
  <2> QED
    BY <1>1, <1>2, <1>3, <2>1, StoreInv
<1>4. CASE ~InBounds(p, l.pos) /\ Fail(l)
  <2>1. OthersStay(l) /\ Marked(frame'[l.f], frame[l.f]) /\ Unwind(l)
    BY <1>1, <1>4, FailStep
  <2> QED
    BY <1>1, <1>2, <1>4, <2>1, FailInv
<1> QED
  BY <1>1, <1>3, <1>4

(* One slot decoded by its leaf: no loop is nested in it. *)
LEMMA DecodeSlotInv == ASSUME IInv, NEW l \in leaves, DecodeSlot(l) PROVE IInv'
<1> DEFINE k == l.f[2]
           p == SlotPlan(wfm, Request(l.f), l.pos + 1)
           r == Inline(p)
<1>1. /\ l.pos < l.hi /\ IsSlotLoop(l.f) /\ k = 0 /\ PoolStep
      /\ ~(p.tag = "plan" /\ Parallel(p.plan))
      /\ \/ r.tag # "panic" /\ Store(l, AsSlot(r))
         \/ ~(r.tag # "panic") /\ Fail(l)
  BY DEF DecodeSlot, IsSlotLoop, PoolStep
<1>2. /\ Good(wfm, Request(l.f), k, l.pos) <=> r.tag # "panic"
      /\ Value(wfm, Request(l.f), k, l.pos) = AsSlot(r)
  BY <1>1 DEF Good, Value
<1>3. ~frame[Child(l)].open
  <2>1. l.pos \in Nat
    BY <1>1, LeafFacts
  <2>2. ~LoopExists(wfm, Request(l.f), l.pos + 1)
    BY <1>1, <2>1 DEF LoopExists
  <2> QED
    BY <1>1, <2>2, SlotLeaf DEF FrameOK
<1> HIDE DEF r
<1>4. CASE r.tag # "panic" /\ Store(l, AsSlot(r))
  <2>1. OthersStay(l) /\ Advance(l) /\ Stored(frame'[l.f], frame[l.f], l.pos, AsSlot(r))
    BY <1>1, <1>3, <1>4, StoreStep
  <2> QED
    BY <1>1, <1>2, <1>4, <2>1, StoreInv
<1>5. CASE ~(r.tag # "panic") /\ Fail(l)
  <2>1. OthersStay(l) /\ Marked(frame'[l.f], frame[l.f]) /\ Unwind(l)
    BY <1>1, <1>3, <1>5, FailStep
  <2> QED
    BY <1>1, <1>2, <1>5, <2>1, FailInv
<1> QED
  BY <1>1, <1>4, <1>5

(* A loop is opened with its whole range left. *)
LEMMA NewFrameOK ==
    ASSUME NEW w, NEW req, NEW k, NEW n \in Nat,
           LoopExists(w, req, k), n = LoopLen(w, req, k)
    PROVE  /\ FrameOK(NewFrame(n), w, req, k)
           /\ NewFrame(n).open /\ NewFrame(n).n = n /\ ~NewFrame(n).bad
           /\ \E r \in NewFrame(n).left : r.lo = 0 /\ r.hi = n
<1> DEFINE fr == NewFrame(n)
<1>1. /\ fr.open = TRUE /\ fr.n = n /\ fr.bad = FALSE /\ fr.left = {Span(0, n)}
      /\ fr.out = [i \in 0 .. n - 1 |-> Unset]
      /\ fr = [open |-> TRUE, n |-> fr.n, left |-> fr.left, bad |-> fr.bad, out |-> fr.out]
  BY DEF NewFrame
<1>2. Span(0, n).lo = 0 /\ Span(0, n).hi = n
  BY DEF Span
<1> HIDE DEF fr
<1>3. \A i \in 0 .. n - 1 : fr.out[i] = Unset
  BY <1>1
<1>4. fr.out = [i \in 0 .. fr.n - 1 |-> fr.out[i]]
  BY <1>1, <1>3
<1>5. FrameShape(fr)
  <2>1. \A r \in fr.left : r.lo = 0 /\ r.hi = n
    BY <1>1, <1>2
  <2>2. \A r \in fr.left : r.lo \in Nat /\ r.hi \in Nat /\ r.lo <= r.hi /\ r.hi <= fr.n
    BY <1>1, <2>1
  <2>3. fr = [open |-> TRUE, n |-> fr.n, left |-> fr.left, bad |-> fr.bad, out |-> fr.out]
    BY <1>1
  <2>4. fr.n \in Nat /\ fr.bad \in BOOLEAN
    BY <1>1
  <2> QED
    BY <1>4, <2>2, <2>3, <2>4 DEF FrameShape
<1>6. FrameOK(fr, w, req, k)
  BY <1>1, <1>3, <1>5 DEF FrameOK
<1> QED
  BY <1>1, <1>2, <1>6 DEF fr

(* A leaf opens the loop of its slot. *)
LEMMA NestInv == ASSUME IInv, NEW l \in leaves, Nest(l) PROVE IInv'
<1> DEFINE c == Child(l)
           req == Request(l.f)
           n == SlotPlan(wfm, req, l.pos + 1).plan.n
<1>1. /\ l.pos < l.hi /\ IsSlotLoop(l.f) /\ PoolStep /\ leaves' = leaves
      /\ SlotPlan(wfm, req, l.pos + 1).tag = "plan"
      /\ Parallel(SlotPlan(wfm, req, l.pos + 1).plan)
      /\ ~frame[c].open /\ frame' = [frame EXCEPT ![c] = NewFrame(n)]
  BY DEF Nest, PoolStep
<1>2. /\ c \in Frames /\ c # l.f /\ l.f = <<l.f[1], 0>>
      /\ c[1] = l.f[1] /\ c[2] = l.pos + 1
      /\ l.pos + 1 \in 1 .. MaxSlots
      /\ l.pos + 1 <= Len(Slots(wfm, req)) /\ Fans(wfm, req)
  BY <1>1, SlotLeaf
<1>3. /\ req \in Requests /\ wfm \in Handles /\ call[l.f[1]].st = "running"
      /\ l.pos \in Nat /\ l.f[1] \in Threads
  BY <1>1, LeafFacts, OpenFrame
<1>4. LoopExists(wfm, req, l.pos + 1) /\ n = LoopLen(wfm, req, l.pos + 1)
  BY <1>1, <1>2, <1>3 DEF LoopExists, LoopLen
<1>5. n \in Nat
  <2>1. Len(Slots(wfm, req)) \in Nat
    BY <1>2, <1>3, <1>4, LoopBounds, SlotsAssumption
  <2>2. l.pos + 1 \in 1 .. Len(Slots(wfm, req))
    BY <1>2, <2>1
  <2> QED
    BY <1>1, <1>3, <2>2, PlansAssumption
<1> HIDE DEF n
<1> DEFINE fr == NewFrame(n)
<1>6. /\ FrameOK(fr, wfm, req, l.pos + 1) /\ fr.open /\ fr.n = n /\ ~fr.bad
      /\ \E r \in fr.left : r.lo = 0 /\ r.hi = n
  BY <1>4, <1>5, NewFrameOK
<1>7. frame' = [frame EXCEPT ![c] = fr]
  BY <1>1
<1> HIDE DEF fr
<1>8. frame = [g \in Frames |-> frame[g]]
  BY DEF IInv, FramesInv
<1>9. /\ frame' = [g \in Frames |-> frame'[g]] /\ frame'[c] = fr
      /\ \A g \in Frames : g # c => frame'[g] = frame[g]
  BY <1>2, <1>7, <1>8
<1>10. CallsInv' /\ ReplyCorrect' /\ wfm' = wfm /\ call' = call
  BY <1>1, PoolStepCalls
<1>11. FramesInv'
  <2> SUFFICES ASSUME NEW g \in Frames
               PROVE  \/ frame'[g] = NoFrame
                      \/ /\ call[g[1]].st = "running"
                         /\ FrameOK(frame'[g], wfm, call[g[1]].req, g[2])
    BY <1>9, <1>10 DEF FramesInv
  <2>1. CASE g = c
    <3>1. call[c[1]].req = req
      BY <1>2 DEF Request
    <3> QED
      BY <1>2, <1>3, <1>6, <1>9, <2>1, <3>1
  <2>2. CASE g # c
    BY <1>9, <2>2 DEF IInv, FramesInv
  <2> QED
    BY <2>1, <2>2
<1>12. LeavesInv'
  <2>1. \A m \in leaves : m.f # c /\ m.f \in Frames
    BY <1>1 DEF IInv, LeavesInv, LeafShape
  <2> QED
    BY <1>1, <1>9, <2>1 DEF IInv, LeavesInv
<1>13. CoveredInv'
  <2> SUFFICES ASSUME NEW g \in Frames, frame'[g].open, ~frame'[g].bad,
                      NEW i \in 0 .. frame'[g].n - 1, frame'[g].out[i] = Unset
               PROVE  Due(g, i)'
    BY DEF CoveredInv
  <2>1. CASE g = c
    <3>1. \A r : r.lo = 0 /\ r.hi = n => r.lo <= i /\ i < r.hi
      BY <1>5, <1>6, <1>9, <2>1
    <3> QED
      BY <1>6, <1>9, <2>1, <3>1 DEF Due
  <2>2. CASE g # c
    <3>1. frame'[g] = frame[g]
      BY <1>9, <2>2
    <3> QED
      BY <1>1, <3>1 DEF IInv, CoveredInv, Due
  <2> QED
    BY <2>1, <2>2
<1>14. NestedInv'
  <2> SUFFICES ASSUME NEW t \in Threads, call[t].st = "running", Fans(wfm, call[t].req)
               PROVE  /\ frame'[<<t, 0>>].open
                      /\ \A k \in 1 .. MaxSlots : frame'[<<t, k>>].open =>
                           \E m \in leaves : m.f = <<t, 0>> /\ m.pos = k - 1 /\ m.pos < m.hi
    BY <1>1, <1>10 DEF NestedInv
  <2>1. \A k \in 0 .. MaxSlots : <<t, k>> \in Frames
    BY DEF Frames
  <2>2. 0 \in 0 .. MaxSlots /\ \A k \in 1 .. MaxSlots : k \in 0 .. MaxSlots
    BY SlotsAssumption
  <2>3. frame'[<<t, 0>>].open
    BY <1>6, <1>9, <2>1, <2>2 DEF IInv, NestedInv
  <2>4. ASSUME NEW k \in 1 .. MaxSlots, frame'[<<t, k>>].open
        PROVE  \E m \in leaves : m.f = <<t, 0>> /\ m.pos = k - 1 /\ m.pos < m.hi
    <3>1. CASE <<t, k>> = c
      <4>1. l.f[1] = t /\ l.pos + 1 = k
        BY <1>2, <3>1
      <4>2. l.f = <<t, 0>> /\ l.pos = k - 1
        BY <1>2, <1>3, <4>1
      <4> QED
        BY <1>1, <4>2
    <3>2. CASE <<t, k>> # c
      <4>1. frame[<<t, k>>].open
        BY <1>9, <2>1, <2>2, <2>4, <3>2
      <4> QED
        BY <4>1 DEF IInv, NestedInv
    <3> QED
      BY <3>1, <3>2
  <2> QED
    BY <2>3, <2>4
<1> QED
  BY <1>10, <1>11, <1>12, <1>13, <1>14 DEF IInv

(* Join, as a change of the leaf's own frame: the loop of its slot, which  *)
(* has finished, is collected.                                             *)
LEMMA JoinStep ==
    ASSUME IInv, NEW l \in leaves, Join(l)
    PROVE  LET s == AsSlot(Collected(Child(l)))
           IN  /\ l.pos < l.hi /\ IsSlotLoop(l.f) /\ PoolStep /\ OthersStay(l)
               /\ frame[Child(l)].open /\ Finished(Child(l))
               /\ \/ /\ frame[Child(l)].bad /\ Unwind(l)
                     /\ Marked(frame'[l.f], frame[l.f])
                  \/ /\ ~frame[Child(l)].bad /\ Advance(l)
                     /\ Stored(frame'[l.f], frame[l.f], l.pos, s)
<1> DEFINE c == Child(l)
           s == AsSlot(Collected(c))
<1>1. /\ l.pos < l.hi /\ IsSlotLoop(l.f) /\ PoolStep
      /\ frame[c].open /\ Finished(c)
      /\ \/ /\ frame[c].bad /\ Unwind(l)
            /\ frame' = [frame EXCEPT ![c] = NoFrame, ![l.f].bad = TRUE]
         \/ /\ ~frame[c].bad /\ Advance(l)
            /\ frame' = [frame EXCEPT ![c] = NoFrame, ![l.f].out[l.pos] = s]
  BY DEF Join, PoolStep
<1>2. /\ c \in Frames /\ c # l.f /\ l.f \in Frames
      /\ c[2] = l.pos + 1 /\ l.pos + 1 # 0
  BY <1>1, SlotLeaf, LeafFacts
<1>3. frame = [g \in Frames |-> frame[g]]
  BY DEF IInv, FramesInv
<1>4. \A m \in leaves : m.f # c
  BY <1>1 DEF Finished
<1> HIDE DEF c, s
<1>5. CASE /\ frame[c].bad /\ Unwind(l)
           /\ frame' = [frame EXCEPT ![c] = NoFrame, ![l.f].bad = TRUE]
  <2>1. /\ frame' = [g \in Frames |-> frame'[g]]
        /\ frame'[c] = NoFrame
        /\ \A g \in Frames : g # l.f /\ g # c => frame'[g] = frame[g]
    BY <1>2, <1>3, <1>5
  <2>2. Marked(frame'[l.f], frame[l.f])
    BY <1>2, <1>3, <1>5 DEF Marked
  <2>3. OthersStay(l)
    BY <1>2, <1>4, <2>1 DEF OthersStay, NoFrame, c
  <2> QED
    BY <1>1, <1>5, <2>2, <2>3 DEF c
<1>6. CASE /\ ~frame[c].bad /\ Advance(l)
           /\ frame' = [frame EXCEPT ![c] = NoFrame, ![l.f].out[l.pos] = s]
  <2>1. /\ frame' = [g \in Frames |-> frame'[g]]
        /\ frame'[c] = NoFrame
        /\ \A g \in Frames : g # l.f /\ g # c => frame'[g] = frame[g]
    BY <1>2, <1>3, <1>6
  <2>2. Stored(frame'[l.f], frame[l.f], l.pos, s)
    BY <1>2, <1>3, <1>6 DEF Stored
  <2>3. OthersStay(l)
    BY <1>2, <1>4, <2>1 DEF OthersStay, NoFrame, c
  <2> QED
    BY <1>1, <1>6, <2>2, <2>3 DEF c, s
<1> QED
  BY <1>1, <1>5, <1>6

(* A leaf collects the finished loop of its slot. *)
LEMMA JoinInv == ASSUME IInv, NEW l \in leaves, Join(l) PROVE IInv'
<1> DEFINE c == Child(l)
           k == l.f[2]
           req == Request(l.f)
           s == AsSlot(Collected(c))
<1>1. /\ l.pos < l.hi /\ IsSlotLoop(l.f) /\ k = 0 /\ PoolStep /\ OthersStay(l)
      /\ frame[c].open /\ Finished(c)
      /\ \/ frame[c].bad /\ Unwind(l) /\ Marked(frame'[l.f], frame[l.f])
         \/ ~frame[c].bad /\ Advance(l) /\ Stored(frame'[l.f], frame[l.f], l.pos, s)
  BY JoinStep DEF IsSlotLoop
<1>2. /\ c \in Frames /\ l.pos + 1 # 0
      /\ FrameOK(frame[c], wfm, req, l.pos + 1)
  BY <1>1, SlotLeaf, LeafFacts
<1>3. Complete(frame[c])
  BY <1>1, <1>2, FinishedIsComplete
<1>4. Collect(frame[c]) = Inline(SlotPlan(wfm, req, l.pos + 1))
  BY <1>2, <1>3, DecodeLoopCollects
<1>5. Collected(c) = Collect(frame[c])
  BY DEF Collected, Collect
<1>6. /\ frame[c].bad => ~Good(wfm, req, k, l.pos)
      /\ ~frame[c].bad => Good(wfm, req, k, l.pos)
      /\ Value(wfm, req, k, l.pos) = s
  <2>1. frame[c].bad => Collected(c).tag = "panic"
    BY DEF Collected, Panic
  <2>2. ~frame[c].bad => Collected(c).tag # "panic"
    BY DEF Collected, Ok
  <2> QED
    BY <1>1, <1>4, <1>5, <2>1, <2>2 DEF Good, Value
<1> HIDE DEF c, s
<1> QED
  BY <1>1, <1>6, FailInv, StoreInv

-----------------------------------------------------------------------------
(* Steps of a calling thread.                                              *)

(* Thread t opens loop k of its request. *)
Opens(t, req, k) ==
    /\ LoopExists(wfm, req, k) /\ LoopLen(wfm, req, k) \in Nat
    /\ Fans(wfm, req) => k = 0
    /\ <<t, k>> \in Frames
    /\ frame' = [frame EXCEPT ![<<t, k>>] = NewFrame(LoopLen(wfm, req, k))]

(* The three ways a call can begin. *)
LEMMA BeginCases ==
    ASSUME IInv, NEW t \in Threads, NEW req \in Requests, Begin(t, req)
    PROVE  \/ /\ frame' = frame /\ ~Fans(wfm, req)
           \/ Opens(t, req, 0)
           \/ Opens(t, req, 1)
<1> DEFINE p == SlotPlan(wfm, req, 1)
<1>1. /\ wfm \in Handles
      /\ 0 \in 0 .. MaxSlots /\ 1 \in 0 .. MaxSlots
      /\ <<t, 0>> \in Frames /\ <<t, 1>> \in Frames
  BY SlotsAssumption DEF IInv, CallsInv, Frames
<1>2. CASE Fans(wfm, req)
  <2>1. frame' = [frame EXCEPT ![<<t, 0>>] = NewFrame(Len(Slots(wfm, req)))]
    BY <1>2 DEF Begin
  <2>2. LoopExists(wfm, req, 0) /\ LoopLen(wfm, req, 0) = Len(Slots(wfm, req))
    BY <1>2 DEF LoopExists, LoopLen
  <2>3. LoopLen(wfm, req, 0) \in Nat
    BY <1>1, <2>2, LoopBounds
  <2>4. Opens(t, req, 0)
    BY <1>1, <2>1, <2>2, <2>3 DEF Opens
  <2> QED
    BY <2>4
<1>3. CASE ~Fans(wfm, req) /\ p.tag = "plan" /\ Parallel(p.plan)
  <2>1. frame' = [frame EXCEPT ![<<t, 1>>] = NewFrame(p.plan.n)]
    BY <1>3 DEF Begin
  <2>2. LoopExists(wfm, req, 1) /\ LoopLen(wfm, req, 1) = p.plan.n
    <3>1. Len(Slots(wfm, req)) = 1
      BY <1>3, OneSlotUnlessFan
    <3> QED
      BY <1>3, <3>1 DEF LoopExists, LoopLen
  <2>3. LoopLen(wfm, req, 1) \in Nat
    BY <1>1, <2>2, LoopBounds
  <2>4. Opens(t, req, 1)
    BY <1>1, <1>3, <2>1, <2>2, <2>3 DEF Opens
  <2> QED
    BY <2>4
<1>4. CASE ~Fans(wfm, req) /\ ~(p.tag = "plan" /\ Parallel(p.plan))
  BY <1>4 DEF Begin
<1> QED
  BY <1>2, <1>3, <1>4

(* A thread enters a call. *)
LEMMA BeginInv ==
    ASSUME IInv, NEW t \in Threads, NEW req \in Requests, Begin(t, req)
    PROVE  IInv'
<1>1. /\ mapped /\ call[t] = Idle /\ call' = [call EXCEPT ![t] = Running(req)]
      /\ wfm' = wfm /\ mapped' = mapped /\ leaves' = leaves
  BY DEF Begin, Ask
<1>2. /\ call' = [u \in Threads |-> call'[u]] /\ call'[t] = Running(req)
      /\ \A u \in Threads : u # t => call'[u] = call[u]
  BY <1>1 DEF IInv, CallsInv
<1>3. /\ Running(req).st = "running" /\ Running(req).req = req /\ Idle.st = "idle"
      /\ ~NoFrame.open
  BY DEF Running, Idle, NoFrame
<1>4. \A g \in Frames : g[1] = t => frame[g] = NoFrame
  BY <1>1, <1>3 DEF IInv, FramesInv
<1>5. \A g \in Frames : g[1] \in Threads /\ g = <<g[1], g[2]>>
  BY DEF Frames
<1>6. \A m \in leaves : m.f \in Frames /\ m.f[1] # t
  BY <1>3, <1>4 DEF IInv, LeavesInv, LeafShape
<1>7. /\ frame' = [g \in Frames |-> frame'[g]]
      /\ \A g \in Frames : g[1] # t => frame'[g] = frame[g]
      /\ \A g \in Frames : g[1] = t =>
           \/ frame'[g] = NoFrame
           \/ /\ FrameOK(frame'[g], wfm, req, g[2])
              /\ ~frame'[g].bad
              /\ \E r \in frame'[g].left : r.lo = 0 /\ r.hi = frame'[g].n
      /\ Fans(wfm, req) =>
           /\ frame'[<<t, 0>>].open
           /\ \A k \in 1 .. MaxSlots : ~frame'[<<t, k>>].open
  <2>1. frame = [g \in Frames |-> frame[g]]
    BY DEF IInv, FramesInv
  <2>2. CASE frame' = frame /\ ~Fans(wfm, req)
    BY <1>4, <2>1, <2>2
  <2>3. CASE Opens(t, req, 0) \/ Opens(t, req, 1)
    <3>1. PICK k \in 0 .. 1 : Opens(t, req, k)
      BY <2>3
    <3> DEFINE fr == NewFrame(LoopLen(wfm, req, k))
               f  == <<t, k>>
    <3>2. /\ FrameOK(fr, wfm, req, k) /\ fr.open /\ ~fr.bad
          /\ \E r \in fr.left : r.lo = 0 /\ r.hi = fr.n
      BY <3>1, NewFrameOK DEF Opens
    <3> HIDE DEF fr
    <3>3. /\ frame' = [g \in Frames |-> frame'[g]] /\ frame'[f] = fr
          /\ \A g \in Frames : g # f => frame'[g] = frame[g]
          /\ f[1] = t /\ f[2] = k
      BY <2>1, <3>1 DEF fr, Opens
    <3>4. Fans(wfm, req) =>
             /\ frame'[<<t, 0>>].open
             /\ \A j \in 1 .. MaxSlots : ~frame'[<<t, j>>].open
      <4> SUFFICES ASSUME Fans(wfm, req)
                   PROVE  /\ frame'[<<t, 0>>].open
                          /\ \A j \in 1 .. MaxSlots : ~frame'[<<t, j>>].open
        OBVIOUS
      <4>1. frame'[<<t, 0>>].open
        BY <3>1, <3>2, <3>3 DEF Opens
      <4>2. ASSUME NEW j \in 1 .. MaxSlots PROVE ~frame'[<<t, j>>].open
        <5>1. <<t, j>> \in Frames /\ <<t, j>> # f /\ <<t, j>>[1] = t
          BY <3>1, SlotsAssumption DEF Frames, Opens
        <5> QED
          BY <1>3, <1>4, <3>3, <5>1
      <4> QED
        BY <4>1, <4>2
    <3>5. \A g \in Frames : g[1] = t =>
           \/ frame'[g] = NoFrame
           \/ /\ FrameOK(frame'[g], wfm, req, g[2])
              /\ ~frame'[g].bad
              /\ \E r \in frame'[g].left : r.lo = 0 /\ r.hi = frame'[g].n
      <4> TAKE g \in Frames
      <4>1. CASE g = f
        BY <3>2, <3>3, <4>1
      <4>2. CASE g # f
        BY <1>4, <3>3, <4>2
      <4> QED
        BY <4>1, <4>2
    <3> QED
      BY <3>3, <3>4, <3>5
  <2> QED
    BY <2>2, <2>3, BeginCases
<1>8. CallsInv'
  <2>1. CallShape(Running(req))
    BY <1>3 DEF CallShape
  <2> QED
    BY <1>1, <1>2, <2>1 DEF IInv, CallsInv
<1>9. FramesInv'
  <2> SUFFICES ASSUME NEW g \in Frames
               PROVE  \/ frame'[g] = NoFrame
                      \/ /\ call'[g[1]].st = "running"
                         /\ FrameOK(frame'[g], wfm, call'[g[1]].req, g[2])
    BY <1>1, <1>7 DEF FramesInv
  <2>1. CASE g[1] = t
    BY <1>2, <1>3, <1>7, <2>1
  <2>2. CASE g[1] # t
    BY <1>2, <1>5, <1>7, <2>2 DEF IInv, FramesInv
  <2> QED
    BY <2>1, <2>2
<1>10. LeavesInv'
  BY <1>1, <1>6, <1>7 DEF IInv, LeavesInv
<1>11. CoveredInv'
  <2> SUFFICES ASSUME NEW g \in Frames, frame'[g].open, ~frame'[g].bad,
                      NEW i \in 0 .. frame'[g].n - 1, frame'[g].out[i] = Unset
               PROVE  Due(g, i)'
    BY DEF CoveredInv
  <2>1. CASE g[1] = t
    <3>1. frame'[g].n \in Nat /\ \E r \in frame'[g].left : r.lo = 0 /\ r.hi = frame'[g].n
      BY <1>3, <1>7, <2>1 DEF FrameOK, FrameShape
    <3>2. \A r : r.lo = 0 /\ r.hi = frame'[g].n => r.lo <= i /\ i < r.hi
      BY <3>1
    <3> QED
      BY <3>1, <3>2 DEF Due
  <2>2. CASE g[1] # t
    <3>1. frame'[g] = frame[g]
      BY <1>7, <2>2
    <3> QED
      BY <1>1, <3>1 DEF IInv, CoveredInv, Due
  <2> QED
    BY <2>1, <2>2
<1>12. NestedInv'
  <2> SUFFICES ASSUME NEW u \in Threads, call'[u].st = "running", Fans(wfm, call'[u].req)
               PROVE  /\ frame'[<<u, 0>>].open
                      /\ \A k \in 1 .. MaxSlots : frame'[<<u, k>>].open =>
                           \E m \in leaves : m.f = <<u, 0>> /\ m.pos = k - 1 /\ m.pos < m.hi
    BY <1>1 DEF NestedInv
  <2>1. CASE u = t
    BY <1>2, <1>3, <1>7, <2>1
  <2>2. CASE u # t
    <3>1. call'[u] = call[u]
      BY <1>2, <2>2
    <3>2. \A k \in 0 .. MaxSlots : frame'[<<u, k>>] = frame[<<u, k>>]
      BY <1>7, <2>2 DEF Frames
    <3>3. 0 \in 0 .. MaxSlots /\ \A k \in 1 .. MaxSlots : k \in 0 .. MaxSlots
      BY SlotsAssumption
    <3> QED
      BY <3>1, <3>2, <3>3 DEF IInv, NestedInv
  <2> QED
    BY <2>1, <2>2
<1>13. ReplyCorrect'
  <2> SUFFICES ASSUME NEW u \in Threads, call'[u].st = "done"
               PROVE  call'[u].reply = Expected(wfm, call'[u].req)
    BY <1>1 DEF ReplyCorrect
  <2>1. u # t
    BY <1>2, <1>3
  <2> QED
    BY <1>2, <2>1 DEF IInv, ReplyCorrect
<1> QED
  BY <1>8, <1>9, <1>10, <1>11, <1>12, <1>13 DEF IInv

(* What a call that may be answered has computed: its reply is the         *)
(* sequential one, and no other frame and no leaf of the call is left.     *)
LEMMA AnswerFacts ==
    ASSUME IInv, NEW t \in Threads, call[t].st = "running",
           NEW f, f = (IF Fans(wfm, call[t].req) THEN <<t, 0>> ELSE <<t, 1>>),
           frame[f].open => Finished(f)
    PROVE  /\ f \in Frames
           /\ IF Fans(wfm, call[t].req)
              THEN AllSlots(Collected(f)) = Expected(wfm, call[t].req)
              ELSE OneSlot(call[t].req,
                     IF frame[f].open THEN Collected(f)
                     ELSE Inline(SlotPlan(wfm, call[t].req, 1)))
                   = Expected(wfm, call[t].req)
           /\ \A g \in Frames : g[1] = t /\ g # f => ~frame[g].open
           /\ \A m \in leaves : m.f[1] # t
<1> DEFINE req == call[t].req
           fan == Fans(wfm, req)
<1>1. wfm \in Handles /\ 0 \in 0 .. MaxSlots /\ 1 \in 0 .. MaxSlots
  BY SlotsAssumption DEF IInv, CallsInv
<1>2. f \in Frames /\ f[1] = t /\ (fan => f[2] = 0) /\ (~fan => f[2] = 1)
  BY <1>1 DEF Frames
<1>3. req \in Requests
  <2>1. CallShape(call[t]) /\ Idle.st # "running"
    BY DEF IInv, CallsInv, Idle
  <2> QED
    BY <2>1 DEF CallShape
<1>4. Collected(f) = Collect(frame[f])
  BY DEF Collected, Collect
<1>5. frame[f].open => Complete(frame[f]) /\ FrameOK(frame[f], wfm, req, f[2])
  BY <1>2, FinishedIsComplete, OpenFrame
<1>6. fan => frame[f].open
  BY DEF IInv, NestedInv
<1>7. fan => AllSlots(Collected(f)) = Expected(wfm, req)
  <2> SUFFICES ASSUME fan PROVE AllSlots(Collected(f)) = Expected(wfm, req)
    OBVIOUS
  <2>1. FrameOK(frame[f], wfm, req, 0) /\ Complete(frame[f])
    BY <1>2, <1>5, <1>6
  <2> QED
    BY <1>1, <1>3, <1>4, <2>1, SlotLoopCollects
<1>8. ~fan => OneSlot(req, IF frame[f].open THEN Collected(f) ELSE Inline(SlotPlan(wfm, req, 1)))
                = Expected(wfm, req)
  <2> SUFFICES ASSUME ~fan
               PROVE  OneSlot(req, IF frame[f].open THEN Collected(f)
                                   ELSE Inline(SlotPlan(wfm, req, 1))) = Expected(wfm, req)
    OBVIOUS
  <2>1. OneSlot(req, Inline(SlotPlan(wfm, req, 1))) = Expected(wfm, req)
    BY <1>1, <1>3, OneSlotAnswers
  <2>2. frame[f].open => Collected(f) = Inline(SlotPlan(wfm, req, 1))
    <3> SUFFICES ASSUME frame[f].open PROVE Collected(f) = Inline(SlotPlan(wfm, req, 1))
      OBVIOUS
    <3>1. FrameOK(frame[f], wfm, req, 1) /\ Complete(frame[f])
      BY <1>2, <1>5
    <3>2. Collect(frame[f]) = Inline(SlotPlan(wfm, req, 1))
      BY <3>1, DecodeLoopCollects
    <3> QED
      BY <1>4, <3>2
  <2> QED
    BY <2>1, <2>2
<1>9. \A g \in Frames : g[1] = t /\ g # f => ~frame[g].open
  <2> SUFFICES ASSUME NEW g \in Frames, g[1] = t, g # f, frame[g].open PROVE FALSE
    OBVIOUS
  <2>1. g[2] \in 0 .. MaxSlots /\ g = <<t, g[2]>> /\ FrameOK(frame[g], wfm, req, g[2])
    BY OpenFrame
  <2>2. CASE fan
    <3>1. g[2] \in 1 .. MaxSlots
      BY <1>2, <2>1, <2>2, SlotsAssumption
    <3>2. frame[<<t, g[2]>>].open
      BY <2>1
    <3>3. \E m \in leaves : m.f = <<t, 0>>
      BY <2>2, <3>1, <3>2 DEF IInv, NestedInv
    <3> QED
      BY <1>6, <2>2, <3>3 DEF Finished
  <2>3. CASE ~fan
    <3>1. Len(Slots(wfm, req)) = 1
      BY <2>3, OneSlotUnlessFan
    <3>2. LoopExists(wfm, req, g[2])
      BY <2>1 DEF FrameOK
    <3>3. g[2] = 1
      BY <2>1, <2>3, <3>1, <3>2, SlotsAssumption DEF LoopExists
    <3> QED
      BY <2>1, <2>3, <3>3
  <2> QED
    BY <2>2, <2>3
<1>10. \A m \in leaves : m.f[1] # t
  <2> SUFFICES ASSUME NEW m \in leaves, m.f[1] = t PROVE FALSE
    OBVIOUS
  <2>1. m.f \in Frames /\ frame[m.f].open
    BY DEF IInv, LeavesInv, LeafShape
  <2>2. m.f = f
    BY <1>9, <2>1
  <2> QED
    BY <2>1, <2>2 DEF Finished
<1> QED
  BY <1>2, <1>7, <1>8, <1>9, <1>10

(* A call returns. *)
LEMMA AnswerInv == ASSUME IInv, NEW t \in Threads, Answer(t) PROVE IInv'
<1> DEFINE req == call[t].req
           f   == IF Fans(wfm, req) THEN <<t, 0>> ELSE <<t, 1>>
           r   == IF Fans(wfm, req) THEN AllSlots(Collected(f))
                  ELSE OneSlot(req, IF frame[f].open THEN Collected(f)
                                    ELSE Inline(SlotPlan(wfm, req, 1)))
<1>1. /\ call[t].st = "running" /\ (frame[f].open => Finished(f))
      /\ call' = [call EXCEPT ![t] = Done(req, r)]
      /\ frame' = [frame EXCEPT ![f] = NoFrame]
      /\ wfm' = wfm /\ mapped' = mapped /\ leaves' = leaves
  BY DEF Answer
<1>2. /\ f \in Frames /\ f[1] = t /\ r = Expected(wfm, req)
      /\ \A g \in Frames : g[1] = t /\ g # f => ~frame[g].open
      /\ \A m \in leaves : m.f[1] # t
  BY <1>1, AnswerFacts
<1>3. req \in Requests
  <2>1. CallShape(call[t]) /\ Idle.st # "running"
    BY DEF IInv, CallsInv, Idle
  <2> QED
    BY <1>1, <2>1 DEF CallShape
<1> HIDE DEF f, r
<1>4. /\ call' = [u \in Threads |-> call'[u]] /\ call'[t] = Done(req, r)
      /\ \A u \in Threads : u # t => call'[u] = call[u]
  BY <1>1 DEF IInv, CallsInv
<1>5. /\ Done(req, r).st = "done" /\ Done(req, r).req = req /\ Done(req, r).reply = r
      /\ ~NoFrame.open
  BY DEF Done, NoFrame
<1>6. /\ frame' = [g \in Frames |-> frame'[g]] /\ frame'[f] = NoFrame
      /\ \A g \in Frames : g # f => frame'[g] = frame[g]
  BY <1>1, <1>2 DEF IInv, FramesInv
<1>7. \A g \in Frames : g[1] = t => frame'[g] = NoFrame
  <2> TAKE g \in Frames
  <2>1. CASE g = f
    BY <1>6, <2>1
  <2>2. ASSUME g # f, g[1] = t PROVE frame'[g] = NoFrame
    <3>1. ~frame[g].open /\ frame'[g] = frame[g]
      BY <1>2, <1>6, <2>2
    <3>2. FrameOK(frame[g], wfm, call[g[1]].req, g[2]) => frame[g].open
      BY DEF FrameOK, FrameShape
    <3> QED
      BY <3>1, <3>2 DEF IInv, FramesInv
  <2> QED
    BY <2>1, <2>2
<1>8. \A g \in Frames : g[1] # t => frame'[g] = frame[g]
  BY <1>2, <1>6
<1>9. \A g \in Frames : g[1] \in Threads
  BY DEF Frames
<1>10. CallsInv'
  <2>1. CallShape(Done(req, r))
    BY <1>3, <1>5 DEF CallShape
  <2> QED
    BY <1>1, <1>4, <1>5, <2>1 DEF IInv, CallsInv
<1>11. FramesInv'
  <2> SUFFICES ASSUME NEW g \in Frames
               PROVE  \/ frame'[g] = NoFrame
                      \/ /\ call'[g[1]].st = "running"
                         /\ FrameOK(frame'[g], wfm, call'[g[1]].req, g[2])
    BY <1>1, <1>6 DEF FramesInv
  <2>1. CASE g[1] = t
    BY <1>7, <2>1
  <2>2. CASE g[1] # t
    <3>1. frame'[g] = frame[g] /\ call'[g[1]] = call[g[1]]
      BY <1>4, <1>8, <1>9, <2>2
    <3> QED
      BY <3>1 DEF IInv, FramesInv
  <2> QED
    BY <2>1, <2>2
<1>12. LeavesInv'
  <2>1. \A m \in leaves : frame'[m.f] = frame[m.f]
    BY <1>2, <1>8 DEF IInv, LeavesInv, LeafShape
  <2> QED
    BY <1>1, <2>1 DEF IInv, LeavesInv
<1>13. CoveredInv'
  <2> SUFFICES ASSUME NEW g \in Frames, frame'[g].open, ~frame'[g].bad,
                      NEW i \in 0 .. frame'[g].n - 1, frame'[g].out[i] = Unset
               PROVE  Due(g, i)'
    BY DEF CoveredInv
  <2>1. frame'[g] = frame[g]
    BY <1>5, <1>7, <1>8
  <2> QED
    BY <1>1, <2>1 DEF IInv, CoveredInv, Due
<1>14. NestedInv'
  <2> SUFFICES ASSUME NEW u \in Threads, call'[u].st = "running", Fans(wfm, call'[u].req)
               PROVE  /\ frame'[<<u, 0>>].open
                      /\ \A k \in 1 .. MaxSlots : frame'[<<u, k>>].open =>
                           \E m \in leaves : m.f = <<u, 0>> /\ m.pos = k - 1 /\ m.pos < m.hi
    BY <1>1 DEF NestedInv
  <2>1. u # t
    BY <1>4, <1>5
  <2>2. call'[u] = call[u]
    BY <1>4, <2>1
  <2>3. \A k \in 0 .. MaxSlots : frame'[<<u, k>>] = frame[<<u, k>>]
    BY <1>8, <2>1 DEF Frames
  <2>4. 0 \in 0 .. MaxSlots /\ \A k \in 1 .. MaxSlots : k \in 0 .. MaxSlots
    BY SlotsAssumption
  <2> QED
    BY <2>2, <2>3, <2>4 DEF IInv, NestedInv
<1>15. ReplyCorrect'
  <2> SUFFICES ASSUME NEW u \in Threads, call'[u].st = "done"
               PROVE  call'[u].reply = Expected(wfm, call'[u].req)
    BY <1>1 DEF ReplyCorrect
  <2>1. CASE u = t
    BY <1>2, <1>4, <1>5, <2>1
  <2>2. CASE u # t
    BY <1>4, <2>2 DEF IInv, ReplyCorrect
  <2> QED
    BY <2>1, <2>2
<1> QED
  BY <1>10, <1>11, <1>12, <1>13, <1>14, <1>15 DEF IInv

-----------------------------------------------------------------------------
(* The theorems.                                                           *)

(* Every step of every thread and worker keeps the inductive invariant. *)
LEMMA NextInv == IInv /\ [Next]_vars => IInv'
<1> SUFFICES ASSUME IInv, [Next]_vars PROVE IInv'
  OBVIOUS
<1>1. ASSUME NEW t \in Threads, Answer(t) PROVE IInv'
  BY <1>1, AnswerInv
<1>2. ASSUME NEW t \in Threads, NEW req \in Requests, Begin(t, req) PROVE IInv'
  BY <1>2, BeginInv
<1>3. ASSUME Drop PROVE IInv'
  BY <1>3, DropInv
<1>4. ASSUME NEW f \in Frames, NEW r \in frame[f].left, Split(f, r) PROVE IInv'
  BY <1>4, SplitInv
<1>5. ASSUME NEW w \in Workers, Work(w) PROVE IInv'
  <2>1. ASSUME NEW f \in Frames, NEW r \in frame[f].left, Take(w, f, r) PROVE IInv'
    BY <2>1, TakeInv
  <2>2. ASSUME NEW l \in leaves, Walk(l) PROVE IInv'
    BY <2>2, DecodeSampleInv, DecodeSlotInv, NestInv, JoinInv, ReturnInv DEF Walk
  <2> QED
    BY <1>5, <2>1, <2>2 DEF Work
<1>6. CASE UNCHANGED vars
  <2>1. /\ wfm' = wfm /\ call' = call /\ mapped' = mapped
        /\ frame' = frame /\ leaves' = leaves
    BY <1>6 DEF vars
  <2>2. CallsInv' /\ ReplyCorrect'
    BY <2>1, PoolStepCalls DEF PoolStep
  <2>3. FramesInv' /\ LeavesInv'
    BY <2>1 DEF IInv, FramesInv, LeavesInv
  <2>4. CoveredInv' /\ NestedInv'
    BY <2>1 DEF IInv, CoveredInv, Due, NestedInv
  <2> QED
    BY <2>2, <2>3, <2>4 DEF IInv
<1> QED
  BY <1>1, <1>2, <1>3, <1>4, <1>5, <1>6 DEF Next

LEMMA Inductive == Safety => []IInv
<1>1. Init => IInv
  BY InitInv
<1>2. IInv /\ [Next]_vars => IInv'
  BY NextInv
<1> QED
  BY <1>1, <1>2, PTL DEF Safety

(* The state keeps its types: loops hold ranges and results inside their   *)
(* length, and workers walk inside the ranges they took (sample.rs:162-198 *)
(* and the par_iter loops of parser.rs).                                   *)
THEOREM TypeCorrect == Safety => []TypeOK
<1>1. IInv => TypeOK
  <2> SUFFICES ASSUME IInv PROVE TypeOK
    OBVIOUS
  <2>1. wfm \in Handles /\ mapped \in BOOLEAN
    BY DEF IInv, CallsInv
  <2>2. ASSUME NEW t \in Threads
        PROVE  /\ call[t].st \in {"idle", "running", "done"}
               /\ call[t].st # "idle" => call[t].req \in Requests
    <3>1. CallShape(call[t]) /\ Idle.st = "idle"
      BY DEF IInv, CallsInv, Idle
    <3> QED
      BY <3>1 DEF CallShape
  <2>3. ASSUME NEW f \in Frames, frame[f].open
        PROVE  /\ frame[f].n \in Nat /\ frame[f].bad \in BOOLEAN
               /\ DOMAIN frame[f].out = 0 .. frame[f].n - 1
               /\ \A r \in frame[f].left : r.lo \in 0 .. r.hi /\ r.hi \in 0 .. frame[f].n
    <3>1. FrameShape(frame[f])
      BY <2>3, OpenFrame DEF FrameOK
    <3> QED
      BY <3>1 DEF FrameShape
  <2>4. ASSUME NEW l \in leaves
        PROVE  l.w \in Workers /\ l.f \in Frames /\ l.pos \in 0 .. l.hi /\ l.hi \in Nat
    BY DEF IInv, LeavesInv, LeafShape
  <2> QED
    BY <2>1, <2>2, <2>3, <2>4 DEF TypeOK
<1> QED
  BY <1>1, Inductive, PTL

(* Whatever threads, workers, nested loops and panics interleave, a call   *)
(* returns what the same call returns when it runs alone (lib.rs:97, 106). *)
THEOREM Replies == Safety => []ReplyCorrect
<1>1. IInv => ReplyCorrect
  BY DEF IInv
<1> QED
  BY <1>1, Inductive, PTL

(* No range of a loop outlives the call it was opened for or the mapping   *)
(* of the file: the closures of sample.rs:162-198 and parser.rs:447 borrow *)
(* both.                                                                   *)
THEOREM Borrowed == Safety => []WorkIsBorrowed
<1>1. IInv => WorkIsBorrowed
  <2> SUFFICES ASSUME IInv PROVE WorkIsBorrowed
    OBVIOUS
  <2>1. ASSUME NEW f \in Frames, frame[f].open
        PROVE  mapped /\ call[f[1]].st = "running"
    <3>1. call[f[1]].st = "running" /\ f[1] \in Threads
      BY <2>1, OpenFrame
    <3> QED
      BY <3>1 DEF IInv, CallsInv
  <2>2. ASSUME NEW l \in leaves
        PROVE  mapped /\ call[l.f[1]].st = "running" /\ frame[l.f].open
    <3>1. l.f \in Frames /\ frame[l.f].open
      BY DEF IInv, LeavesInv, LeafShape
    <3> QED
      BY <2>1, <3>1
  <2> QED
    BY <2>1, <2>2 DEF WorkIsBorrowed
<1> QED
  BY <1>1, Inductive, PTL

(* Concurrent calls implement the atomic ones of CallSpec: a call takes    *)
(* effect where it is answered, everything the pool does is a stutter.     *)
THEOREM Implements == Safety => ImplementsCalls
<1>1. Init => CallInit
  BY DEF Init
<1>2. IInv /\ [Next]_vars => [CallNext]_callVars
  <2> SUFFICES ASSUME IInv, [Next]_vars PROVE CallNext \/ UNCHANGED <<wfm, call>>
    BY DEF callVars
  <2>1. ASSUME NEW t \in Threads, Answer(t) PROVE CallNext
    <3> DEFINE req == call[t].req
               f   == IF Fans(wfm, req) THEN <<t, 0>> ELSE <<t, 1>>
               r   == IF Fans(wfm, req) THEN AllSlots(Collected(f))
                      ELSE OneSlot(req, IF frame[f].open THEN Collected(f)
                                        ELSE Inline(SlotPlan(wfm, req, 1)))
    <3>1. /\ call[t].st = "running" /\ (frame[f].open => Finished(f))
          /\ call' = [call EXCEPT ![t] = Done(req, r)] /\ wfm' = wfm
      BY <2>1 DEF Answer
    <3>2. r = Expected(wfm, req)
      BY <3>1, AnswerFacts
    <3> HIDE DEF f, r
    <3>3. Reply(t)
      BY <3>1, <3>2 DEF Reply
    <3> QED
      BY <3>3 DEF CallNext
  <2>2. ASSUME NEW t \in Threads, NEW req \in Requests, Begin(t, req) PROVE CallNext
    <3>1. Ask(t, req)
      BY <2>2 DEF Begin
    <3> QED
      BY <3>1 DEF CallNext
  <2>3. ASSUME Drop PROVE UNCHANGED <<wfm, call>>
    BY <2>3 DEF Drop
  <2>4. ASSUME NEW f \in Frames, NEW r \in frame[f].left, Split(f, r)
        PROVE  UNCHANGED <<wfm, call>>
    BY <2>4 DEF Split
  <2>5. ASSUME NEW w \in Workers, Work(w) PROVE UNCHANGED <<wfm, call>>
    BY <2>5 DEF Work, Take, Walk, DecodeSample, DecodeSlot, Nest, Join, Return
  <2>6. CASE UNCHANGED vars
    BY <2>6 DEF vars
  <2> QED
    BY <2>1, <2>2, <2>3, <2>4, <2>5, <2>6 DEF Next
<1> QED
  BY <1>1, <1>2, Inductive, PTL DEF Safety, ImplementsCalls, CallSafety

-----------------------------------------------------------------------------
(* The pool: every index of a parallel loop is in one place, a worker's    *)
(* ranges form a stack of which all but the top wait for a nested loop,    *)
(* results stay, and the pool does not come to a halt while a call is      *)
(* running. The invariant above says that an index which is not stored is  *)
(* still somebody's; PoolInv adds that it is nobody else's. The stack      *)
(* needs it: two leaves at one slot could collect each other's loop.       *)
InRange(r, i) == r.lo <= i /\ i < r.hi
Ahead(l, i)   == l.pos <= i /\ i < l.hi

(* In a frame walked by the leaves L no index belongs to two of its ranges *)
(* and leaves, and none that belongs to one is stored.                     *)
Alone(fr, L) ==
    /\ \A r \in fr.left, i \in Nat : InRange(r, i) =>
         /\ fr.out[i] = Unset
         /\ \A q \in fr.left : InRange(q, i) => q = r
         /\ \A l \in L : ~Ahead(l, i)
    /\ \A l \in L, i \in Nat : Ahead(l, i) =>
         /\ fr.out[i] = Unset
         /\ \A m \in L : Ahead(m, i) => m = l

Walkers(f) == {l \in leaves : l.f = f}
AloneInv == \A f \in Frames : frame[f].open => Alone(frame[f], Walkers(f))

(* The depths of a worker's leaves are those of a stack. *)
OwnLeaves(w) == {l \in leaves : l.w = w}
DepthsInv ==
    /\ IsFiniteSet(leaves)
    /\ \A l \in leaves : l.d \in Nat /\ 1 <= l.d /\ l.d <= Depth(l.w)
    /\ \A l, m \in leaves : l.w = m.w /\ l.d = m.d => l = m

PoolInv == IInv /\ AloneInv /\ DepthsInv /\ BelowTopWaits

-----------------------------------------------------------------------------
(* What a step does to one frame and the leaves that walk it.              *)

(* Leaves that end, and frames that change elsewhere. *)
LEMMA AloneFewer ==
    ASSUME NEW fr, NEW u, NEW L, NEW M, Alone(fr, L), M \subseteq L,
           u.left \subseteq fr.left, u.out = fr.out
    PROVE  Alone(u, M)
  BY DEF Alone

LEMMA AloneNew ==
    ASSUME NEW n \in Nat
    PROVE  Alone(NewFrame(n), {})
<1> DEFINE fr == NewFrame(n)
<1>1. fr.left = {Span(0, n)} /\ fr.out = [i \in 0 .. n - 1 |-> Unset]
  BY DEF NewFrame
<1>2. \A r \in fr.left : r = Span(0, n) /\ r.lo = 0 /\ r.hi = n
  BY <1>1 DEF Span
<1>3. \A i \in Nat : i < n => fr.out[i] = Unset
  BY <1>1
<1> HIDE DEF fr
<1> QED
  BY <1>2, <1>3 DEF Alone, InRange, fr

(* A range is halved. *)
LEMMA AloneSplit ==
    ASSUME NEW fr, NEW L, Alone(fr, L), NEW r \in fr.left, NEW mid \in Nat,
           r.lo \in Nat, r.hi \in Nat, r.lo <= mid, mid <= r.hi,
           NEW u, u.left = (fr.left \ {r}) \cup {Span(r.lo, mid), Span(mid, r.hi)},
           u.out = fr.out
    PROVE  Alone(u, L)
<1> DEFINE a == Span(r.lo, mid)
           b == Span(mid, r.hi)
<1>1. a.lo = r.lo /\ a.hi = mid /\ b.lo = mid /\ b.hi = r.hi
  BY DEF Span
<1>2. \A i \in Nat : /\ InRange(r, i) <=> InRange(a, i) \/ InRange(b, i)
                     /\ ~(InRange(a, i) /\ InRange(b, i))
  BY <1>1 DEF InRange
<1>3. u.left = (fr.left \ {r}) \cup {a, b}
  OBVIOUS
<1> HIDE DEF a, b
<1>4. ASSUME NEW q \in u.left, NEW i \in Nat, InRange(q, i)
      PROVE  /\ u.out[i] = Unset
             /\ \A p \in u.left : InRange(p, i) => p = q
             /\ \A l \in L : ~Ahead(l, i)
  <2>1. CASE q \in fr.left /\ q # r
    <3>1. ~InRange(r, i)
      BY <1>4, <2>1 DEF Alone
    <3> QED
      BY <1>2, <1>3, <1>4, <2>1, <3>1 DEF Alone
  <2>2. CASE q \in {a, b}
    <3>1. InRange(r, i)
      BY <1>2, <1>4, <2>2
    <3>2. \A p \in fr.left \ {r} : ~InRange(p, i)
      BY <3>1 DEF Alone
    <3> QED
      BY <1>2, <1>3, <1>4, <2>2, <3>1, <3>2 DEF Alone
  <2> QED
    BY <1>3, <2>1, <2>2
<1>5. ASSUME NEW l \in L, NEW i \in Nat, Ahead(l, i)
      PROVE  u.out[i] = Unset /\ \A m \in L : Ahead(m, i) => m = l
  BY <1>5 DEF Alone
<1> QED
  BY <1>4, <1>5 DEF Alone

(* A range becomes a leaf. *)
LEMMA AloneTake ==
    ASSUME NEW fr, NEW L, Alone(fr, L), NEW r \in fr.left,
           NEW n, n.pos = r.lo, n.hi = r.hi,
           NEW u, u.left = fr.left \ {r}, u.out = fr.out
    PROVE  Alone(u, L \cup {n})
<1>1. \A i \in Nat : Ahead(n, i) <=> InRange(r, i)
  BY DEF Ahead, InRange
<1>2. ASSUME NEW q \in u.left, NEW i \in Nat, InRange(q, i)
      PROVE  /\ u.out[i] = Unset
             /\ \A p \in u.left : InRange(p, i) => p = q
             /\ \A l \in L \cup {n} : ~Ahead(l, i)
  BY <1>1, <1>2 DEF Alone
<1>3. ASSUME NEW l \in L \cup {n}, NEW i \in Nat, Ahead(l, i)
      PROVE  u.out[i] = Unset /\ \A m \in L \cup {n} : Ahead(m, i) => m = l
  BY <1>1, <1>3 DEF Alone
<1> QED
  BY <1>2, <1>3 DEF Alone

(* A leaf stores the index it stands at and goes on to the next. *)
LEMMA AloneStore ==
    ASSUME NEW fr, NEW L, Alone(fr, L), NEW l \in L, l.pos \in Nat, l.hi \in Nat, l.pos < l.hi,
           NEW n, n.pos = l.pos + 1, n.hi = l.hi,
           NEW size \in Nat, \A r \in fr.left : r.hi \in Nat /\ r.hi <= size,
           \A m \in L : m.hi \in Nat /\ m.hi <= size,
           NEW u, u.left = fr.left,
           \A i \in Nat : i < size /\ i # l.pos => u.out[i] = fr.out[i]
    PROVE  Alone(u, (L \ {l}) \cup {n})
<1>1. \A i \in Nat : Ahead(l, i) <=> i = l.pos \/ Ahead(n, i)
  BY DEF Ahead
<1>2. \A i \in Nat : Ahead(n, i) => i # l.pos
  BY DEF Ahead
<1>3. Ahead(l, l.pos)
  BY DEF Ahead
<1>4. ASSUME NEW q \in u.left, NEW i \in Nat, InRange(q, i)
      PROVE  /\ u.out[i] = Unset
             /\ \A p \in u.left : InRange(p, i) => p = q
             /\ \A m \in (L \ {l}) \cup {n} : ~Ahead(m, i)
  <2>1. i # l.pos /\ i < size
    BY <1>3, <1>4 DEF Alone, InRange
  <2> QED
    BY <1>1, <1>4, <2>1 DEF Alone
<1>5. ASSUME NEW m \in (L \ {l}) \cup {n}, NEW i \in Nat, Ahead(m, i)
      PROVE  u.out[i] = Unset /\ \A k \in (L \ {l}) \cup {n} : Ahead(k, i) => k = m
  <2> i < size
    BY <1>5 DEF Ahead
  <2>1. CASE m = n
    BY <1>1, <1>2, <1>5, <2>1 DEF Alone
  <2>2. CASE m \in L \ {l}
    <3>1. ~Ahead(l, i)
      BY <1>5, <2>2 DEF Alone
    <3> QED
      BY <1>1, <1>5, <2>2, <3>1 DEF Alone
  <2> QED
    BY <1>5, <2>1, <2>2
<1> QED
  BY <1>4, <1>5 DEF Alone

-----------------------------------------------------------------------------
(* The steps of a leaf, sorted by what they do to the leaf.                *)

(* It is done with the index it stands at: stored, or a panic ends it. No  *)
(* frame moves but its own and that of its slot.                           *)
Settles(l) ==
    /\ OnTop(l) /\ l.pos < l.hi /\ PoolStep /\ OthersStay(l)
    /\ \A g \in Frames : g # l.f /\ ~(IsSlotLoop(l.f) /\ g = Child(l)) => frame'[g] = frame[g]
    /\ \/ Advance(l) /\ \E v : Stored(frame'[l.f], frame[l.f], l.pos, v)
       \/ Unwind(l) /\ Marked(frame'[l.f], frame[l.f])

LEMMA WalkCases ==
    ASSUME IInv, NEW l \in leaves, Walk(l)
    PROVE  Settles(l) \/ Nest(l) \/ Return(l)
<1> DEFINE Still == \A g \in Frames : g # l.f /\ ~(IsSlotLoop(l.f) /\ g = Child(l))
                                      => frame'[g] = frame[g]
<1>0. frame = [g \in Frames |-> frame[g]]
  BY DEF IInv, FramesInv
<1>4. ASSUME (\E v : Store(l, v)) \/ Fail(l) PROVE Still
  BY <1>0, <1>4 DEF Store, Fail
<1>5. ASSUME Join(l) PROVE Still
  <2>1. IsSlotLoop(l.f) /\ \E u : frame' = [frame EXCEPT ![Child(l)] = NoFrame, ![l.f] = u]
    BY <1>5 DEF Join
  <2> QED
    BY <1>0, <2>1
<1>1. ASSUME DecodeSample(l) PROVE Settles(l)
  <2>1. /\ OnTop(l) /\ l.pos < l.hi /\ ~IsSlotLoop(l.f) /\ PoolStep
        /\ (\E v : Store(l, v)) \/ Fail(l)
    BY <1>1 DEF DecodeSample, PoolStep
  <2> QED
    BY <1>4, <2>1, StoreStep, FailStep DEF Settles
<1>2. ASSUME DecodeSlot(l) PROVE Settles(l)
  <2> DEFINE p == SlotPlan(wfm, Request(l.f), l.pos + 1)
  <2>1. /\ OnTop(l) /\ l.pos < l.hi /\ IsSlotLoop(l.f) /\ PoolStep
        /\ ~(p.tag = "plan" /\ Parallel(p.plan))
        /\ (\E v : Store(l, v)) \/ Fail(l)
    BY <1>2 DEF DecodeSlot, PoolStep
  <2>2. ~frame[Child(l)].open
    <3> SUFFICES ASSUME frame[Child(l)].open PROVE FALSE
      OBVIOUS
    <3>1. LoopExists(wfm, Request(l.f), l.pos + 1) /\ l.pos + 1 # 0
      BY <2>1, SlotLeaf, LeafFacts DEF FrameOK
    <3> QED
      BY <2>1, <3>1 DEF LoopExists
  <2> QED
    BY <1>4, <2>1, <2>2, StoreStep, FailStep DEF Settles
<1>3. ASSUME Join(l) PROVE Settles(l)
  BY <1>3, <1>5, JoinStep DEF Settles, Join
<1> QED
  BY <1>1, <1>2, <1>3 DEF Walk

(* The leaf after it. *)
LEMMA NextLeaf ==
    ASSUME NEW l, LeafShape(l)
    PROVE  LET n == [l EXCEPT !.pos = @ + 1]
           IN  /\ n.w = l.w /\ n.d = l.d /\ n.f = l.f /\ n.hi = l.hi
               /\ n.pos = l.pos + 1 /\ n # l
<1>1. l = [x \in LeafFields |-> l[x]] /\ l.pos \in Nat
  BY DEF LeafShape
<1>2. \A x \in LeafFields : x # "pos" => [l EXCEPT !.pos = @ + 1][x] = l[x]
  BY <1>1
<1>3. [l EXCEPT !.pos = @ + 1].pos = l.pos + 1
  BY <1>1 DEF LeafFields
<1> QED
  BY <1>1, <1>2, <1>3 DEF LeafFields

(* The length of a nested loop. *)
LEMMA NestedLength ==
    ASSUME IInv, NEW l \in leaves, Nest(l)
    PROVE  /\ SlotPlan(wfm, Request(l.f), l.pos + 1).plan.n \in Nat
           /\ Child(l) \in Frames
<1> DEFINE req == Request(l.f)
<1>1. /\ l.pos < l.hi /\ IsSlotLoop(l.f) /\ SlotPlan(wfm, req, l.pos + 1).tag = "plan"
      /\ Parallel(SlotPlan(wfm, req, l.pos + 1).plan)
  BY DEF Nest
<1>2. /\ l.pos + 1 \in 1 .. MaxSlots /\ l.pos + 1 <= Len(Slots(wfm, req))
      /\ Child(l) \in Frames /\ req \in Requests /\ wfm \in Handles
      /\ MaxSlots \in Nat
  BY <1>1, SlotLeaf, LeafFacts, SlotsAssumption
<1> HIDE DEF req
<1>3. LoopExists(wfm, req, l.pos + 1) /\ l.pos + 1 \in 0 .. MaxSlots /\ l.pos + 1 # 0
  BY <1>1, <1>2 DEF LoopExists, req
<1>4. LoopLen(wfm, req, l.pos + 1) \in Nat
  BY <1>2, <1>3, LoopBounds
<1> QED
  BY <1>2, <1>3, <1>4 DEF LoopLen, req

-----------------------------------------------------------------------------
(* Every index in one place.                                               *)

(* Frames that stay and leaves that stay or end. *)
LEMMA AloneStay ==
    ASSUME AloneInv, leaves' \subseteq leaves,
           \A f \in Frames : frame'[f].open => frame'[f] = frame[f]
    PROVE  AloneInv'
<1> SUFFICES ASSUME NEW f \in Frames, frame'[f].open
             PROVE  Alone(frame'[f], Walkers(f)')
  BY DEF AloneInv
<1>1. Walkers(f)' \subseteq Walkers(f)
  BY DEF Walkers
<1> QED
  BY <1>1, AloneFewer DEF AloneInv

LEMMA AloneSettles ==
    ASSUME IInv, AloneInv, NEW l \in leaves, Settles(l)
    PROVE  AloneInv'
<1> DEFINE n == [l EXCEPT !.pos = @ + 1]
<1>1. /\ l.f \in Frames /\ frame[l.f].open /\ LeafShape(l) /\ l.pos \in Nat /\ l.hi \in Nat
      /\ l.pos \in 0 .. frame[l.f].n - 1 /\ FrameShape(frame[l.f]) /\ l.pos < l.hi
  BY LeafFacts DEF Settles, FrameOK
<1>2. n.f = l.f /\ n.pos = l.pos + 1 /\ n.hi = l.hi
  BY <1>1, NextLeaf
<1>3. leaves' = (leaves \ {l}) \cup {n} \/ leaves' = leaves \ {l}
  BY DEF Settles, Advance, Unwind
<1> HIDE DEF n
<1> SUFFICES ASSUME NEW f \in Frames, frame'[f].open
             PROVE  Alone(frame'[f], Walkers(f)')
  BY DEF AloneInv
<1>4. CASE f # l.f
  <2>1. frame'[f] = frame[f] /\ frame[f].open
    BY <1>4 DEF Settles, OthersStay, NoFrame
  <2>2. Walkers(f)' \subseteq Walkers(f)
    BY <1>2, <1>3, <1>4 DEF Walkers
  <2> QED
    BY <2>1, <2>2, AloneFewer DEF AloneInv
<1>5. CASE f = l.f
  <2> DEFINE fr == frame[l.f]
             u  == frame'[l.f]
             L  == Walkers(l.f)
  <2>1. Alone(fr, L) /\ l \in L
    BY <1>1 DEF AloneInv, Walkers
  <2>2. CASE Advance(l) /\ \E v : Stored(u, fr, l.pos, v)
    <3>1. PICK v : Stored(u, fr, l.pos, v)
      BY <2>2
    <3>2. /\ u.left = fr.left
          /\ \A j \in 0 .. fr.n - 1 : j # l.pos => u.out[j] = fr.out[j]
      BY <1>1, <3>1, ElementUpdate, SMTT(30)
    <3>3. /\ fr.n \in Nat
          /\ \A r \in fr.left : r.hi \in Nat /\ r.hi <= fr.n
          /\ \A m \in L : m.hi \in Nat /\ m.hi <= fr.n
      BY <1>1 DEF FrameShape, Walkers, IInv, LeavesInv, LeafShape
    <3>4. \A i \in Nat : i < fr.n /\ i # l.pos => u.out[i] = fr.out[i]
      BY <3>2, <3>3
    <3>5. Walkers(l.f)' = (L \ {l}) \cup {n}
      BY <1>2, <2>2 DEF Advance, n, Walkers
    <3> HIDE DEF fr, u, L
    <3>6. Alone(u, (L \ {l}) \cup {n})
      BY <1>1, <1>2, <2>1, <3>2, <3>3, <3>4, AloneStore, ZenonT(60)
    <3> QED
      BY <1>5, <3>5, <3>6 DEF u
  <2>3. CASE Unwind(l) /\ Marked(u, fr)
    <3>1. u.left = fr.left /\ u.out = fr.out
      BY <1>1, <2>3, FieldUpdates DEF Marked
    <3>2. Walkers(l.f)' \subseteq L
      BY <2>3 DEF Unwind, Walkers
    <3> QED
      BY <1>5, <2>1, <3>1, <3>2, AloneFewer
  <2> QED
    BY <2>2, <2>3 DEF Settles
<1> QED
  BY <1>4, <1>5

(* Opening a frame: nobody walks it yet. *)
LEMMA AloneOpens ==
    ASSUME IInv, AloneInv, NEW c \in Frames, ~frame[c].open, NEW n \in Nat,
           frame' = [frame EXCEPT ![c] = NewFrame(n)], leaves' = leaves
    PROVE  AloneInv'
<1>1. /\ frame'[c] = NewFrame(n)
      /\ \A g \in Frames : g # c => frame'[g] = frame[g]
  BY DEF IInv, FramesInv
<1>2. Walkers(c) = {}
  BY DEF Walkers, IInv, LeavesInv
<1> SUFFICES ASSUME NEW f \in Frames, frame'[f].open
             PROVE  Alone(frame'[f], Walkers(f)')
  BY DEF AloneInv
<1>3. Walkers(f)' = Walkers(f)
  BY DEF Walkers
<1>4. CASE f = c
  BY <1>1, <1>2, <1>3, <1>4, AloneNew
<1>5. CASE f # c
  BY <1>1, <1>3, <1>5 DEF AloneInv
<1> QED
  BY <1>4, <1>5

(* Before a call begins none of its frames is open. *)
LEMMA IdleHasNoFrame ==
    ASSUME IInv, NEW f \in Frames, call[f[1]] = Idle
    PROVE  ~frame[f].open
  BY DEF IInv, FramesInv, Idle, NoFrame

LEMMA AloneBegin ==
    ASSUME IInv, AloneInv, NEW t \in Threads, NEW req \in Requests, Begin(t, req)
    PROVE  AloneInv'
<1>1. call[t] = Idle /\ leaves' = leaves
  BY DEF Begin, Ask
<1>2. CASE frame' = frame
  BY <1>1, <1>2, AloneStay
<1>3. ASSUME NEW k, Opens(t, req, k) PROVE AloneInv'
  <2>1. /\ <<t, k>> \in Frames /\ LoopLen(wfm, req, k) \in Nat
        /\ frame' = [frame EXCEPT ![<<t, k>>] = NewFrame(LoopLen(wfm, req, k))]
    BY <1>3 DEF Opens
  <2>2. ~frame[<<t, k>>].open
    BY <1>1, <2>1, IdleHasNoFrame
  <2> QED
    BY <1>1, <2>1, <2>2, AloneOpens
<1> QED
  BY <1>2, <1>3, BeginCases

(* The frame an answer collects, and the leaves it finds there: none. *)
LEMMA AnswerStep ==
    ASSUME IInv, NEW t \in Threads, Answer(t)
    PROVE  /\ leaves' = leaves /\ \A m \in leaves : m.f[1] # t
           /\ \A g \in Frames : g[1] # t => frame'[g] = frame[g]
           /\ \A g \in Frames : g[1] = t => ~frame'[g].open
<1> DEFINE f == IF Fans(wfm, call[t].req) THEN <<t, 0>> ELSE <<t, 1>>
<1>1. /\ call[t].st = "running" /\ (frame[f].open => Finished(f))
      /\ frame' = [frame EXCEPT ![f] = NoFrame] /\ leaves' = leaves
  BY DEF Answer
<1>2. /\ f \in Frames /\ f[1] = t
      /\ \A g \in Frames : g[1] = t /\ g # f => ~frame[g].open
      /\ \A m \in leaves : m.f[1] # t
  BY <1>1, AnswerFacts
<1> HIDE DEF f
<1>3. /\ frame'[f] = NoFrame /\ ~NoFrame.open
      /\ \A g \in Frames : g # f => frame'[g] = frame[g]
  BY <1>1, <1>2 DEF IInv, FramesInv, NoFrame
<1> QED
  BY <1>1, <1>2, <1>3

LEMMA SplitStep ==
    ASSUME IInv, NEW f \in Frames, NEW r \in frame[f].left, Split(f, r)
    PROVE  /\ leaves' = leaves /\ frame[f].open /\ frame'[f].open
           /\ frame'[f].out = frame[f].out /\ frame'[f].bad = frame[f].bad
           /\ \A g \in Frames : g # f => frame'[g] = frame[g]
<1>1. PICK S : /\ frame[f].open /\ leaves' = leaves
               /\ frame' = [frame EXCEPT ![f].left = S]
  BY DEF Split
<1>2. FrameShape(frame[f])
  BY <1>1, OpenFrame DEF FrameOK
<1>3. /\ frame'[f] = [frame[f] EXCEPT !.left = S]
      /\ \A g \in Frames : g # f => frame'[g] = frame[g]
  BY <1>1 DEF IInv, FramesInv
<1>4. frame'[f] = [open |-> TRUE, n |-> frame[f].n, left |-> S, bad |-> frame[f].bad,
                   out |-> frame[f].out]
  BY <1>2, <1>3, FieldUpdates
<1> QED
  BY <1>1, <1>3, <1>4

LEMMA AloneSplits ==
    ASSUME IInv, AloneInv, NEW f \in Frames, NEW r \in frame[f].left, Split(f, r)
    PROVE  AloneInv'
<1> DEFINE mid == (r.lo + r.hi) \div 2
           S == (frame[f].left \ {r}) \cup {Span(r.lo, mid), Span(mid, r.hi)}
<1>1. /\ frame[f].open /\ r.hi - r.lo >= 2
      /\ frame' = [frame EXCEPT ![f].left = S] /\ leaves' = leaves
  BY DEF Split
<1>2. FrameShape(frame[f])
  BY <1>1, OpenFrame DEF FrameOK
<1>3. r.lo \in Nat /\ r.hi \in Nat
  BY <1>2 DEF FrameShape
<1>4. mid \in Nat /\ r.lo <= mid /\ mid <= r.hi
  BY <1>1, <1>3
<1>5. /\ frame'[f] = [frame[f] EXCEPT !.left = S]
      /\ \A g \in Frames : g # f => frame'[g] = frame[g]
  BY <1>1 DEF IInv, FramesInv
<1>6. frame'[f].left = S /\ frame'[f].out = frame[f].out
  <2> HIDE DEF S
  <2> QED
    BY <1>2, <1>5, FieldUpdates
<1> SUFFICES ASSUME NEW g \in Frames, frame'[g].open
             PROVE  Alone(frame'[g], Walkers(g)')
  BY DEF AloneInv
<1>7. Walkers(g)' = Walkers(g)
  BY <1>1 DEF Walkers
<1>8. CASE g # f
  BY <1>5, <1>7, <1>8 DEF AloneInv
<1>9. CASE g = f
  <2>1. Alone(frame[f], Walkers(f))
    BY <1>1 DEF AloneInv
  <2> HIDE DEF mid
  <2>2. Alone(frame'[f], Walkers(f))
    BY <1>3, <1>4, <1>6, <2>1, AloneSplit
  <2> QED
    BY <1>7, <1>9, <2>2
<1> QED
  BY <1>8, <1>9

(* The leaf a range becomes. *)
LeafOf(w, f, r) == [w |-> w, d |-> Depth(w) + 1, f |-> f, pos |-> r.lo, hi |-> r.hi]

LEMMA TakeStep ==
    ASSUME IInv, NEW w \in Workers, NEW f \in Frames, NEW r \in frame[f].left, Take(w, f, r)
    PROVE  /\ leaves' = leaves \cup {LeafOf(w, f, r)}
           /\ frame[f].open /\ frame'[f].open
           /\ frame'[f].left = frame[f].left \ {r} /\ frame'[f].out = frame[f].out
           /\ frame'[f].bad = frame[f].bad
           /\ \A g \in Frames : g # f => frame'[g] = frame[g]
<1> DEFINE S == frame[f].left \ {r}
<1>1. /\ frame[f].open /\ frame' = [frame EXCEPT ![f].left = S]
      /\ leaves' = leaves \cup {LeafOf(w, f, r)}
  BY DEF Take, LeafOf
<1>2. FrameShape(frame[f])
  BY <1>1, OpenFrame DEF FrameOK
<1>3. /\ frame'[f] = [frame[f] EXCEPT !.left = S]
      /\ \A g \in Frames : g # f => frame'[g] = frame[g]
  BY <1>1 DEF IInv, FramesInv
<1>4. /\ frame'[f].left = S /\ frame'[f].out = frame[f].out /\ frame'[f].open
      /\ frame'[f].bad = frame[f].bad
  <2> HIDE DEF S
  <2>1. frame'[f] = [open |-> TRUE, n |-> frame[f].n, left |-> S, bad |-> frame[f].bad,
                     out |-> frame[f].out]
    BY <1>2, <1>3, FieldUpdates
  <2> QED
    BY <2>1
<1> QED
  BY <1>1, <1>3, <1>4

LEMMA AloneTakes ==
    ASSUME IInv, AloneInv, NEW w \in Workers, NEW f \in Frames, NEW r \in frame[f].left,
           Take(w, f, r)
    PROVE  AloneInv'
<1> DEFINE n == LeafOf(w, f, r)
<1>1. n.f = f /\ n.pos = r.lo /\ n.hi = r.hi
  BY DEF LeafOf
<1>2. /\ leaves' = leaves \cup {n} /\ frame[f].open
      /\ frame'[f].left = frame[f].left \ {r} /\ frame'[f].out = frame[f].out
      /\ \A g \in Frames : g # f => frame'[g] = frame[g]
  BY TakeStep
<1> HIDE DEF n
<1> SUFFICES ASSUME NEW g \in Frames, frame'[g].open
             PROVE  Alone(frame'[g], Walkers(g)')
  BY DEF AloneInv
<1>3. CASE g # f
  <2>1. Walkers(g)' = Walkers(g)
    BY <1>1, <1>2, <1>3 DEF Walkers
  <2> QED
    BY <1>2, <1>3, <2>1 DEF AloneInv
<1>4. CASE g = f
  <2>1. Walkers(f)' = Walkers(f) \cup {n}
    BY <1>1, <1>2 DEF Walkers
  <2>2. Alone(frame[f], Walkers(f))
    BY <1>2 DEF AloneInv
  <2>3. Alone(frame'[f], Walkers(f) \cup {n})
    BY <1>1, <1>2, <2>2, AloneTake
  <2> QED
    BY <1>4, <2>1, <2>3
<1> QED
  BY <1>3, <1>4

LEMMA AloneNext == ASSUME IInv, AloneInv, [Next]_vars PROVE AloneInv'
<1>1. ASSUME NEW t \in Threads, Answer(t) PROVE AloneInv'
  BY <1>1, AnswerStep, AloneStay
<1>2. ASSUME NEW t \in Threads, NEW req \in Requests, Begin(t, req) PROVE AloneInv'
  BY <1>2, AloneBegin
<1>3. ASSUME Drop PROVE AloneInv'
  BY <1>3, AloneStay DEF Drop
<1>4. ASSUME NEW f \in Frames, NEW r \in frame[f].left, Split(f, r) PROVE AloneInv'
  BY <1>4, AloneSplits
<1>5. ASSUME NEW w \in Workers, Work(w) PROVE AloneInv'
  <2>1. ASSUME NEW f \in Frames, NEW r \in frame[f].left, Take(w, f, r) PROVE AloneInv'
    BY <2>1, AloneTakes
  <2>2. ASSUME NEW l \in leaves, Walk(l) PROVE AloneInv'
    <3>1. CASE Settles(l)
      BY <3>1, AloneSettles
    <3>2. CASE Nest(l)
      <4> DEFINE n == SlotPlan(wfm, Request(l.f), l.pos + 1).plan.n
      <4>1. /\ l.pos < l.hi /\ IsSlotLoop(l.f) /\ ~frame[Child(l)].open /\ leaves' = leaves
            /\ frame' = [frame EXCEPT ![Child(l)] = NewFrame(n)]
        BY <3>2 DEF Nest
      <4>2. n \in Nat /\ Child(l) \in Frames
        BY <3>2, NestedLength
      <4> QED
        BY <4>1, <4>2, AloneOpens
    <3>3. CASE Return(l)
      BY <3>3, AloneStay DEF Return, Unwind
    <3> QED
      BY <2>2, <3>1, <3>2, <3>3, WalkCases
  <2> QED
    BY <1>5, <2>1, <2>2 DEF Work
<1>6. CASE UNCHANGED vars
  BY <1>6, AloneStay DEF vars
<1> QED
  BY <1>1, <1>2, <1>3, <1>4, <1>5, <1>6 DEF Next

-----------------------------------------------------------------------------
(* A worker's leaves are a stack.                                          *)

LEMMA OwnFinite ==
    ASSUME IsFiniteSet(leaves), NEW w
    PROVE  IsFiniteSet(OwnLeaves(w)) /\ Depth(w) = Cardinality(OwnLeaves(w))
           /\ Depth(w) \in Nat
<1>1. OwnLeaves(w) \subseteq leaves
  BY DEF OwnLeaves
<1>2. IsFiniteSet(OwnLeaves(w))
  BY <1>1, FS_Subset
<1> QED
  BY <1>2, FS_CardinalityType DEF Depth, OwnLeaves

(* One element for another. *)
LEMMA SwapOne ==
    ASSUME NEW S, IsFiniteSet(S), NEW x \in S, NEW y, y \notin S
    PROVE  /\ IsFiniteSet((S \ {x}) \cup {y})
           /\ Cardinality((S \ {x}) \cup {y}) = Cardinality(S)
<1> DEFINE T == S \ {x}
<1>1. IsFiniteSet(T) /\ Cardinality(T) = Cardinality(S) - 1 /\ Cardinality(S) \in Nat
  BY FS_RemoveElement, FS_CardinalityType
<1>2. y \notin T
  OBVIOUS
<1> HIDE DEF T
<1>3. IsFiniteSet(T \cup {y}) /\ Cardinality(T \cup {y}) = Cardinality(T) + 1
  BY <1>1, <1>2, FS_AddElement
<1>4. Cardinality(T \cup {y}) = Cardinality(S)
  BY <1>1, <1>3
<1> QED
  BY <1>3, <1>4 DEF T

(* Leaves that stay. *)
LEMMA StackStays ==
    ASSUME DepthsInv, BelowTopWaits, leaves' = leaves,
           \A m \in leaves : ~OnTop(m) => frame'[Child(m)].open
    PROVE  DepthsInv' /\ BelowTopWaits'
<1>1. \A w : Depth(w)' = Depth(w)
  BY DEF Depth
<1>2. DepthsInv'
  BY <1>1 DEF DepthsInv
<1>3. \A m \in leaves : OnTop(m)' = OnTop(m)
  BY <1>1 DEF OnTop
<1>4. BelowTopWaits'
  BY <1>3 DEF BelowTopWaits, Child
<1> QED
  BY <1>2, <1>4

(* The top leaf of a worker goes on or ends. *)
LEMMA StackMoves ==
    ASSUME DepthsInv, BelowTopWaits, NEW l \in leaves, LeafShape(l), OnTop(l),
           Advance(l) \/ Unwind(l),
           \A m \in leaves : ~OnTop(m) => frame'[Child(m)].open
    PROVE  DepthsInv' /\ BelowTopWaits'
<1> DEFINE n == [l EXCEPT !.pos = @ + 1]
<1>1. n.w = l.w /\ n.d = l.d /\ n.f = l.f /\ n # l
  BY NextLeaf
<1>2. IsFiniteSet(leaves) /\ l.d = Depth(l.w) /\ \A w : Depth(w) \in Nat
  BY OwnFinite DEF DepthsInv, OnTop
<1>3. \/ leaves' = (leaves \ {l}) \cup {n}
      \/ leaves' = leaves \ {l}
  BY DEF Advance, Unwind
<1>4. n \notin leaves
  BY <1>1 DEF DepthsInv
<1> HIDE DEF n
<1>5. IsFiniteSet(leaves')
  BY <1>2, <1>3, <1>4, FS_RemoveElement, SwapOne
<1>6. ASSUME NEW w, w # l.w PROVE Depth(w)' = Depth(w)
  <2>1. OwnLeaves(w)' = OwnLeaves(w)
    BY <1>1, <1>3, <1>6 DEF OwnLeaves
  <2> QED
    BY <2>1 DEF Depth, OwnLeaves
<1>7. CASE leaves' = (leaves \ {l}) \cup {n}
  <2>1. Depth(l.w)' = Depth(l.w)
    <3> DEFINE S == OwnLeaves(l.w)
    <3>1. IsFiniteSet(S) /\ Depth(l.w) = Cardinality(S) /\ Cardinality(S) \in Nat
      BY <1>2, OwnFinite
    <3>2. l \in S /\ n \notin S /\ OwnLeaves(l.w)' = (S \ {l}) \cup {n}
      BY <1>1, <1>4, <1>7 DEF OwnLeaves
    <3> HIDE DEF S
    <3>3. Cardinality((S \ {l}) \cup {n}) = Cardinality(S)
      BY <3>1, <3>2, SwapOne
    <3> QED
      BY <3>1, <3>2, <3>3 DEF Depth, OwnLeaves
  <2>2. \A w : Depth(w)' = Depth(w)
    BY <1>6, <2>1
  <2>3. DepthsInv'
    BY <1>1, <1>5, <1>7, <2>2 DEF DepthsInv
  <2>4. BelowTopWaits'
    <3> SUFFICES ASSUME NEW m \in leaves', m.d # Depth(m.w)
                 PROVE  IsSlotLoop(m.f) /\ m.pos < m.hi /\ frame'[Child(m)].open
      BY <2>2 DEF BelowTopWaits, OnTop, Child
    <3>1. m \in leaves /\ ~OnTop(m)
      BY <1>1, <1>2, <1>7 DEF OnTop
    <3> QED
      BY <3>1 DEF BelowTopWaits
  <2> QED
    BY <2>3, <2>4
<1>8. CASE leaves' = leaves \ {l}
  <2>1. Depth(l.w)' = Depth(l.w) - 1
    <3> DEFINE S == OwnLeaves(l.w)
    <3>1. IsFiniteSet(S) /\ Depth(l.w) = Cardinality(S)
      BY <1>2, OwnFinite
    <3>2. l \in S /\ OwnLeaves(l.w)' = S \ {l}
      BY <1>8 DEF OwnLeaves
    <3> HIDE DEF S
    <3>3. Cardinality(S \ {l}) = Cardinality(S) - 1
      BY <3>1, <3>2, FS_RemoveElement
    <3> QED
      BY <3>1, <3>2, <3>3 DEF Depth, OwnLeaves
  <2>2. \A m \in leaves' : m.w = l.w => m.d < Depth(l.w) /\ m.d \in Nat
    BY <1>2, <1>8 DEF DepthsInv
  <2>3. DepthsInv'
    <3>1. \A m \in leaves' : m.d \in Nat /\ 1 <= m.d /\ m.d <= Depth(m.w)'
      <4> TAKE m \in leaves'
      <4>1. m \in leaves
        BY <1>8
      <4>2. CASE m.w = l.w
        BY <1>2, <2>1, <2>2, <4>1, <4>2 DEF DepthsInv
      <4>3. CASE m.w # l.w
        BY <1>6, <4>1, <4>3 DEF DepthsInv
      <4> QED
        BY <4>2, <4>3
    <3> QED
      BY <1>5, <1>8, <3>1 DEF DepthsInv
  <2>4. BelowTopWaits'
    <3> SUFFICES ASSUME NEW m \in leaves', m.d # Depth(m.w)'
                 PROVE  IsSlotLoop(m.f) /\ m.pos < m.hi /\ frame'[Child(m)].open
      BY DEF BelowTopWaits, OnTop, Child
    <3>1. m \in leaves /\ ~OnTop(m)
      BY <1>2, <1>6, <1>8, <2>2 DEF OnTop
    <3> QED
      BY <3>1 DEF BelowTopWaits
  <2> QED
    BY <2>3, <2>4
<1> QED
  BY <1>3, <1>7, <1>8

(* A worker takes a range on top of what waits. *)
LEMMA StackGrows ==
    ASSUME IInv, DepthsInv, BelowTopWaits, NEW w \in Workers, NEW f \in Frames,
           NEW r \in frame[f].left, Take(w, f, r)
    PROVE  DepthsInv' /\ BelowTopWaits'
<1> DEFINE n == LeafOf(w, f, r)
<1>1. n.w = w /\ n.d = Depth(w) + 1
  BY DEF LeafOf
<1>2. /\ leaves' = leaves \cup {n}
      /\ \A g \in Frames : frame[g].open => frame'[g].open
  BY TakeStep
<1>3. IsFiniteSet(leaves) /\ \A v : Depth(v) \in Nat
  BY OwnFinite DEF DepthsInv
<1>4. \A m \in leaves : m.w = w => m.d <= Depth(w) /\ m.d \in Nat
  BY DEF DepthsInv
<1>5. n \notin leaves
  BY <1>1, <1>3, <1>4
<1> HIDE DEF n
<1>6. Depth(w)' = Depth(w) + 1
  <2> DEFINE S == OwnLeaves(w)
  <2>1. IsFiniteSet(S) /\ Depth(w) = Cardinality(S)
    BY <1>3, OwnFinite
  <2>2. n \notin S /\ OwnLeaves(w)' = S \cup {n}
    BY <1>1, <1>2, <1>5 DEF OwnLeaves
  <2> HIDE DEF S
  <2>3. Cardinality(S \cup {n}) = Cardinality(S) + 1
    BY <2>1, <2>2, FS_AddElement
  <2> QED
    BY <2>1, <2>2, <2>3 DEF Depth, OwnLeaves
<1>7. ASSUME NEW v, v # w PROVE Depth(v)' = Depth(v)
  <2>1. OwnLeaves(v)' = OwnLeaves(v)
    BY <1>1, <1>2, <1>7 DEF OwnLeaves
  <2> QED
    BY <2>1 DEF Depth, OwnLeaves
<1>8. DepthsInv'
  <2>1. IsFiniteSet(leaves')
    BY <1>2, <1>3, FS_AddElement
  <2>2. \A m \in leaves' : m.d \in Nat /\ 1 <= m.d /\ m.d <= Depth(m.w)'
    <3> TAKE m \in leaves'
    <3>1. CASE m = n
      BY <1>1, <1>3, <1>6, <3>1
    <3>2. CASE m \in leaves /\ m.w = w
      BY <1>3, <1>6, <3>2 DEF DepthsInv
    <3>3. CASE m \in leaves /\ m.w # w
      BY <1>7, <3>3 DEF DepthsInv
    <3> QED
      BY <1>2, <3>1, <3>2, <3>3
  <2>3. \A l, m \in leaves' : l.w = m.w /\ l.d = m.d => l = m
    BY <1>1, <1>2, <1>3, <1>4 DEF DepthsInv
  <2> QED
    BY <2>1, <2>2, <2>3 DEF DepthsInv
<1>9. BelowTopWaits'
  <2> SUFFICES ASSUME NEW m \in leaves', m.d # Depth(m.w)'
               PROVE  IsSlotLoop(m.f) /\ m.pos < m.hi /\ frame'[Child(m)].open
    BY DEF BelowTopWaits, OnTop, Child
  <2>1. m \in leaves
    BY <1>1, <1>2, <1>6
  <2>2. IsSlotLoop(m.f) /\ m.pos < m.hi /\ frame[Child(m)].open
    <3>1. CASE OnTop(m)
      <4>1. m.w = w
        BY <1>7, <3>1 DEF OnTop
      <4> QED
        BY <2>1, <3>1, <4>1 DEF Take, Free, Waiting
    <3>2. CASE ~OnTop(m)
      BY <2>1, <3>2 DEF BelowTopWaits
    <3> QED
      BY <3>1, <3>2
  <2>3. Child(m) \in Frames
    BY <2>1, <2>2, SlotLeaf
  <2> QED
    BY <1>2, <2>2, <2>3
<1> QED
  BY <1>8, <1>9

(* What leaves stand on stays: a step closes only the loop of the leaf it  *)
(* moves, and two leaves do not stand at one slot.                         *)
LEMMA OthersWait ==
    ASSUME IInv, AloneInv, BelowTopWaits, NEW l \in leaves, Settles(l),
           NEW m \in leaves, ~OnTop(m)
    PROVE  frame'[Child(m)].open
<1>1. /\ IsSlotLoop(m.f) /\ m.pos < m.hi /\ frame[Child(m)].open
      /\ m # l /\ l.pos < l.hi
  BY DEF BelowTopWaits, Settles
<1>2. /\ Child(m) \in Frames /\ Child(m)[2] = m.pos + 1
      /\ Child(m)[1] = m.f[1] /\ m.f = <<m.f[1], 0>> /\ m.f \in Frames
      /\ m.pos \in Nat /\ frame[m.f].open /\ l.pos \in Nat /\ l.f \in Frames
  BY <1>1, SlotLeaf, LeafFacts
<1>3. CASE Child(m) = l.f
  <2>1. FrameShape(frame[l.f])
    BY <1>1, LeafFacts DEF FrameOK
  <2>2. CASE \E v : Stored(frame'[l.f], frame[l.f], l.pos, v)
    <3>1. FrameShape(frame'[l.f])
      BY <1>1, <2>1, <2>2, LeafFacts, ElementUpdate
    <3> QED
      BY <1>3, <3>1 DEF FrameShape
  <2>3. CASE Marked(frame'[l.f], frame[l.f])
    <3>1. frame'[l.f] = [open |-> TRUE, n |-> frame[l.f].n, left |-> frame[l.f].left,
                         bad |-> TRUE, out |-> frame[l.f].out]
      BY <2>1, <2>3, FieldUpdates DEF Marked
    <3> QED
      BY <1>3, <3>1
  <2> QED
    BY <2>2, <2>3 DEF Settles
<1>4. CASE Child(m) # l.f /\ IsSlotLoop(l.f) /\ Child(m) = Child(l)
  <2>1. l.f = <<l.f[1], 0>> /\ Child(l)[1] = l.f[1] /\ Child(l)[2] = l.pos + 1
    BY <1>1, <1>4, SlotLeaf
  <2>2. m.f = l.f /\ m.pos = l.pos
    BY <1>2, <1>4, <2>1
  <2>3. l.pos \in Nat /\ Ahead(l, l.pos) /\ Ahead(m, l.pos)
    BY <1>1, <1>2, <2>2 DEF Ahead
  <2>4. l \in Walkers(l.f) /\ m \in Walkers(l.f) /\ Alone(frame[l.f], Walkers(l.f))
    BY <1>2, <2>2 DEF Walkers, AloneInv
  <2> QED
    BY <1>1, <2>3, <2>4 DEF Alone
<1>5. CASE Child(m) # l.f /\ ~(IsSlotLoop(l.f) /\ Child(m) = Child(l))
  <2>1. frame'[Child(m)] = frame[Child(m)]
    BY <1>2, <1>5 DEF Settles
  <2> QED
    BY <1>1, <2>1
<1> QED
  BY <1>3, <1>4, <1>5

(* The index a leaf settles was not stored before. *)
LEMMA SettlesKeeps ==
    ASSUME IInv, AloneInv, NEW l \in leaves, Settles(l)
    PROVE  /\ frame[l.f].bad => frame'[l.f].bad
           /\ \A i \in 0 .. frame[l.f].n - 1 :
                frame[l.f].out[i] # Unset => frame'[l.f].out[i] = frame[l.f].out[i]
<1>1. /\ l.f \in Frames /\ frame[l.f].open /\ l.pos \in 0 .. frame[l.f].n - 1
      /\ FrameShape(frame[l.f]) /\ l.pos \in Nat /\ l.pos < l.hi
  BY LeafFacts DEF Settles, FrameOK
<1>2. frame[l.f].out[l.pos] = Unset
  <2>1. Alone(frame[l.f], Walkers(l.f))
    BY <1>1 DEF AloneInv
  <2>2. l \in Walkers(l.f) /\ Ahead(l, l.pos)
    BY <1>1 DEF Walkers, Ahead
  <2> QED
    BY <1>1, <2>1, <2>2 DEF Alone
<1>3. ASSUME NEW v, Stored(frame'[l.f], frame[l.f], l.pos, v)
      PROVE  /\ frame'[l.f].bad = frame[l.f].bad
             /\ \A i \in 0 .. frame[l.f].n - 1 : i # l.pos =>
                  frame'[l.f].out[i] = frame[l.f].out[i]
  BY <1>1, <1>3, ElementUpdate
<1>4. ASSUME Marked(frame'[l.f], frame[l.f])
      PROVE  frame'[l.f].bad = TRUE /\ frame'[l.f].out = frame[l.f].out
  BY <1>1, <1>4, FieldUpdates DEF Marked
<1> QED
  BY <1>2, <1>3, <1>4 DEF Settles

LEMMA StackNext ==
    ASSUME IInv, AloneInv, DepthsInv, BelowTopWaits, [Next]_vars
    PROVE  DepthsInv' /\ BelowTopWaits'
<1>0. \A m \in leaves : ~OnTop(m) => frame[Child(m)].open /\ Child(m) \in Frames
  BY SlotLeaf DEF BelowTopWaits
<1>1. ASSUME NEW t \in Threads, Answer(t) PROVE DepthsInv' /\ BelowTopWaits'
  <2>1. \A m \in leaves : ~OnTop(m) => frame'[Child(m)] = frame[Child(m)]
    BY <1>0, <1>1, AnswerStep DEF Child
  <2> QED
    BY <1>0, <1>1, <2>1, AnswerStep, StackStays
<1>2. ASSUME NEW t \in Threads, NEW req \in Requests, Begin(t, req)
      PROVE  DepthsInv' /\ BelowTopWaits'
  <2>1. \A g \in Frames : frame[g].open => frame'[g].open
    <3>1. ASSUME NEW k, Opens(t, req, k), NEW g \in Frames, frame[g].open PROVE frame'[g].open
      <4>1. NewFrame(LoopLen(wfm, req, k)).open
        BY DEF NewFrame
      <4>2. frame'[g] = frame[g] \/ frame'[g] = NewFrame(LoopLen(wfm, req, k))
        BY <3>1 DEF Opens, IInv, FramesInv
      <4> QED
        BY <3>1, <4>1, <4>2
    <3> QED
      BY <1>2, <3>1, BeginCases
  <2> QED
    BY <1>0, <1>2, <2>1, StackStays DEF Begin
<1>3. ASSUME Drop PROVE DepthsInv' /\ BelowTopWaits'
  BY <1>0, <1>3, StackStays DEF Drop
<1>4. ASSUME NEW f \in Frames, NEW r \in frame[f].left, Split(f, r)
      PROVE  DepthsInv' /\ BelowTopWaits'
  <2>1. leaves' = leaves /\ \A g \in Frames : frame[g].open => frame'[g].open
    BY <1>4, SplitStep
  <2> QED
    BY <1>0, <2>1, StackStays
<1>5. ASSUME NEW w \in Workers, Work(w) PROVE DepthsInv' /\ BelowTopWaits'
  <2>1. ASSUME NEW f \in Frames, NEW r \in frame[f].left, Take(w, f, r)
        PROVE  DepthsInv' /\ BelowTopWaits'
    BY <2>1, StackGrows
  <2>2. ASSUME NEW l \in leaves, Walk(l) PROVE DepthsInv' /\ BelowTopWaits'
    <3>0. LeafShape(l)
      BY DEF IInv, LeavesInv
    <3>1. CASE Settles(l)
      <4>1. OnTop(l) /\ (Advance(l) \/ Unwind(l))
        BY <3>1 DEF Settles
      <4> QED
        BY <3>0, <3>1, <4>1, OthersWait, StackMoves
    <3>2. CASE Nest(l)
      <4> DEFINE fr == NewFrame(SlotPlan(wfm, Request(l.f), l.pos + 1).plan.n)
      <4>1. leaves' = leaves /\ frame' = [frame EXCEPT ![Child(l)] = fr]
        BY <3>2 DEF Nest
      <4>2. fr.open
        BY DEF NewFrame
      <4> HIDE DEF fr
      <4>3. \A g \in Frames : frame[g].open => frame'[g].open
        BY <4>1, <4>2 DEF IInv, FramesInv
      <4> QED
        BY <1>0, <4>1, <4>3, StackStays
    <3>3. CASE Return(l)
      BY <1>0, <3>0, <3>3, StackMoves DEF Return
    <3> QED
      BY <2>2, <3>1, <3>2, <3>3, WalkCases
  <2> QED
    BY <1>5, <2>1, <2>2 DEF Work
<1>6. CASE UNCHANGED vars
  BY <1>0, <1>6, StackStays DEF vars
<1> QED
  BY <1>1, <1>2, <1>3, <1>4, <1>5, <1>6 DEF Next

LEMMA PoolInductive == Safety => []PoolInv
<1>1. Init => PoolInv
  <2> SUFFICES ASSUME Init PROVE PoolInv
    OBVIOUS
  <2>1. leaves = {} /\ \A f \in Frames : ~frame[f].open
    BY DEF Init, NoFrame
  <2>2. DepthsInv /\ BelowTopWaits /\ AloneInv
    BY <2>1, FS_EmptySet DEF DepthsInv, BelowTopWaits, AloneInv
  <2> QED
    BY <2>2, InitInv DEF PoolInv
<1>2. PoolInv /\ [Next]_vars => PoolInv'
  BY NextInv, AloneNext, StackNext DEF PoolInv
<1> QED
  BY <1>1, <1>2, PTL DEF Safety

-----------------------------------------------------------------------------
(* The theorems.                                                           *)

(* A worker goes on with other ranges only while the leaf it leaves waits  *)
(* for a nested loop, however deep the loops nest and whoever steals what  *)
(* (sample.rs:162-198 inside parser.rs:447-451).                           *)
THEOREM StackWaits == Safety => []BelowTopWaits
  BY PoolInductive, PTL DEF PoolInv

(* In a loop that has not panicked every index is stored, or in one range, *)
(* or ahead of one leaf; never in two places, so no result is written      *)
(* twice and none is missing when the loop is collected.                   *)
THEOREM Once == Safety => []EachIndexOnce
<1>1. PoolInv => EachIndexOnce
  <2> SUFFICES ASSUME PoolInv, NEW f \in Frames, frame[f].open, NEW i \in 0 .. frame[f].n - 1
               PROVE  IF frame[f].bad THEN Places(f, i) <= 1 ELSE Places(f, i) = 1
    BY DEF EachIndexOnce
  <2> DEFINE stored == IF frame[f].out[i] # Unset THEN 1 ELSE 0
             R == {r \in frame[f].left : r.lo <= i /\ i < r.hi}
             L == {l \in leaves : l.f = f /\ l.pos <= i /\ i < l.hi}
  <2>1. Alone(frame[f], Walkers(f)) /\ i \in Nat
    <3>1. frame[f].n \in Nat
      BY OpenFrame DEF PoolInv
    <3>2. Alone(frame[f], Walkers(f))
      BY DEF PoolInv, AloneInv
    <3> QED
      BY <3>1, <3>2
  <2>2. /\ \A r, q \in R : r = q
        /\ \A l, m \in L : l = m
        /\ \A r \in R : stored = 0 /\ L = {}
        /\ \A l \in L : stored = 0 /\ R = {}
    BY <2>1 DEF Alone, InRange, Ahead, Walkers
  <2>3. \A S : (\A x, y \in S : x = y) => S = {} \/ \E x : S = {x}
    OBVIOUS
  <2>4. ~frame[f].bad => stored = 1 \/ R # {} \/ L # {}
    BY DEF PoolInv, IInv, CoveredInv, Due
  <2>5. Places(f, i) = stored + Cardinality(R) + Cardinality(L)
    BY DEF Places
  <2>6. /\ R = {} \/ Cardinality(R) = 1
        /\ L = {} \/ Cardinality(L) = 1
        /\ Cardinality({}) = 0
    <3> HIDE DEF R, L
    <3> QED
      BY <2>2, <2>3, FS_Singleton, FS_EmptySet
  <2>7. stored = 0 \/ stored = 1
    OBVIOUS
  <2> HIDE DEF R, L, stored
  <2>8. (R # {} => stored = 0 /\ L = {}) /\ (L # {} => stored = 0 /\ R = {})
    BY <2>2
  <2>9. /\ stored + Cardinality(R) + Cardinality(L) <= 1
        /\ ~frame[f].bad => stored + Cardinality(R) + Cardinality(L) = 1
    <3>1. /\ (R = {} => Cardinality(R) = 0) /\ (L = {} => Cardinality(L) = 0)
          /\ (R # {} => Cardinality(R) = 1) /\ (L # {} => Cardinality(L) = 1)
      BY <2>6
    <3>2. CASE R # {}
      BY <2>8, <3>1, <3>2
    <3>3. CASE L # {}
      BY <2>8, <3>1, <3>3
    <3>4. CASE R = {} /\ L = {}
      BY <2>4, <2>7, <3>1, <3>4
    <3> QED
      BY <3>2, <3>3, <3>4
  <2> QED
    BY <2>5, <2>9
<1> QED
  BY <1>1, PoolInductive, PTL

(* A stored sample or slot stays until its loop is collected, and a panic  *)
(* mark is never lost on the way to the caller.                            *)
THEOREM Stay == Safety => ResultsStay
<1> DEFINE Kept(f) == frame[f].open /\ frame'[f].open =>
             /\ frame[f].bad => frame'[f].bad
             /\ \A i \in 0 .. frame[f].n - 1 :
                  frame[f].out[i] # Unset => frame'[f].out[i] = frame[f].out[i]
<1>1. ASSUME PoolInv, [Next]_vars, NEW f \in Frames PROVE Kept(f)
  <2> USE <1>1 DEF PoolInv
  <2>0. frame'[f] = frame[f] => Kept(f)
    OBVIOUS
  <2>1. ASSUME NEW t \in Threads, Answer(t) PROVE Kept(f)
    BY <2>1, AnswerStep
  <2>2. ASSUME NEW t \in Threads, NEW req \in Requests, Begin(t, req) PROVE Kept(f)
    <3>1. ASSUME NEW k, Opens(t, req, k) PROVE Kept(f)
      <4>1. <<t, k>> \in Frames /\ ~frame[<<t, k>>].open
        BY <2>2, <3>1, IdleHasNoFrame DEF Opens, Begin, Ask
      <4>2. f # <<t, k>> => frame'[f] = frame[f]
        BY <3>1 DEF Opens, IInv, FramesInv
      <4> QED
        BY <4>1, <4>2
    <3> QED
      BY <2>0, <2>2, <3>1, BeginCases
  <2>3. ASSUME Drop PROVE Kept(f)
    BY <2>0, <2>3 DEF Drop
  <2>4. ASSUME NEW g \in Frames, NEW r \in frame[g].left, Split(g, r) PROVE Kept(f)
    BY <2>0, <2>4, SplitStep
  <2>5. ASSUME NEW w \in Workers, Work(w) PROVE Kept(f)
    <3>1. ASSUME NEW g \in Frames, NEW r \in frame[g].left, Take(w, g, r) PROVE Kept(f)
      BY <2>0, <3>1, TakeStep
    <3>2. ASSUME NEW l \in leaves, Walk(l) PROVE Kept(f)
      <4>1. CASE Settles(l)
        <5>1. CASE f = l.f
          BY <4>1, <5>1, SettlesKeeps
        <5>2. CASE f # l.f
          BY <2>0, <4>1, <5>2 DEF Settles, OthersStay, NoFrame
        <5> QED
          BY <5>1, <5>2
      <4>2. CASE Nest(l)
        <5>1. ~frame[Child(l)].open /\ (f # Child(l) => frame'[f] = frame[f])
          BY <4>2 DEF Nest, IInv, FramesInv
        <5> QED
          BY <5>1
      <4>3. CASE Return(l)
        BY <2>0, <4>3 DEF Return
      <4> QED
        BY <3>2, <4>1, <4>2, <4>3, WalkCases
    <3> QED
      BY <2>5, <3>1, <3>2 DEF Work
  <2>6. CASE UNCHANGED vars
    BY <2>0, <2>6 DEF vars
  <2> QED
    BY <2>1, <2>2, <2>3, <2>4, <2>5, <2>6 DEF Next
<1>2. PoolInv /\ [Next]_vars => \A f \in Frames : Kept(f)
  BY <1>1
<1> QED
  BY <1>2, PoolInductive, PTL DEF Safety, ResultsStay

-----------------------------------------------------------------------------
(* Nobody waits for everybody.                                             *)

(* The guards of Walk's actions, in their order: DecodeSample, DecodeSlot, *)
(* Nest, Join, Return.                                                     *)
WalkGuard(l) ==
    LET p      == SlotPlan(wfm, Request(l.f), l.pos + 1)
        nested == p.tag = "plan" /\ Parallel(p.plan)
    IN  /\ OnTop(l)
        /\ \/ ~IsSlotLoop(l.f) /\ l.pos < l.hi
           \/ IsSlotLoop(l.f) /\ l.pos < l.hi /\ ~nested
           \/ IsSlotLoop(l.f) /\ l.pos < l.hi /\ nested /\ ~frame[Child(l)].open
           \/ IsSlotLoop(l.f) /\ l.pos < l.hi /\ frame[Child(l)].open /\ Finished(Child(l))
           \/ l.pos = l.hi

AnswerGuard(t) ==
    LET f == IF Fans(wfm, call[t].req) THEN <<t, 0>> ELSE <<t, 1>>
    IN  frame[f].open => Finished(f)

TakeGuard(w) == Free(w) /\ \E f \in Frames : frame[f].open /\ frame[f].left # {}

(* While a call runs it can be answered, or some worker can go on: taking  *)
(* a range, or with the leaf on top of its stack.                          *)
NeverStuck ==
    \A t \in Threads : call[t].st = "running" =>
        \/ AnswerGuard(t)
        \/ \E w \in Workers : TakeGuard(w)
        \/ \E l \in leaves : WalkGuard(l)

(* A worker with leaves has one on top: their depths differ and stop at    *)
(* their number.                                                           *)
LEMMA HasTop ==
    ASSUME DepthsInv, NEW m \in leaves
    PROVE  \E l \in leaves : OnTop(l)
<1> DEFINE S == OwnLeaves(m.w)
           n == Cardinality(S)
           T == 1 .. n - 1
           d == [l \in S |-> l.d]
<1> SUFFICES ASSUME \A l \in S : l.d # n
             PROVE  FALSE
  BY OwnFinite DEF DepthsInv, OwnLeaves, OnTop
<1>1. IsFiniteSet(S) /\ n \in Nat /\ Depth(m.w) = n
  BY OwnFinite DEF DepthsInv
<1>2. \A l \in S : l.d \in Nat /\ 1 <= l.d /\ l.d <= n
  BY <1>1 DEF DepthsInv, OwnLeaves
<1>3. \A l, k \in S : l.d = k.d => l = k
  BY DEF DepthsInv, OwnLeaves
<1>4. m \in S
  BY DEF OwnLeaves
<1> HIDE DEF S
<1>5. n >= 1
  BY <1>1, <1>2, <1>4
<1>6. IsFiniteSet(T) /\ Cardinality(T) = n - 1
  <2>1. 1 \in Int /\ n - 1 \in Int
    BY <1>1
  <2>2. IsFiniteSet(T) /\ Cardinality(T) = IF 1 > n - 1 THEN 0 ELSE (n - 1) - 1 + 1
    BY <2>1, FS_Interval
  <2> QED
    BY <1>1, <1>5, <2>2
<1>7. d \in [S -> T]
  BY <1>1, <1>2
<1>8. PICK l, k \in S : l # k /\ d[l] = d[k]
  <2> HIDE DEF T, d
  <2>1. Cardinality(T) < Cardinality(S)
    BY <1>1, <1>6
  <2> QED
    BY <1>1, <1>6, <1>7, <2>1, FS_PigeonHole
<1> QED
  BY <1>3, <1>8

(* A leaf on top that cannot go on waits for a loop over samples, and that *)
(* loop has ranges left, or a leaf that can go on.                         *)
LEMMA TopGoesOn ==
    ASSUME IInv, BelowTopWaits, NEW l \in leaves, OnTop(l), ~WalkGuard(l)
    PROVE  /\ Waiting(l)
           /\ \/ Child(l) \in Frames /\ frame[Child(l)].open /\ frame[Child(l)].left # {}
              \/ \E m \in leaves : WalkGuard(m)
<1>1. \A m \in leaves : m.pos \in Nat /\ m.hi \in Nat /\ m.pos <= m.hi
  BY DEF IInv, LeavesInv, LeafShape
<1>2. /\ IsSlotLoop(l.f) /\ l.pos < l.hi
      /\ frame[Child(l)].open /\ ~Finished(Child(l))
  BY <1>1 DEF WalkGuard
<1>3. Child(l) \in Frames /\ Child(l)[2] # 0
  BY <1>1, <1>2, SlotLeaf
<1>4. CASE frame[Child(l)].left = {}
  <2>1. PICK m \in leaves : m.f = Child(l)
    BY <1>2, <1>4 DEF Finished
  <2>2. ~IsSlotLoop(m.f)
    BY <1>3, <2>1 DEF IsSlotLoop
  <2>3. OnTop(m)
    BY <2>2 DEF BelowTopWaits
  <2>4. m.pos < m.hi \/ m.pos = m.hi
    BY <1>1
  <2> QED
    BY <1>2, <2>2, <2>3, <2>4 DEF WalkGuard, Waiting
<1> QED
  BY <1>2, <1>3, <1>4 DEF Waiting

(* The pool never comes to a halt while a call is running: not when loops  *)
(* nest deeper than there are workers, not when all their leaves wait, not *)
(* after a panic (sample.rs:162-198 inside parser.rs:447-451).             *)
THEOREM NoDeadlock == Safety => []NeverStuck
<1>1. PoolInv => NeverStuck
  <2> SUFFICES ASSUME PoolInv, NEW t \in Threads, call[t].st = "running", ~AnswerGuard(t),
                      \A l \in leaves : ~WalkGuard(l)
               PROVE  \E w \in Workers : TakeGuard(w)
    BY DEF NeverStuck
  <2> USE DEF PoolInv
  <2>1. \A l \in leaves : OnTop(l) =>
          /\ Waiting(l)
          /\ Child(l) \in Frames /\ frame[Child(l)].open /\ frame[Child(l)].left # {}
    BY TopGoesOn
  <2>2. PICK w : w \in Workers
    BY WorkersAssumption
  <2>3. Free(w)
    BY <2>1 DEF Free
  <2>4. PICK f \in Frames : frame[f].open /\ ~Finished(f)
    <3>1. <<t, 0>> \in Frames /\ <<t, 1>> \in Frames
      BY SlotsAssumption DEF Frames
    <3> QED
      BY <3>1 DEF AnswerGuard
  <2>5. \E g \in Frames : frame[g].open /\ frame[g].left # {}
    <3>1. CASE frame[f].left # {}
      BY <2>4, <3>1
    <3>2. CASE frame[f].left = {}
      <4>1. PICK m \in leaves : m.f = f
        BY <2>4, <3>2 DEF Finished
      <4>2. PICK l \in leaves : OnTop(l)
        BY HasTop
      <4> QED
        BY <2>1, <4>2
    <3> QED
      BY <3>1, <3>2
  <2> QED
    BY <2>2, <2>3, <2>5 DEF TakeGuard
<1> QED
  BY <1>1, PoolInductive, PTL

-----------------------------------------------------------------------------
(* From the open handle to the threads that share it: what HandleProofs    *)
(* shows of a handle that has been opened holds of what each thread is     *)
(* told, and is what this module assumes of Handles.                       *)
AnyUsize == (0 .. USize - 1) \cup {Absent}

Shared == INSTANCE HandleProofs WITH
    Files <- {}, Starts <- AnyUsize, Lengths <- AnyUsize, handle <- Ok(wfm)

HeldHandles == \A w \in Handles : Shared!Held(w)

(* A call as the bindings can make it: usize arguments, or None.           *)
CallShaped(req) ==
    /\ req.start \in AnyUsize /\ req.length \in AnyUsize
    /\ ~req.all => req.ch \in Nat

LEMMA SharedAssumed ==
    /\ Shared!FilesAssumption /\ Shared!ArgumentsAssumption
    /\ Shared!WidthAssumption /\ Shared!HeaderSizeAssumption
    /\ Shared!ThresholdAssumption
<1>1. /\ Shared!WidthAssumption /\ Shared!HeaderSizeAssumption
      /\ Shared!ThresholdAssumption
  BY WidthAssumption, HeaderSizeAssumption, ThresholdAssumption
     DEF Shared!WidthAssumption, Shared!HeaderSizeAssumption,
         Shared!ThresholdAssumption
<1>2. Shared!ArgumentsAssumption
  BY DEF Shared!ArgumentsAssumption, AnyUsize, Shared!Usizes, Shared!Absent, Absent
<1>3. Shared!FilesAssumption
  BY DEF Shared!FilesAssumption
<1> QED
  BY <1>1, <1>2, <1>3

LEMMA SharedArguments == Shared!Args = AnyUsize /\ Shared!Absent = Absent
BY DEF Shared!Args, Shared!Usizes, Shared!Absent, Absent, AnyUsize

LEMMA SharedCountsAlike == \A S : Shared!Cardinality(S) = Cardinality(S)
BY Zenon DEF Shared!Cardinality, Cardinality

(* The instance decodes as the handle does.                                *)
LEMMA SharedCutsAlike ==
    ASSUME NEW total, NEW s, NEW l
    PROVE  Shared!ApplySlice(total, s, l) = ApplySlice(total, s, l)
BY DEF Shared!ApplySlice, ApplySlice, Shared!Smaller, Smaller, Shared!UnwrapOr, UnwrapOr,
       Shared!Absent, Absent

LEMMA SharedPreparesAlike ==
    ASSUME NEW w, NEW ch, NEW s, NEW l
    PROVE  Shared!Prepare(w, ch, s, l) = Prepare(w, ch, s, l)
<1> USE DEF Shared!Strided, Strided, Shared!Packed, Packed, Shared!Buffer, Buffer,
            Shared!Cal, Cal, Shared!NoEntry, NoEntry, Shared!Err, Err, Shared!Panic, Panic,
            Shared!NotEnabled, NotEnabled, Shared!NoChannel, NoChannel,
            Shared!Overrun, Overrun, Shared!Smaller, Smaller
<1>1. Shared!Prepare1000Z(w, ch, s, l) = Prepare1000Z(w, ch, s, l)
  <2>1. /\ Shared!Stride1000Z(w.h) = Stride1000Z(w.h)
        /\ Shared!Points1000Z(w.h) = Points1000Z(w.h)
        /\ Shared!Lane1000Z(w.h, ch) = Lane1000Z(w.h, ch)
    BY SharedCountsAlike, Zenon
    DEF Shared!Stride1000Z, Stride1000Z, Shared!Points1000Z, Points1000Z,
        Shared!Lane1000Z, Lane1000Z
  <2> QED
    BY <2>1, SharedCutsAlike, Zenon DEF Shared!Prepare1000Z, Prepare1000Z
<1>2. Shared!Prepare1000E(w, ch, s, l) = Prepare1000E(w, ch, s, l)
  BY SharedCutsAlike, Zenon DEF Shared!Prepare1000E, Prepare1000E, Shared!Points1000E, Points1000E,
         Shared!Skip1000E, Skip1000E, Shared!DataStart1000E, DataStart1000E,
         Shared!MonusSat, MonusSat
<1>3. Shared!Prepare2000(w, ch, s, l) = Prepare2000(w, ch, s, l)
  BY SharedCutsAlike, Zenon DEF Shared!Prepare2000, Prepare2000
<1>4. Shared!Prepare4000(w, ch, s, l) = Prepare4000(w, ch, s, l)
  BY SharedCutsAlike, Zenon DEF Shared!Prepare4000, Prepare4000
<1>5. Shared!PrepareTek(w, ch, s, l) = PrepareTek(w, ch, s, l)
  BY SharedCutsAlike, Zenon DEF Shared!PrepareTek, PrepareTek, Shared!TekAt, TekAt
<1>6. Shared!PrepareIsf(w, ch, s, l) = PrepareIsf(w, ch, s, l)
  BY SharedCutsAlike, Zenon DEF Shared!PrepareIsf, PrepareIsf
<1>7. Shared!PrepareDho(w, ch, s, l) = PrepareDho(w, ch, s, l)
  BY SharedCutsAlike, Zenon DEF Shared!PrepareDho, PrepareDho
<1>8. Shared!PrepareKeysight(w, ch, s, l) = PrepareKeysight(w, ch, s, l)
  BY SharedCutsAlike, Zenon DEF Shared!PrepareKeysight, PrepareKeysight
<1>9. Shared!PrepareSiglent(w, ch, s, l) = PrepareSiglent(w, ch, s, l)
  BY SharedCutsAlike, Zenon DEF Shared!PrepareSiglent, PrepareSiglent, Shared!FindChannel, FindChannel,
         Shared!Entries, Entries
<1>10. Shared!PrepareLecroy(w, ch, s, l) = PrepareLecroy(w, ch, s, l)
  BY SharedCutsAlike, Zenon DEF Shared!PrepareLecroy, PrepareLecroy
<1>11. Shared!PrepareRs(w, ch, s, l) = PrepareRs(w, ch, s, l)
  BY SharedCutsAlike, Zenon DEF Shared!PrepareRs, PrepareRs, Shared!FindChannel, FindChannel,
         Shared!Entries, Entries, Shared!RsType, RsType
<1> QED
  BY <1>1, <1>2, <1>3, <1>4, <1>5, <1>6, <1>7, <1>8, <1>9, <1>10, <1>11, Zenon
  DEF Shared!Prepare, Prepare

LEMMA SharedDecodesAlike ==
    ASSUME NEW w, NEW ch, NEW s, NEW l
    PROVE  Shared!ChannelData(w, ch, s, l) = ChannelData(w, ch, s, l)
<1>1. \A p : Shared!DecodeWith(p) = DecodeWith(p)
  BY Zenon DEF Shared!DecodeWith, DecodeWith, Shared!Parallel, Parallel, Shared!DecodeEach, DecodeEach,
     Shared!DecodeSerialTyped, DecodeSerialTyped, Shared!FastPath, FastPath,
     Shared!DecodeChunks, DecodeChunks, Shared!RawIdx, RawIdx, Shared!Where, Where,
     Shared!InBounds, InBounds, Shared!ReadSample, ReadSample, Shared!Ok, Ok,
     Shared!Panic, Panic, Shared!BytesPerSample, BytesPerSample,
     Shared!SampleTypes, SampleTypes
<1> QED
  BY <1>1, SharedPreparesAlike, Zenon DEF Shared!ChannelData, ChannelData

LEMMA SharedSlotsAlike ==
    ASSUME NEW w
    PROVE  Shared!SlotChannels(w) = SlotChannels(w)
<1>1. \A S : Shared!InOrder(S) = InOrder(S)
  BY Zenon DEF Shared!InOrder, InOrder, Shared!Cardinality, Cardinality
<1>2. Shared!Channels = Channels /\ Shared!NoEntry = NoEntry
  BY DEF Shared!Channels, Channels, Shared!NoEntry, NoEntry
<1>3. Shared!EnabledChannels(w) = EnabledChannels(w)
  BY <1>1, <1>2, Zenon DEF Shared!EnabledChannels, EnabledChannels
<1> QED
  BY <1>3, Zenon DEF Shared!SlotChannels, SlotChannels

(* PlansAssumption speaks of any handles that files can be opened to: the  *)
(* slots are numbers and a plan asks for a number of samples.              *)
LEMMA PlansOfHeld ==
    ASSUME NEW w, Shared!Held(w), NEW req, CallShaped(req)
    PROVE  /\ SlotChannels(w) \in Seq(Nat)
           /\ \A k \in 1 .. Len(Slots(w, req)) :
                SlotPlan(w, req, k).tag = "plan" => SlotPlan(w, req, k).plan.n \in Nat
<1>1. SlotChannels(w) \in Seq(Nat)
  BY SharedAssumed, Shared!SlotsAreNumbers, SharedSlotsAlike
<1>2. ASSUME NEW k \in 1 .. Len(Slots(w, req)), SlotPlan(w, req, k).tag = "plan"
      PROVE  SlotPlan(w, req, k).plan.n \in Nat
  <2> DEFINE ch == Slots(w, req)[k]
             s == req.start
             l == req.length
  <2>1. ch \in Nat
    <3>1. CASE req.all
      BY <1>1, <1>2, <3>1 DEF Slots
    <3>2. CASE ~req.all
      BY <1>2, <3>2 DEF Slots, CallShaped
    <3> QED
      BY <3>1, <3>2
  <2>2. s \in Shared!Args /\ l \in Shared!Args
    BY SharedArguments DEF CallShaped
  <2>3. SlotPlan(w, req, k) = Shared!Prepare(w, ch, s, l)
    BY SharedPreparesAlike DEF SlotPlan
  <2> HIDE DEF ch, s, l
  <2> QED
    BY <1>2, <2>1, <2>2, <2>3, SharedAssumed, Shared!PlansAreNumbers
<1> QED
  BY <1>1, <1>2

(* What a thread asked for one channel of a capture is told: a window of   *)
(* the whole channel, or the error every slice of it ends in. Slot by slot *)
(* the same is in what a thread asking for all channels is told. A panic   *)
(* has one of three headers for its cause.                                 *)
RepliesFit ==
    \A t \in Threads : call[t].st = "done" =>
        LET req == call[t].req
            reply == call[t].reply
            slots == SlotChannels(wfm)
            Fits(ch, part) == Shared!IsWindow(wfm, ch, req.start, req.length, part)
        IN  /\ ~req.all => Fits(req.ch, reply)
            /\ req.all /\ reply.tag = "ok" =>
                 /\ DOMAIN reply.val = 1 .. Len(slots)
                 /\ \A k \in 1 .. Len(slots) :
                      \E part : Fits(slots[k], part) /\ reply.val[k] = AsSlot(part)
            /\ reply.tag = "panic" => Shared!PanicCause(wfm, req.start, req.length)

LEMMA FitsOne ==
    ASSUME NEW w, Shared!Held(w), NEW ch \in Nat, NEW s \in AnyUsize, NEW l \in AnyUsize
    PROVE  LET r == ChannelData(w, ch, s, l)
           IN  /\ Shared!IsWindow(w, ch, s, l, r)
               /\ r.tag = "panic" => Shared!PanicCause(w, s, l)
<1>1. s \in Shared!Args /\ l \in Shared!Args
  BY SharedArguments
<1>2. Shared!ChannelData(w, ch, s, l) = ChannelData(w, ch, s, l)
  BY SharedDecodesAlike
<1>3. Shared!IsWindow(w, ch, s, l, Shared!ChannelData(w, ch, s, l))
  BY <1>1, SharedAssumed, Shared!WindowOfWhole
<1>4. Shared!ChannelData(w, ch, s, l).tag = "panic" => Shared!PanicCause(w, s, l)
  BY <1>1, SharedAssumed, Shared!CauseOfPanic
<1> QED
  BY <1>2, <1>3, <1>4

LEMMA FitsAll ==
    ASSUME NEW w, Shared!Held(w), NEW s \in AnyUsize, NEW l \in AnyUsize
    PROVE  LET r == AllChannels(w, s, l)
               slots == SlotChannels(w)
           IN  /\ r.tag = "ok" =>
                    /\ DOMAIN r.val = 1 .. Len(slots)
                    /\ \A k \in 1 .. Len(slots) :
                         \E part : /\ Shared!IsWindow(w, slots[k], s, l, part)
                                   /\ r.val[k] = AsSlot(part)
               /\ r.tag = "panic" => Shared!PanicCause(w, s, l)
<1> DEFINE slots == SlotChannels(w)
           n == Len(slots)
           R(k) == ChannelData(w, slots[k], s, l)
           r == AllChannels(w, s, l)
<1>1. slots \in Seq(Nat)
  BY SharedAssumed, Shared!SlotsAreNumbers, SharedSlotsAlike
<1>2. ASSUME NEW k \in 1 .. n
      PROVE  /\ Shared!IsWindow(w, slots[k], s, l, R(k))
             /\ R(k).tag = "panic" => Shared!PanicCause(w, s, l)
  <2>1. slots[k] \in Nat
    BY <1>1
  <2> QED
    BY <2>1, FitsOne
<1>3. r = IF \E k \in 1 .. n : R(k).tag = "panic" THEN Panic("a slot panicked")
          ELSE Ok([k \in 1 .. n |-> AsSlot(R(k))])
  BY DEF AllChannels, AsSlot
<1> HIDE DEF R, r, slots
<1>4. CASE \E k \in 1 .. n : R(k).tag = "panic"
  <2>1. Shared!PanicCause(w, s, l)
    BY <1>2, <1>4
  <2>2. r.tag = "panic"
    BY <1>3, <1>4 DEF Panic
  <2> QED
    BY <2>1, <2>2 DEF r, slots
<1>5. CASE ~\E k \in 1 .. n : R(k).tag = "panic"
  <2>1. r.tag = "ok" /\ r.val = [k \in 1 .. n |-> AsSlot(R(k))]
    BY <1>3, <1>5 DEF Ok
  <2>2. DOMAIN r.val = 1 .. n /\ \A k \in 1 .. n : r.val[k] = AsSlot(R(k))
    BY <2>1
  <2> QED
    BY <1>2, <2>1, <2>2 DEF r, slots
<1> QED
  BY <1>4, <1>5

(* Whatever the threads, the workers and the panics do meanwhile, on any   *)
(* handle a file can be opened to: the slices threads get fit the whole    *)
(* channel and so each other, and a thread sees a panic only for the       *)
(* headers and slices of PanicCause (lib.rs:97, 106; parser.rs:15-20,      *)
(* 397, 449, 483).                                                         *)
THEOREM ConcurrentWindows ==
    ASSUME HeldHandles, \A req \in Requests : CallShaped(req)
    PROVE  Safety => []RepliesFit
<1>1. IInv => RepliesFit
  <2> SUFFICES ASSUME IInv, NEW t \in Threads, call[t].st = "done"
               PROVE  LET req == call[t].req
                          reply == call[t].reply
                          slots == SlotChannels(wfm)
                          Fits(ch, part) ==
                              Shared!IsWindow(wfm, ch, req.start, req.length, part)
                      IN  /\ ~req.all => Fits(req.ch, reply)
                          /\ req.all /\ reply.tag = "ok" =>
                               /\ DOMAIN reply.val = 1 .. Len(slots)
                               /\ \A k \in 1 .. Len(slots) :
                                    \E part : /\ Fits(slots[k], part)
                                              /\ reply.val[k] = AsSlot(part)
                          /\ reply.tag = "panic" =>
                               Shared!PanicCause(wfm, req.start, req.length)
    BY DEF RepliesFit
  <2> DEFINE req == call[t].req
  <2>1. wfm \in Handles /\ CallShape(call[t])
    BY DEF IInv, CallsInv
  <2>2. req \in Requests
    BY <2>1 DEF CallShape, Idle
  <2>3. Shared!Held(wfm) /\ CallShaped(req)
    BY <2>1, <2>2 DEF HeldHandles
  <2>4. call[t].reply = Expected(wfm, req)
    BY DEF IInv, ReplyCorrect
  <2>5. req.start \in AnyUsize /\ req.length \in AnyUsize
    BY <2>3 DEF CallShaped
  <2> HIDE DEF req
  <2>6. CASE req.all
    <3>1. call[t].reply = AllChannels(wfm, req.start, req.length)
      BY <2>4, <2>6 DEF Expected
    <3> QED
      BY <2>3, <2>5, <2>6, <3>1, FitsAll DEF req
  <2>7. CASE ~req.all
    <3>1. req.ch \in Nat
      BY <2>3, <2>7 DEF CallShaped
    <3>2. call[t].reply = ChannelData(wfm, req.ch, req.start, req.length)
      BY <2>4, <2>7 DEF Expected
    <3> QED
      BY <2>3, <2>5, <2>7, <3>1, <3>2, FitsOne DEF req
  <2> QED
    BY <2>6, <2>7
<1> QED
  BY <1>1, Inductive, PTL
=============================================================================
