----------------------------- MODULE Extraction -----------------------------
(***************************************************************************)
(* Python threads calling get_channel_data and get_all_channels on one     *)
(* handle at the same time, and the rayon pool that runs them.             *)
(*                                                                         *)
(* Each binding releases the GIL, so calls overlap. get_all_channels is a  *)
(* par_iter over channel slots; a slot whose decode is large is itself a   *)
(* par_iter over sample indices, so parallel loops nest. A "frame" is one  *)
(* running par_iter: <<t, 0>> is the loop over slots of thread t's call,   *)
(* <<t, k>> the decode of its slot k. The pool halves the ranges of a      *)
(* frame; a worker takes a range and walks it index by index, a "leaf".    *)
(* A worker whose leaf waits for a nested frame takes other ranges, of any *)
(* call, on top of it. A panic ends its leaf and marks its frame; the      *)
(* frame's other ranges still run before the panic reaches the caller.     *)
(***************************************************************************)
EXTENDS CallSpec

CONSTANTS Workers,    \* threads of the global rayon pool
          MaxSlots    \* the most slots get_all_channels has on a handle

ASSUME WorkersAssumption == Workers # {}
ASSUME SlotsAssumption ==
    /\ MaxSlots \in Nat \ {0}
    /\ \A w \in Handles : Len(SlotChannels(w)) <= MaxSlots

VARIABLES mapped,     \* the mmap is alive
          frame,      \* the parallel loops
          leaves      \* the ranges workers are walking

vars == <<wfm, call, mapped, frame, leaves>>

Slots(w, req) == IF req.all THEN SlotChannels(w) ELSE <<req.ch>>
SlotPlan(w, req, k) == Prepare(w, Slots(w, req)[k], req.start, req.length)

(* parser.rs:48-53, 73-75: three families decode their single slot in the  *)
(* calling thread instead of opening a par_iter over slots.                *)
Fans(w, req) == req.all /\ w.fam \notin {"Tektronix", "Isf", "Lecroy"}

(* Slots are numbered, and a plan asks for a number of samples. *)
ASSUME PlansAssumption ==
    \A w \in Handles, req \in Requests :
        /\ SlotChannels(w) \in Seq(Nat)
        /\ \A k \in 1 .. Len(Slots(w, req)) :
             SlotPlan(w, req, k).tag = "plan" => SlotPlan(w, req, k).plan.n \in Nat

Span(lo, hi) == [lo |-> lo, hi |-> hi]
Unset   == [tag |-> "unset"]
NoFrame == [open |-> FALSE]
(* Variant: one index too many. *)
NewFrameLong(n) ==
    [open |-> TRUE, n |-> n, left |-> {Span(0, n + 1)}, bad |-> FALSE,
     out |-> [i \in 0 .. n - 1 |-> Unset]]
NewFrame(n) == [open |-> TRUE, n |-> n, left |-> {Span(0, n)}, bad |-> FALSE,
                out |-> [i \in 0 .. n - 1 |-> Unset]]

Frames == Threads \X (0 .. MaxSlots)
Request(f) == call[f[1]].req

(* A par_iter returns once no range of it is left or being walked. *)
Finished(f) == frame[f].left = {} /\ \A l \in leaves : l.f # f

(* Collecting a finished frame: its results in index order, or its panic. *)
Collected(f) ==
    IF frame[f].bad THEN Panic("index out of bounds")
    ELSE Ok([i \in 0 .. frame[f].n - 1 |-> frame[f].out[i]])

-----------------------------------------------------------------------------
Init ==
    /\ CallInit
    /\ mapped = TRUE
    /\ frame = [f \in Frames |-> NoFrame]
    /\ leaves = {}

(* A thread enters a call. It opens the loop over slots, or the decode     *)
(* loop of its only slot when that is large, and blocks.                   *)
Begin(t, req) ==
    LET p == SlotPlan(wfm, req, 1)
    IN  /\ mapped
        /\ Ask(t, req)
        /\ frame' =
             IF Fans(wfm, req)
             THEN [frame EXCEPT ![<<t, 0>>] = NewFrame(Len(Slots(wfm, req)))]
             ELSE IF p.tag = "plan" /\ Parallel(p.plan)
             THEN [frame EXCEPT ![<<t, 1>>] = NewFrame(p.plan.n)]
             ELSE frame
        /\ UNCHANGED <<mapped, leaves>>

(* The outcome of a slot decoded without a frame of its own. *)
Inline(p) == IF p.tag = "plan" THEN DecodeWith(p.plan) ELSE p

(* .ok(), and the vec of one slot or of all. *)
AsSlot(r) == IF r.tag = "ok" THEN Some(r.val) ELSE None
OneSlot(req, r) ==
    IF ~req.all THEN r
    ELSE IF r.tag = "panic" THEN Panic("a slot panicked") ELSE Ok(<<AsSlot(r)>>)

(* Variant: slots are collected in the wrong order. *)
AllSlotsReversed(r) ==
    IF r.tag = "panic" THEN Panic("a slot panicked")
    ELSE LET n == Cardinality(DOMAIN r.val) IN Ok([k \in 1 .. n |-> r.val[n - k]])
AllSlots(r) ==
    IF r.tag = "panic" THEN Panic("a slot panicked")
    ELSE Ok([k \in 1 .. Cardinality(DOMAIN r.val) |-> r.val[k - 1]])

(* The call returns: to the caller blocked on its frame when that is       *)
(* finished, at once when nothing was fanned out. Its frames are gone.     *)
Answer(t) ==
    /\ call[t].st = "running"
    /\ LET req == call[t].req
           p   == SlotPlan(wfm, req, 1)
           fan == Fans(wfm, req)
           f   == IF fan THEN <<t, 0>> ELSE <<t, 1>>
       IN  /\ frame[f].open => Finished(f)
           /\ call' = [call EXCEPT ![t] = Done(req,
                 IF fan THEN AllSlots(Collected(f))
                 ELSE OneSlot(req, IF frame[f].open THEN Collected(f) ELSE Inline(p)))]
           /\ frame' = [frame EXCEPT ![f] = NoFrame]
    /\ UNCHANGED <<wfm, mapped, leaves>>

(* Variant: a call does not borrow the handle. *)
DropWhileBorrowed ==
    /\ mapped
    /\ mapped' = FALSE
    /\ UNCHANGED <<wfm, call, frame, leaves>>

(* The handle is dropped: Python keeps it alive while a call borrows it.   *)
Drop ==
    /\ mapped
    /\ \A t \in Threads : call[t].st # "running"
    /\ mapped' = FALSE
    /\ UNCHANGED <<wfm, call, frame, leaves>>

-----------------------------------------------------------------------------
(* The pool. *)

Split(f, r) ==
    LET mid == (r.lo + r.hi) \div 2
    IN  /\ frame[f].open /\ r \in frame[f].left
        /\ r.hi - r.lo >= 2
        /\ frame' = [frame EXCEPT ![f].left =
                        (@ \ {r}) \cup {Span(r.lo, mid), Span(mid, r.hi)}]
        /\ UNCHANGED <<wfm, call, mapped, leaves>>

Depth(w) == Cardinality({l \in leaves : l.w = w})
OnTop(l) == l \in leaves /\ l.d = Depth(l.w)
IsSlotLoop(f) == f[2] = 0
Child(l) == <<l.f[1], l.pos + 1>>

(* A leaf of a loop over slots waits for the nested loop of its slot.      *)
Waiting(l) ==
    /\ IsSlotLoop(l.f) /\ l.pos < l.hi
    /\ frame[Child(l)].open /\ ~Finished(Child(l))

(* Variant: a worker may leave a slot it is decoding. *)
FreeAnySlot(w) == \A l \in leaves : l.w = w => (OnTop(l) => IsSlotLoop(l.f))

Free(w) == \A l \in leaves : l.w = w => (OnTop(l) => Waiting(l))

Take(w, f, r) ==
    /\ frame[f].open /\ r \in frame[f].left
    /\ Free(w)
    /\ frame' = [frame EXCEPT ![f].left = @ \ {r}]
    /\ leaves' = leaves \cup {[w |-> w, d |-> Depth(w) + 1, f |-> f,
                               pos |-> r.lo, hi |-> r.hi]}
    /\ UNCHANGED <<wfm, call, mapped>>

Advance(l) == leaves' = (leaves \ {l}) \cup {[l EXCEPT !.pos = @ + 1]}
Unwind(l)  == leaves' = leaves \ {l}

(* A leaf's element is stored, or panics and ends the leaf. *)
Store(l, v) == frame' = [frame EXCEPT ![l.f].out[l.pos] = v] /\ Advance(l)
Fail(l)     == frame' = [frame EXCEPT ![l.f].bad = TRUE] /\ Unwind(l)

(* One element of a decode loop: read and store, or panic. *)
DecodeSample(l) ==
    LET p == SlotPlan(wfm, Request(l.f), l.f[2]).plan
    IN  /\ OnTop(l) /\ ~IsSlotLoop(l.f) /\ l.pos < l.hi
        /\ IF InBounds(p, l.pos)
           THEN Store(l, ReadSample(p, l.pos))
           ELSE Fail(l)
        /\ UNCHANGED <<wfm, call, mapped>>

(* One slot of get_all_channels whose decode needs no frame. *)
DecodeSlot(l) ==
    LET p == SlotPlan(wfm, Request(l.f), l.pos + 1)
        r == Inline(p)
    IN  /\ OnTop(l) /\ IsSlotLoop(l.f) /\ l.pos < l.hi
        /\ ~(p.tag = "plan" /\ Parallel(p.plan))
        /\ IF r.tag # "panic"
           THEN Store(l, AsSlot(r))
           ELSE Fail(l)
        /\ UNCHANGED <<wfm, call, mapped>>

(* Variant: the nested loop is started again while it runs. *)
NestAgain(l) ==
    LET p == SlotPlan(wfm, Request(l.f), l.pos + 1)
    IN  /\ OnTop(l) /\ IsSlotLoop(l.f) /\ l.pos < l.hi
        /\ p.tag = "plan" /\ Parallel(p.plan)
        /\ frame' = [frame EXCEPT ![Child(l)] = NewFrame(p.plan.n)]
        /\ UNCHANGED <<wfm, call, mapped, leaves>>

(* One slot of get_all_channels whose decode is a parallel loop itself. *)
Nest(l) ==
    LET p == SlotPlan(wfm, Request(l.f), l.pos + 1)
    IN  /\ OnTop(l) /\ IsSlotLoop(l.f) /\ l.pos < l.hi
        /\ p.tag = "plan" /\ Parallel(p.plan)
        /\ ~frame[Child(l)].open
        /\ frame' = [frame EXCEPT ![Child(l)] = NewFrame(p.plan.n)]
        /\ UNCHANGED <<wfm, call, mapped, leaves>>

(* Variant: a slot that panics is taken for one that fails. *)
JoinSwallowing(l) ==
    LET c == Child(l)
    IN  /\ OnTop(l) /\ IsSlotLoop(l.f) /\ l.pos < l.hi
        /\ frame[c].open /\ Finished(c)
        /\ frame' = [frame EXCEPT ![c] = NoFrame,
                        ![l.f].out[l.pos] = AsSlot(Collected(c))]
        /\ Advance(l)
        /\ UNCHANGED <<wfm, call, mapped>>

(* ... which has finished: its result is the slot's, its panic goes on up. *)
Join(l) ==
    LET c == Child(l)
    IN  /\ OnTop(l) /\ IsSlotLoop(l.f) /\ l.pos < l.hi
        /\ frame[c].open /\ Finished(c)
        /\ IF frame[c].bad
           THEN /\ frame' = [frame EXCEPT ![c] = NoFrame, ![l.f].bad = TRUE]
                /\ Unwind(l)
           ELSE /\ frame' = [frame EXCEPT ![c] = NoFrame,
                                ![l.f].out[l.pos] = AsSlot(Collected(c))]
                /\ Advance(l)
        /\ UNCHANGED <<wfm, call, mapped>>

(* The end of a range. *)
Return(l) ==
    /\ OnTop(l) /\ l.pos = l.hi
    /\ Unwind(l)
    /\ UNCHANGED <<wfm, call, mapped, frame>>

Walk(l) == DecodeSample(l) \/ DecodeSlot(l) \/ Nest(l) \/ Join(l) \/ Return(l)

Work(w) ==
    \/ \E f \in Frames : frame[f].open /\ \E r \in frame[f].left : Take(w, f, r)
    \/ \E l \in leaves : l.w = w /\ Walk(l)

Next ==
    \/ \E t \in Threads : Answer(t) \/ \E req \in Requests : Begin(t, req)
    \/ Drop
    \/ \E f \in Frames : frame[f].open /\ \E r \in frame[f].left : Split(f, r)
    \/ \E w \in Workers : Work(w)

Safety == Init /\ [][Next]_vars

(* Workers loop until the pool has no work (rayon's main loop), and a      *)
(* caller is woken when its frame is done.                                 *)
Spec ==
    /\ Safety
    /\ \A w \in Workers : WF_vars(Work(w))
    /\ \A t \in Threads : WF_vars(Answer(t))

-----------------------------------------------------------------------------
TypeOK ==
    /\ wfm \in Handles /\ mapped \in BOOLEAN
    /\ \A t \in Threads :
        /\ call[t].st \in {"idle", "running", "done"}
        /\ call[t].st # "idle" => call[t].req \in Requests
    /\ \A f \in Frames : frame[f].open =>
        /\ frame[f].n \in Nat /\ frame[f].bad \in BOOLEAN
        /\ DOMAIN frame[f].out = 0 .. frame[f].n - 1
        /\ \A r \in frame[f].left : r.lo \in 0 .. r.hi /\ r.hi \in 0 .. frame[f].n
    /\ \A l \in leaves :
        /\ l.w \in Workers /\ l.f \in Frames
        /\ l.pos \in 0 .. l.hi /\ l.hi \in Nat

(* Whatever the interleaving of threads, workers, nested loops and panics, *)
(* a call is answered with what running it alone would return (lib.rs:97,  *)
(* 106; sample.rs:162-198; parser.rs:25-82, 447-451).                      *)
ReplyCorrect ==
    \A t \in Threads : call[t].st = "done" =>
        call[t].reply = Expected(wfm, call[t].req)

(* The closures the pool runs borrow the handle and the caller's stack: no *)
(* range is waiting or being walked for a call that is not running, and    *)
(* none at all once the file is unmapped, also when a sibling range has    *)
(* panicked.                                                               *)
WorkIsBorrowed ==
    /\ \A f \in Frames : frame[f].open => mapped /\ call[f[1]].st = "running"
    /\ \A l \in leaves : mapped /\ call[l.f[1]].st = "running" /\ frame[l.f].open

(* In a loop that has not panicked every index is in one place: stored,    *)
(* in one range left, or ahead of one leaf. So collect() finds every slot  *)
(* written, and none was written by two workers.                           *)
Places(f, i) ==
    (IF frame[f].out[i] # Unset THEN 1 ELSE 0)
    + Cardinality({r \in frame[f].left : r.lo <= i /\ i < r.hi})
    + Cardinality({l \in leaves : l.f = f /\ l.pos <= i /\ i < l.hi})

EachIndexOnce ==
    \A f \in Frames : frame[f].open => \A i \in 0 .. frame[f].n - 1 :
        IF frame[f].bad THEN Places(f, i) <= 1 ELSE Places(f, i) = 1

(* A worker walks the ranges it has taken as a stack: what is below the    *)
(* top waits for a nested loop, so the pool never runs out of workers that *)
(* can go on while work is left.                                           *)
BelowTopWaits ==
    \A l \in leaves : ~OnTop(l) =>
        /\ IsSlotLoop(l.f) /\ l.pos < l.hi
        /\ frame[Child(l)].open

(* Every call returns, also when loops nest deeper than there are workers, *)
(* and also when a range panics.                                           *)
CallsReturn == \A t \in Threads : call[t].st = "running" ~> call[t].st = "done"

(* A stored sample or slot stays until its loop is collected, and a panic  *)
(* mark is never lost on the way to the caller.                            *)
ResultsStay ==
    [][\A f \in Frames : frame[f].open /\ frame'[f].open =>
        /\ frame[f].bad => frame'[f].bad
        /\ \A i \in 0 .. frame[f].n - 1 :
             frame[f].out[i] # Unset => frame'[f].out[i] = frame[f].out[i]]_vars

(* The concurrent calls implement the atomic ones of CallSpec (lib.rs:97,  *)
(* 106): a call takes effect where it is answered. The two share wfm and   *)
(* call, so the refinement mapping is the identity.                        *)
ImplementsCalls == CallSafety
=============================================================================
