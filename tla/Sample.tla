------------------------------- MODULE Sample -------------------------------
(***************************************************************************)
(* The byte-to-volts loop of crates/wfm_oxide/src/sample.rs.               *)
(*                                                                         *)
(* A "plan" is the argument list of one decode: the bytes to read from,    *)
(* how many samples, their type, the index closure and the calibration.    *)
(* A decoded sample is abstracted to where its bytes come from: its type,  *)
(* its absolute position in the mapped file and the calibration applied.   *)
(* The arithmetic of f32 is not modelled.                                  *)
(***************************************************************************)
EXTENDS Integers

CONSTANT SerialThreshold     \* SERIAL_THRESHOLD, 256 000 in the code

ASSUME ThresholdAssumption == SerialThreshold \in Nat

(* Outcomes of a Rust call: Ok(v), Err(e), or an unwinding panic. *)
Ok(v)    == [tag |-> "ok", val |-> v]
Err(e)   == [tag |-> "err", why |-> e]
Panic(e) == [tag |-> "panic", why |-> e]

SampleTypes == {"U8", "I8", "U16Le", "U16Be", "I16Le", "I16Be",
                "I32Le", "I32Be", "F32Le"}

BytesPerSample == [ty \in SampleTypes |->
    IF ty \in {"U8", "I8"} THEN 1
    ELSE IF ty \in {"U16Le", "U16Be", "I16Le", "I16Be"} THEN 2 ELSE 4]

(* Every raw_idx closure of parser.rs has this shape (parser.rs:141,226,   *)
(* 346,382,557): identity has mul = div = 1 and add = 0.                   *)
RawIdx(ix, i) == ((ix.start + i) * ix.mul + ix.add) \div ix.div

(* The buffer and the byte in it where sample i starts. A woven plan is    *)
(* the DS2000 loop over two buffers, which does not go through decode_with.*)
Where(p, i) ==
    IF p.woven
    THEN LET r == p.idx.start + i
         IN  [buf |-> IF r % 2 = 0 THEN p.buf ELSE p.odd, at |-> r \div 2]
    ELSE [buf |-> p.buf, at |-> RawIdx(p.idx, i) * BytesPerSample[p.ty]]

(* read_sample indexes the slice byte by byte: past its end Rust panics.   *)
InBounds(p, i) ==
    LET w == Where(p, i) IN w.at + BytesPerSample[p.ty] <= w.buf.len

(* The sample read_sample returns for index i, calibrated. *)
ReadSample(p, i) ==
    LET w == Where(p, i)
    IN  [ty |-> p.ty, at |-> w.buf.off + w.at, cal |-> p.cal]

(* The per-element loop. One index out of bounds fails the whole decode.   *)
DecodeEach(p) ==
    IF \A i \in 0 .. p.n - 1 : InBounds(p, i)
    THEN Ok([i \in 0 .. p.n - 1 |-> ReadSample(p, i)])
    ELSE Panic("index out of bounds")

(* Variant: the closure is probed at index 0 only. *)
FastPathUnprobed(p) ==
    RawIdx(p.idx, 0) = 0 /\ p.n * BytesPerSample[p.ty] <= p.buf.len

(* The probe that guards chunks_exact: it looks at two indices only.       *)
FastPath(p) ==
    /\ RawIdx(p.idx, 0) = 0
    /\ RawIdx(p.idx, 1) = 1
    /\ p.n * BytesPerSample[p.ty] <= p.buf.len

(* Chunk i of chunks_exact starts at i * bpp whatever the closure says. *)
DecodeChunks(p) ==
    Ok([i \in 0 .. p.n - 1 |-> [ty |-> p.ty,
                                at |-> p.buf.off + i * BytesPerSample[p.ty],
                                cal |-> p.cal]])

DecodeSerialTyped(p) ==
    IF FastPath(p) /\ p.ty \notin {"I32Le", "I32Be"}
    THEN DecodeChunks(p)
    ELSE DecodeEach(p)

(* Which decodes fan out over the rayon pool: large ones, and every woven  *)
(* one, whose loop is a par_iter of its own.                               *)
Parallel(p) == p.woven \/ p.n >= SerialThreshold

(* What the decode of a plan returns. The parallel branch collects the     *)
(* same per-element reads in index order.                                  *)
DecodeWith(p) == IF Parallel(p) THEN DecodeEach(p) ELSE DecodeSerialTyped(p)
=============================================================================
