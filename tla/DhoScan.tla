------------------------------ MODULE DhoScan -------------------------------
(***************************************************************************)
(* dho::parse: the walk over the metadata blocks up to their terminator,   *)
(* the calibrations taken from them, the search for the data section       *)
(* behind the zero padding, and its header.                                *)
(*                                                                         *)
(* A raw file has the blocks as the reader meets them, the terminator last *)
(* and only there; inflated is the length zlib makes of the content, or    *)
(* Corrupt. The file may be cut anywhere. At sec, behind the terminator    *)
(* and zero padding, comes the 40-byte section header with n (u64) at 0    *)
(* and hint (u32) at 24, its other bytes all equal to rest, and then the   *)
(* payload, its bytes all equal to fill.                                   *)
(***************************************************************************)
EXTENDS Opening

VARIABLES raw,        \* the mapped file, any DHO file
          whole,      \* the same file as OpenDho sees it; no action reads it
          pc,         \* "start", "blocks", "calibrate", "skip", "section", "done"
          offset,     \* offset in the file
          blocks,     \* the blocks read so far
          cals,       \* per slot the number of its calibration block, or NoEntry
          result      \* NoResult, Ok(handle) or Err

vars == <<raw, whole, pc, offset, blocks, cals, result>>

FileHeaderSize  == 24
BlockHeaderSize == 12
SectionSize     == 40
MaxPoints       == 2000000000
Huge            == 2147483647          \* stands for every larger number
Corrupt         == -1

NoResult == [tag |-> "none"]
NoCals   == [c \in Channels |-> NoEntry]

Terminates(blk) == blk.len = 0 /\ blk.comp = 0

(* What the file really holds: the offset behind the terminator, and the   *)
(* byte at any offset from there on.                                       *)
BlocksEnd(r) ==
    LET end[j \in 0 .. Len(r.blocks)] ==
            IF j = 0 THEN FileHeaderSize
            ELSE end[j - 1] + BlockHeaderSize + r.blocks[j].len
    IN  end[Len(r.blocks)]

Byte(n, i) ==
    IF i > 3 THEN 0 ELSE (n \div <<1, 256, 65536, 16777216>>[i + 1]) % 256
ByteAt(r, p) ==
    LET q == p - r.sec
    IN  CASE q < 0         -> 0
          [] q \in 0 .. 7   -> Byte(r.n, q)
          [] q \in 24 .. 27 -> Byte(r.hint, q - 24)
          [] q >= SectionSize -> r.fill
          [] OTHER          -> r.rest

(* The length of a block's content: inflated when the two sizes say so and *)
(* zlib succeeds, as stored otherwise.                                     *)
Decompressed(blk) ==
    IF blk.comp # blk.decomp /\ blk.inflated # Corrupt THEN blk.inflated
    ELSE Smaller(blk.comp, blk.len)

(* What any DHO file has, however its numbers disagree with each other; it *)
(* is mapped.                                                              *)
RawShape(r) ==
    /\ r.size \in Nat /\ r.size < USize /\ Len(r.blocks) \in Nat \ {0}
    /\ \A j \in 1 .. Len(r.blocks) : LET blk == r.blocks[j] IN
         /\ {blk.id, blk.type, blk.comp, blk.decomp, blk.len} \subseteq Nat
         /\ blk.inflated \in Nat \cup {Corrupt}
         /\ Terminates(blk) <=> j = Len(r.blocks)
    /\ r.sec \in Nat /\ r.sec >= BlocksEnd(r)
    /\ r.n \in 0 .. Huge /\ r.hint \in 0 .. Huge
    /\ r.rest \in 0 .. 255 /\ r.fill \in 0 .. 255

-----------------------------------------------------------------------------
(* extract_calibration: of the blocks of the family's type that name slot  *)
(* c and are long enough to hold both numbers, the last one counts.        *)
Dho800Params  == 5
Settings      == 6
ChannelParams == 9

IsDho800(bs) == \E j \in 1 .. Len(bs) : bs[j].type = Dho800Params /\ bs[j].id \in 1 .. 4
Needed(type) == CASE type = Dho800Params  -> 42       \* i64 at 1, i32 at 38
                  [] type = ChannelParams -> 46       \* i64 at 1, i64 at 38

LastOf(S) == IF S = {} THEN NoEntry ELSE CHOOSE j \in S : \A i \in S : i <= j

OwnCals(bs, type) ==
    [c \in Channels |->
        LastOf({j \in 1 .. Len(bs) : /\ bs[j].type = type /\ bs[j].id = c + 1
                                     /\ bs[j].len >= Needed(type)})]

(* The legacy single-channel form: the scale of the last ChannelParams     *)
(* block of slot 1 (i64 at 1) with the centre in a Settings block (i32 at  *)
(* 36).                                                                    *)
LegacyScale(bs) == LastOf({j \in 1 .. Len(bs) : /\ bs[j].id = 1 /\ bs[j].len >= 9
                                                /\ bs[j].type = ChannelParams})
LegacyCentre(bs) == LastOf({j \in 1 .. Len(bs) : /\ bs[j].type = Settings
                                                 /\ bs[j].len >= 40})

Calibrations(bs) ==
    LET own == OwnCals(bs, IF IsDho800(bs) THEN Dho800Params ELSE ChannelParams)
    IN  IF IsDho800(bs) \/ own # NoCals \/ LegacyCentre(bs) = NoEntry THEN own
        ELSE [own EXCEPT ![0] = LegacyScale(bs)]

-----------------------------------------------------------------------------
(* The section header: a little-endian number of w bytes, at most Huge. *)
Number(r, p, w) ==
    IF \/ ByteAt(r, p + 3) >= 128
       \/ \E i \in 4 .. w - 1 : ByteAt(r, p + i) # 0
    THEN Huge
    ELSE ByteAt(r, p) + 256 * ByteAt(r, p + 1) + 65536 * ByteAt(r, p + 2)
         + 16777216 * ByteAt(r, p + 3)

Rounded(n, d) == (n \div d) + (IF n % d >= d - (n % d) THEN 1 ELSE 0)

(* Points per channel and channels. *)
Shape(n, hint) == IF hint > 0 THEN [n |-> hint, nch |-> Rounded(n, hint)]
                  ELSE [n |-> n, nch |-> 1]

(* Variant: the hint is looked for where the u32 before it is. *)
HintFieldBefore(r, p) == Number(r, p + 20, 4)
HintField(r, p)       == Number(r, p + 24, 4)

-----------------------------------------------------------------------------
(* The same file as a whole, for OpenDho: the section header is where the  *)
(* first byte that is not zero follows the terminator.                     *)
Found(r) ==
    LET nonzero == {p \in r.sec .. r.sec + SectionSize :
                        p < r.size /\ ByteAt(r, p) # 0}
    IN  IF nonzero = {} THEN r.size
        ELSE CHOOSE p \in nonzero : \A q \in nonzero : p <= q

Described(r) ==
    LET bs == [j \in 1 .. Len(r.blocks) - 1 |->
                 [id |-> r.blocks[j].id, type |-> r.blocks[j].type,
                  len |-> Decompressed(r.blocks[j])]]
        total  == Number(r, Found(r), 8)
        shape  == Shape(total, HintField(r, Found(r)))
        header == IF Found(r) + SectionSize < r.size /\ total \in 1 .. MaxPoints
                  THEN shape ELSE [n |-> 0, nch |-> 0]
    IN  [fam |-> "Dho", size |-> r.size,
         h |-> [blocks |-> Calibrations(bs), n |-> header.n, nch |-> header.nch,
                data |-> Found(r) + SectionSize]]

-----------------------------------------------------------------------------
Init ==
    /\ whole = Described(raw)
    /\ pc = "start" /\ offset = 0
    /\ blocks = <<>> /\ cals = NoCals /\ result = NoResult

Fail ==
    /\ result' = Err("not a DHO capture")
    /\ pc' = "done"
    /\ UNCHANGED <<raw, whole, offset, blocks, cals>>

Start ==
    /\ pc = "start"
    /\ IF raw.size < FileHeaderSize + BlockHeaderSize THEN Fail
       ELSE /\ offset' = FileHeaderSize
            /\ pc' = "blocks"
            /\ UNCHANGED <<raw, whole, blocks, cals, result>>

-----------------------------------------------------------------------------
(* parse_blocks *)
Block == raw.blocks[Len(blocks) + 1]
HeaderFits == offset + BlockHeaderSize <= raw.size

ReadBlock ==
    /\ pc = "blocks"
    /\ HeaderFits => ~Terminates(Block)
    /\ IF ~HeaderFits \/ offset + BlockHeaderSize + Block.len > raw.size THEN Fail
       ELSE /\ blocks' = Append(blocks, [id |-> Block.id, type |-> Block.type,
                                         len |-> Decompressed(Block)])
            /\ offset' = offset + BlockHeaderSize + Block.len
            /\ UNCHANGED <<raw, whole, pc, cals, result>>

EndOfBlocks ==
    /\ pc = "blocks"
    /\ HeaderFits /\ Terminates(Block)
    /\ IF blocks = <<>> THEN Fail
       ELSE /\ offset' = offset + BlockHeaderSize
            /\ pc' = "calibrate"
            /\ UNCHANGED <<raw, whole, blocks, cals, result>>

Calibrate ==
    /\ pc = "calibrate"
    /\ IF Calibrations(blocks) = NoCals THEN Fail
       ELSE /\ cals' = Calibrations(blocks)
            /\ pc' = "skip"
            /\ UNCHANGED <<raw, whole, offset, blocks, result>>

-----------------------------------------------------------------------------
(* find_data_section *)
AtZero == offset < raw.size /\ ByteAt(raw, offset) = 0

SkipZero ==
    /\ pc = "skip" /\ AtZero
    /\ offset' = offset + 1
    /\ UNCHANGED <<raw, whole, pc, blocks, cals, result>>

EndOfPadding ==
    /\ pc = "skip" /\ ~AtZero
    /\ IF offset + SectionSize >= raw.size THEN Fail
       ELSE /\ pc' = "section"
            /\ UNCHANGED <<raw, whole, offset, blocks, cals, result>>

ReadSection ==
    /\ pc = "section"
    /\ LET total == Number(raw, offset, 8)
           shape == Shape(total, HintField(raw, offset))
           data  == offset + SectionSize
       IN  IF \/ total \notin 1 .. MaxPoints
              \/ shape.n = 0 \/ shape.nch \notin 1 .. 4
              \/ shape.n > (raw.size - data) \div (2 * shape.nch)
           THEN Fail
           ELSE /\ result' = Ok([fam |-> "Dho", size |-> raw.size,
                                 h |-> [n |-> shape.n, nch |-> shape.nch, data |-> data,
                                        cals |-> [c \in Channels |->
                                                    SlotCal(cals, shape.nch, c)]]])
                /\ pc' = "done"
                /\ UNCHANGED <<raw, whole, offset, blocks, cals>>

Next == Start \/ ReadBlock \/ EndOfBlocks \/ Calibrate
        \/ SkipZero \/ EndOfPadding \/ ReadSection

Spec == Init /\ [][Next]_vars /\ WF_vars(Next)

-----------------------------------------------------------------------------
Accepted == result.tag = "ok"
H == result.val.h

(* The walk stays in the file and within the blocks the file has.          *)
TypeOK ==
    /\ pc \in {"start", "blocks", "calibrate", "skip", "section", "done"}
    /\ offset \in 0 .. raw.size
    /\ Len(blocks) <= Len(raw.blocks)
    /\ cals \in [Channels -> 0 .. Len(blocks) \cup {NoEntry}]
    /\ pc = "done" <=> result # NoResult

(* An accepted file is read as it was written exactly when the low byte of *)
(* its point count is not zero: the search for the section takes a zero    *)
(* low byte for padding, and the shifted header may still be plausible     *)
(* (dho.rs:231-234).                                                       *)
AsWritten ==
    LET shape == Shape(raw.n, raw.hint)
    IN  H.n = shape.n /\ H.nch = shape.nch /\ H.data = raw.sec + SectionSize

ReadAsWritten == Accepted => (AsWritten <=> raw.n % 256 # 0)
=============================================================================
