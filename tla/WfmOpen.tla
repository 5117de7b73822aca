------------------------------ MODULE WfmOpen -------------------------------
(***************************************************************************)
(* WfmFile::open from its first look at the file to its answer: the        *)
(* detectors of Sniff and, for a file that Keysight or DHO claims, the     *)
(* walk of that family's parser. A capture has a mark, what the detectors  *)
(* look at, and a Keysight or a DHO body, or neither: then whether the     *)
(* parser accepts it is part of the mark.                                  *)
(***************************************************************************)
EXTENDS KeysightScan

CONSTANT Captures     \* [mark, keysight, dho]

VARIABLES file,                               \* the mark of the file
          asked, claim,                       \* pc and result of the detectors
          dho, whole,                         \* the DHO body, and all it describes
          at, offset, blocks, cals, found     \* the rest of the DHO walk

sniffVars == <<file, asked, claim>>
dhoVars   == <<dho, whole, at, offset, blocks, cals, found>>
allVars   == <<sniffVars, vars, dhoVars>>

NoKeysight == [size |-> 0, n |-> -1, recs |-> <<>>, timed |-> FALSE]
NoDho      == [size |-> 0, blocks |-> <<>>, sec |-> 24, n |-> 0, hint |-> 0,
               rest |-> 0, fill |-> 0]

S == INSTANCE Sniff WITH pc <- asked, result <- claim
D == INSTANCE DhoScan WITH raw <- dho, pc <- at, result <- found

(* The mark of a file with a body: of that size, with one of these heads,  *)
(* taken by no text; that the parser decides is said by parses.            *)
MarkOfBody(m, heads, size) ==
    /\ m.size = size /\ m.head \in heads /\ m.parses
    /\ m.keyword + 5 > S!LessOf(size, 512)
    /\ m.wavedesc > S!SearchLimit

Cookies == {<<65, 71, 49, 48>>, <<82, 71, 49, 48>>}

(* Only of a file with a body more is known than its mark. *)
ASSUME CapturesAssumption ==
    /\ {c.keysight : c \in Captures} \subseteq Raws
    /\ \A m \in {c.mark : c \in Captures} : S!MarkShape(m) /\ "h" \notin DOMAIN m
    /\ \A r \in {c.dho : c \in Captures} \ {NoDho} : D!RawShape(r)
    /\ \A c \in Captures :
        /\ c.keysight # NoKeysight =>
            c.dho = NoDho /\ MarkOfBody(c.mark, Cookies, c.keysight.size)
        /\ c.dho # NoDho =>
            /\ MarkOfBody(c.mark, {<<2, 0, 0, 0>>}, c.dho.size)
            /\ c.mark.words[2] < 65536 /\ c.mark.words[3] = 0

OpenInit ==
    /\ \E c \in Captures : file = c.mark /\ raw = c.keysight /\ dho = c.dho
    /\ S!Init /\ Begin /\ D!Init

Sniffing == S!Next /\ UNCHANGED <<vars, dhoVars>>

WalkKeysight ==
    /\ claim = S!Ok("Keysight") /\ raw # NoKeysight
    /\ Next
    /\ UNCHANGED <<sniffVars, dhoVars>>

WalkDho ==
    /\ claim = S!Ok("Dho") /\ dho # NoDho
    /\ D!Next
    /\ UNCHANGED <<sniffVars, vars>>

OpenNext == Sniffing \/ WalkKeysight \/ WalkDho

Opens == OpenInit /\ [][OpenNext]_allVars /\ WF_allVars(OpenNext)

(* What open has returned: the parser's answer where there is a body, the  *)
(* detectors' where there is none or nobody claims the file.               *)
Returned ==
    CASE claim = S!Ok("Keysight") /\ raw # NoKeysight -> result
      [] claim = S!Ok("Dho") /\ dho # NoDho -> found
      [] OTHER -> IF claim.tag = "ok" THEN Ok(claim.fam) ELSE claim

-----------------------------------------------------------------------------
(* open never panics on a short file: each detector, reader and walk       *)
(* checks the length before it looks, and the DHO walk stays in the file   *)
(* and within the blocks it has (mmap.rs:170-172, 239-241, dho.rs:63-95).  *)
StaysInFile == S!TypeOK /\ D!TypeOK

(* No file carries the marks of two families: Siglent, which has no magic, *)
(* is told from DHO by its first flag alone, so the order of these         *)
(* detectors cannot matter (mmap.rs:197-331, siglent.rs:96-106).           *)
OneSignature == S!OneSignature

(* A file is lost to the family whose mark it carries only by the searches *)
(* for a text, never because that family's parser fails (mmap.rs:113-235). *)
SignatureDecides == S!SignatureDecides

(* An ISF file is read as it was written exactly when the waveform label   *)
(* holds no '#' (mmap.rs:123-133, 173-175).                                *)
CurveFound == S!CurveFound

(* An accepted DHO file is read as it was written exactly when the low     *)
(* byte of its point count is not zero (dho.rs:231-234).                   *)
ReadAsWritten == D!ReadAsWritten

Abstract == INSTANCE OpenSpec WITH
    file   <- IF raw # NoKeysight THEN Described(raw)
              ELSE IF dho # NoDho THEN whole ELSE file,
    answer <- CASE Returned.tag = "none" -> [tag |-> "pending"]
                [] Returned.tag = "ok"   -> Returned
                [] OTHER                 -> [tag |-> "failed"]

(* open ends, once, and a Keysight or DHO file is answered with exactly    *)
(* the handle or the error that the file as a whole calls for: recognised  *)
(* as what it is, no record or block skipped, read twice or read at the    *)
(* wrong place, the buffer and calibrations kept the ones preferred        *)
(* (mmap.rs:197-236, keysight.rs:129, dho.rs:275).                         *)
ImplementsOpen == Abstract!Spec
=============================================================================
