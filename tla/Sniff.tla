------------------------------- MODULE Sniff --------------------------------
(***************************************************************************)
(* WfmFile::open up to the family's own parser: eleven detectors asked in  *)
(* a fixed order, the first to claim the file settling what open returns.  *)
(*                                                                         *)
(* A file f is what the detectors look at: its size, head (its first four  *)
(* bytes, or all of them), words (the u32s at 4, 8 and 12), and where the  *)
(* texts they search for first occur, Nowhere if they do not. f.parses     *)
(* says whether the parser of the family that claims it accepts it.        *)
(***************************************************************************)
EXTENDS Integers, SequencesExt

VARIABLES file,       \* the file being opened, any file
          pc,         \* the detector asked next, or "done"
          result      \* NoResult, or what open returns

vars == <<file, pc, result>>

Nowhere  == 1000000                   \* beyond the end of every file
Text     == 538976288                 \* a u32 none of whose bytes is zero
NoResult == [tag |-> "none"]
Ok(fam)  == [tag |-> "ok", fam |-> fam]
Err      == [tag |-> "err"]
Panic    == [tag |-> "panic"]

Init == pc = "rs" /\ result = NoResult

Settle(r) == result' = r /\ pc' = "done" /\ UNCHANGED file
Pass(next) == pc' = next /\ UNCHANGED <<file, result>>
Accepted(fam, ok) == IF ok THEN Ok(fam) ELSE Err
LessOf(a, b) == IF a <= b THEN a ELSE b

Starts(bytes) == IsPrefix(bytes, file.head)

(* What any file has. Of an ISF file that is a curve with its count of     *)
(* digits behind the '#', and the waveform label, the only text ahead of   *)
(* the curve that may hold another '#', ahead of NR_PT.                    *)
MarkShape(f) ==
    /\ f.size \in Nat /\ f.head \in Seq(0 .. 255) /\ Len(f.head) = LessOf(f.size, 4)
    /\ f.words \in [1 .. 3 -> Nat] /\ f.model \in STRING /\ f.version \in STRING
    /\ f.utf8 \in BOOLEAN /\ f.plausible \in BOOLEAN /\ f.parses \in BOOLEAN
    /\ {f.wide, f.ers, f.keyword, f.wavedesc, f.nrPt, f.pts, f.curve} \subseteq Nat
    /\ f.hashes \subseteq Nat /\ f.digit \in [f.hashes -> 0 .. 255]
    /\ f.curve \in f.hashes =>
         /\ f.digit[f.curve] \in 48 .. 57 /\ f.pts > 0
         /\ f.nrPt < f.curve /\ \A p \in f.hashes : p < f.curve => p < f.nrPt

-----------------------------------------------------------------------------
(* looks_like_rs, is_rs_xml: the first 4096 bytes are UTF-8, start like    *)
(* XML and name an eRS_ value. A two-byte character at file.wide that the  *)
(* cut splits makes them invalid.                                          *)
Sniffed   == 4096
XmlDecl   == <<60, 63, 120, 109>>                       \* <?xm
BomDecl   == <<239, 187, 191, 60>>                      \* the same after a BOM
CutInside == file.size > Sniffed /\ file.wide + 1 = Sniffed
LooksLikeRs ==
    /\ file.utf8 /\ ~CutInside
    /\ Starts(XmlDecl) \/ Starts(BomDecl)
    /\ file.ers + 4 <= LessOf(file.size, Sniffed)

DetectRs ==
    /\ pc = "rs"
    /\ IF LooksLikeRs THEN Settle(Accepted("RohdeSchwarz", file.parses)) ELSE Pass("isf")

(* Tektronix ISF: one of the keywords lies wholly in the first 512 bytes.  *)
(* Variant: the whole file is searched. *)
LooksLikeIsfAnywhere == file.keyword + 5 <= file.size
LooksLikeIsf == file.keyword + 5 <= LessOf(file.size, 512)

(* The header text ends at the first '#': normally the one of the curve,   *)
(* but a waveform label, which comes before NR_PT, may hold one. A '#' at  *)
(* 0 is not seen. The digit byte is a u8, its difference to '0' wraps.     *)
(* Variant: the text ends at the last '#'. *)
HeaderEndLast == IF file.hashes = {} THEN 0
                 ELSE CHOOSE p \in file.hashes : \A q \in file.hashes : q <= p
HeaderEnd == IF file.hashes = {} THEN 0
             ELSE CHOOSE p \in file.hashes : \A q \in file.hashes : p <= q
Digits    == (file.digit[HeaderEnd] + 256 - 48) % 256
ParseIsf ==
    IF HeaderEnd = 0 \/ HeaderEnd + 1 >= file.size THEN Err
    ELSE [tag |-> "ok", fam |-> "Isf", off |-> HeaderEnd + 2 + Digits,
          pts |-> IF file.nrPt < HeaderEnd THEN file.pts ELSE 0]

DetectIsf ==
    /\ pc = "isf"
    /\ IF LooksLikeIsf THEN Settle(ParseIsf) ELSE Pass("dho")

(* looks_like_dho_wfm: the magic, and bytes 10 to 15 zero.                 *)
LooksLikeDho ==
    /\ file.size >= 24
    /\ Starts(<<2, 0, 0, 0>>)
    /\ file.words[2] < 65536 /\ file.words[3] = 0

DetectDho ==
    /\ pc = "dho"
    /\ IF LooksLikeDho THEN Settle(Accepted("Dho", file.parses)) ELSE Pass("lecroy")

(* looks_like_lecroy: WAVEDESC starts within 64 bytes and the descriptor   *)
(* fits behind it.                                                         *)
SearchLimit == 64
DescMinLen  == 346
LooksLikeLecroy == file.wavedesc <= SearchLimit /\ file.wavedesc + DescMinLen <= file.size

DetectLecroy ==
    /\ pc = "lecroy"
    /\ IF LooksLikeLecroy THEN Settle(Accepted("Lecroy", file.parses)) ELSE Pass("keysight")

(* looks_like_keysight: the cookie AG or RG and the version 10. *)
LooksLikeKeysight == Starts(<<65, 71, 49, 48>>) \/ Starts(<<82, 71, 49, 48>>)

DetectKeysight ==
    /\ pc = "keysight"
    /\ IF LooksLikeKeysight THEN Settle(Accepted("Keysight", file.parses)) ELSE Pass("peek")

(* The first four bytes are sliced out for the families that follow.       *)
(* Variant: without asking whether there are four. *)
TooSmallNever == FALSE
TooSmall == file.size < 4

Peek ==
    /\ pc = "peek"
    /\ IF TooSmall THEN Settle(Err)
       ELSE IF Len(file.head) < 4 THEN Settle(Panic)
       ELSE Pass("tek")

-----------------------------------------------------------------------------
(* From here on headers are read by binread: reading fails at the end of   *)
(* the file. ReadTo is where the last field read ends.                     *)
Reads(fam, readTo) == Accepted(fam, readTo <= file.size)

(* Tektronix WFM: the static part, then fields at offsets the version      *)
(* gives, the last of them two u32 at 14 behind the curve object's start.  *)
CurveOffset == [v1 |-> 790, v2 |-> 792, v3 |-> 808]
LooksLikeTek == Starts(<<15, 15>>) \/ Starts(<<240, 240>>)
ParseTek == IF file.size < 20 \/ file.version \notin DOMAIN CurveOffset THEN Err
            ELSE Reads("Tektronix", CurveOffset[file.version] + 14 + 8)

DetectTek == /\ pc = "tek"
             /\ IF LooksLikeTek THEN Settle(ParseTek) ELSE Pass("ds1000e")

DetectDs1000e ==
    /\ pc = "ds1000e"
    /\ IF Starts(<<165, 165, 0, 0>>) THEN Settle(Reads("Ds1000e", 83)) ELSE Pass("ds2000")

(* DS2000 and DS4000 share a magic; the model in the 44-byte file header   *)
(* tells them apart, and the header that follows starts at 56 or at 44.    *)
LooksLikeDs2000 == Starts(<<165, 165, 56, 0>>)
ParseDs2000 == IF file.size < 44 THEN Err
               ELSE IF file.model = "DS4000" THEN Reads("Ds4000", 44 + 228)
               ELSE Reads("Ds2000", 56 + 200)

DetectDs2000 == /\ pc = "ds2000"
                /\ IF LooksLikeDs2000 THEN Settle(ParseDs2000) ELSE Pass("siglent")

(* looks_like_siglent: four u32 flags, at least one of them set, then what *)
(* plausible says of the lengths and the rate.                             *)
FlagsUpTo(m) ==
    /\ \E b \in 0 .. m : Starts(<<b, 0, 0, 0>>)
    /\ \A i \in 1 .. 3 : file.words[i] <= m
    /\ Starts(<<1, 0, 0, 0>>) \/ \E i \in 1 .. 3 : file.words[i] = 1
SiglentHeader == 2048
(* Variant: a flag may be 2 as well. *)
LooksLikeSiglentLoose == file.size >= SiglentHeader /\ FlagsUpTo(2) /\ file.plausible
LooksLikeSiglent == file.size >= SiglentHeader /\ FlagsUpTo(1) /\ file.plausible

DetectSiglent ==
    /\ pc = "siglent"
    /\ IF LooksLikeSiglent THEN Settle(Accepted("Siglent", file.parses)) ELSE Pass("file_header")

(* Whatever is left is read as a DS1000Z: a 52-byte file header, then the  *)
(* waveform header at 64, if the model is one of the family.               *)
FileHeaderSize == 52
ReadFileHeader ==
    /\ pc = "file_header"
    /\ Settle(IF file.size < FileHeaderSize \/ file.model # "DS1000Z" THEN Err
              ELSE Reads("Ds1000z", 64 + 200))

Next ==
    \/ DetectRs \/ DetectIsf \/ DetectDho \/ DetectLecroy \/ DetectKeysight
    \/ Peek \/ DetectTek \/ DetectDs1000e \/ DetectDs2000 \/ DetectSiglent
    \/ ReadFileHeader

Spec == Init /\ [][Next]_vars

-----------------------------------------------------------------------------
(* The families whose mark the file carries at its fixed place.            *)
Signatures ==
    {fam \in {"RohdeSchwarz", "Dho", "Keysight", "Tektronix", "Ds1000e", "Ds2000", "Siglent"} :
        CASE fam = "RohdeSchwarz" -> LooksLikeRs
          [] fam = "Dho"          -> LooksLikeDho
          [] fam = "Keysight"     -> LooksLikeKeysight
          [] fam = "Tektronix"    -> LooksLikeTek
          [] fam = "Ds1000e"      -> Starts(<<165, 165, 0, 0>>)
          [] fam = "Ds2000"       -> LooksLikeDs2000
          [] fam = "Siglent"      -> LooksLikeSiglent}

Members(fam) == IF fam = "Ds2000" THEN {"Ds2000", "Ds4000"} ELSE {fam}

(* open answers, and never by a panic: each detector and reader checks the *)
(* length before it looks (mmap.rs:170-172, 239-241).                          *)
TypeOK ==
    /\ pc = "done" <=> result # NoResult
    /\ result.tag \in {"none", "ok", "err"}

(* No file carries the marks of two families: Siglent, which has no magic, *)
(* is told from DHO by its first flag alone, so the order of these         *)
(* detectors cannot matter (mmap.rs:197-331, siglent.rs:96-106).               *)
OneSignature == \A f, g \in Signatures : f = g

(* The two searches for a text, ISF's in the first 512 bytes and LeCroy's  *)
(* in the first 64, can take a file from the family whose mark it carries. *)
(* Nothing else can: that family's parser has the last word, and its       *)
(* failure is not an invitation to the next detector (mmap.rs:113-235).    *)
TakenByText(fam) ==
    \/ fam # "RohdeSchwarz" /\ file.keyword + 5 <= 512 /\ file.keyword + 5 <= file.size
    \/ fam \notin {"RohdeSchwarz", "Dho"} /\ file.wavedesc <= 64
       /\ file.wavedesc + 346 <= file.size

SignatureDecides ==
    pc = "done" =>
        \A fam \in Signatures :
            \/ TakenByText(fam)
            \/ result = Err
            \/ result.fam \in Members(fam)

(* An ISF file is read as it was written exactly when the waveform label,  *)
(* the one free text before NR_PT, holds no '#': a '#' in it ends the      *)
(* header early, without an error, whatever '#' the samples contain        *)
(* (mmap.rs:123-133, 173-175).                                             *)
AsWritten ==
    /\ result.off = file.curve + 2 + file.digit[file.curve] - 48
    /\ result.pts = file.pts
CurveFound ==
    result.tag = "ok" /\ result.fam = "Isf" /\ file.curve \in file.hashes =>
        (AsWritten <=> \A p \in file.hashes : file.curve <= p)
=============================================================================
