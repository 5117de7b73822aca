----------------------------- MODULE OpenProofs -----------------------------
(***************************************************************************)
(* Proofs about WfmFile::open, for every set of captures: which family a   *)
(* file is taken for, where an ISF or a DHO file is read, that nothing is  *)
(* read outside the file, and that detectors and walks together answer     *)
(* what OpenSpec asks for; and that the handle a walk ends in is one that  *)
(* HandleProofs speaks of.                                                 *)
(***************************************************************************)
EXTENDS WfmOpen, KeysightProofs, OrderProofs

-----------------------------------------------------------------------------
(* Detection. A file that starts with some bytes has them at their places. *)
LEMMA StartsWith ==
    ASSUME NEW bytes \in Seq(Nat), S!MarkShape(file), S!Starts(bytes)
    PROVE  \A i \in 1 .. Len(bytes) : file.head[i] = bytes[i]
<1> DEFINE h == file.head
           n == Len(bytes)
<1>1. h \in Seq(0 .. 255)
  BY DEF S!MarkShape
<1>2. n <= Len(h) /\ SubSeq(bytes, 1, n) = SubSeq(h, 1, n)
  BY DEF S!Starts, S!IsPrefix
<1>3. n \in Nat
  OBVIOUS
<1> HIDE DEF h
<1>4. ASSUME NEW i \in 1 .. n
      PROVE  h[i] = bytes[i]
  <2>1. SubSeq(bytes, 1, n)[i] = bytes[i] /\ SubSeq(h, 1, n)[i] = h[i]
    BY <1>1, <1>2, <1>3
  <2> QED
    BY <1>2, <2>1
<1> QED
  BY <1>4 DEF h

LEMMA StartsWith4 ==
    ASSUME NEW w \in Nat, NEW x \in Nat, NEW y \in Nat, NEW z \in Nat,
           S!MarkShape(file), S!Starts(<<w, x, y, z>>)
    PROVE  file.head[1] = w /\ file.head[3] = y
<1> DEFINE bytes == <<w, x, y, z>>
<1>1. bytes \in Seq(Nat) /\ Len(bytes) = 4 /\ bytes[1] = w /\ bytes[3] = y
  OBVIOUS
<1>2. S!Starts(bytes)
  OBVIOUS
<1> HIDE DEF bytes
<1>3. \A i \in 1 .. Len(bytes) : file.head[i] = bytes[i]
  BY <1>1, <1>2, StartsWith
<1> QED
  BY <1>1, <1>3

LEMMA StartsWith2 ==
    ASSUME NEW w \in Nat, NEW x \in Nat, S!MarkShape(file), S!Starts(<<w, x>>)
    PROVE  file.head[1] = w
<1> DEFINE bytes == <<w, x>>
<1>1. bytes \in Seq(Nat) /\ Len(bytes) = 2 /\ bytes[1] = w
  OBVIOUS
<1>2. S!Starts(bytes)
  OBVIOUS
<1> HIDE DEF bytes
<1>3. \A i \in 1 .. Len(bytes) : file.head[i] = bytes[i]
  BY <1>1, <1>2, StartsWith
<1> QED
  BY <1>1, <1>3

(* Every mark is in the first and the third byte. *)
FirstBytes(fam) ==
    CASE fam = "RohdeSchwarz" -> {60, 239}
      [] fam = "Dho"          -> {2}
      [] fam = "Keysight"     -> {65, 82}
      [] fam = "Tektronix"    -> {15, 240}
      [] fam \in {"Ds1000e", "Ds2000"} -> {165}
      [] fam = "Siglent"      -> {0, 1}

MarkedFamilies ==
    {"RohdeSchwarz", "Dho", "Keysight", "Tektronix", "Ds1000e", "Ds2000", "Siglent"}

LEMMA MarkByte ==
    ASSUME S!MarkShape(file), NEW fam \in S!Signatures
    PROVE  /\ fam \in MarkedFamilies
           /\ file.head[1] \in FirstBytes(fam)
           /\ fam = "Ds1000e" => file.head[3] = 0
           /\ fam = "Ds2000" => file.head[3] = 56
<1>1. fam \in MarkedFamilies
  BY DEF S!Signatures, MarkedFamilies
<1>2. CASE fam = "RohdeSchwarz"
  <2>1. S!Starts(<<60, 63, 120, 109>>) \/ S!Starts(<<239, 187, 191, 60>>)
    BY <1>2 DEF S!Signatures, S!LooksLikeRs, S!XmlDecl, S!BomDecl
  <2>2. CASE S!Starts(<<60, 63, 120, 109>>)
    BY <1>1, <1>2, <2>2, StartsWith4 DEF FirstBytes
  <2>3. CASE S!Starts(<<239, 187, 191, 60>>)
    BY <1>1, <1>2, <2>3, StartsWith4 DEF FirstBytes
  <2> QED
    BY <2>1, <2>2, <2>3
<1>3. CASE fam = "Dho"
  <2>1. S!Starts(<<2, 0, 0, 0>>)
    BY <1>3 DEF S!Signatures, S!LooksLikeDho
  <2>2. file.head[1] = 2
    BY <2>1, StartsWith4
  <2> QED
    BY <1>1, <1>3, <2>2 DEF FirstBytes
<1>4. CASE fam = "Keysight"
  <2>1. S!Starts(<<65, 71, 49, 48>>) \/ S!Starts(<<82, 71, 49, 48>>)
    BY <1>4 DEF S!Signatures, S!LooksLikeKeysight
  <2>2. file.head[1] = 65 \/ file.head[1] = 82
    BY <2>1, StartsWith4
  <2> QED
    BY <1>1, <1>4, <2>2 DEF FirstBytes
<1>5. CASE fam = "Tektronix"
  <2>1. S!Starts(<<15, 15>>) \/ S!Starts(<<240, 240>>)
    BY <1>5 DEF S!Signatures, S!LooksLikeTek
  <2>2. file.head[1] = 15 \/ file.head[1] = 240
    BY <2>1, StartsWith2
  <2> QED
    BY <1>1, <1>5, <2>2 DEF FirstBytes
<1>6. CASE fam = "Ds1000e"
  <2>1. S!Starts(<<165, 165, 0, 0>>)
    BY <1>6 DEF S!Signatures
  <2>2. file.head[1] = 165 /\ file.head[3] = 0
    BY <2>1, StartsWith4
  <2> QED
    BY <1>1, <1>6, <2>2 DEF FirstBytes
<1>7. CASE fam = "Ds2000"
  <2>1. S!Starts(<<165, 165, 56, 0>>)
    BY <1>7 DEF S!Signatures, S!LooksLikeDs2000
  <2>2. file.head[1] = 165 /\ file.head[3] = 56
    BY <2>1, StartsWith4
  <2> QED
    BY <1>1, <1>7, <2>2 DEF FirstBytes
<1>8. CASE fam = "Siglent"
  <2>1. PICK w \in 0 .. 1 : S!Starts(<<w, 0, 0, 0>>)
    BY <1>8 DEF S!Signatures, S!LooksLikeSiglent, S!FlagsUpTo
  <2>2. w \in Nat
    OBVIOUS
  <2>3. file.head[1] = w
    BY <2>1, <2>2, StartsWith4
  <2> QED
    BY <1>1, <1>8, <2>3 DEF FirstBytes
<1> QED
  BY <1>1, <1>2, <1>3, <1>4, <1>5, <1>6, <1>7, <1>8 DEF MarkedFamilies

LEMMA MarksExclude ==
    ASSUME S!MarkShape(file), NEW f \in S!Signatures, NEW g \in S!Signatures
    PROVE  f = g
<1>1. /\ f \in MarkedFamilies /\ g \in MarkedFamilies
      /\ file.head[1] \in FirstBytes(f) /\ file.head[1] \in FirstBytes(g)
      /\ f = "Ds1000e" => file.head[3] = 0
      /\ f = "Ds2000" => file.head[3] = 56
      /\ g = "Ds1000e" => file.head[3] = 0
      /\ g = "Ds2000" => file.head[3] = 56
  BY MarkByte
<1> QED
  BY <1>1, SMTT(60) DEF MarkedFamilies, FirstBytes

LEMMA MarksImply == S!MarkShape(file) => S!OneSignature
  BY MarksExclude DEF S!OneSignature


-----------------------------------------------------------------------------
(* The detectors. As long as nobody has claimed the file, the detector of  *)
(* the family whose mark it carries is still to be asked; the claim then   *)
(* is that family's, or a text's that was found before.                    *)
Until(fam) ==
    CASE fam = "RohdeSchwarz" -> {"rs"}
      [] fam = "Dho"          -> {"rs", "isf", "dho"}
      [] fam = "Keysight"     -> {"rs", "isf", "dho", "lecroy", "keysight"}
      [] fam = "Tektronix"    -> {"rs", "isf", "dho", "lecroy", "keysight", "peek", "tek"}
      [] fam = "Ds1000e"      -> {"rs", "isf", "dho", "lecroy", "keysight", "peek", "tek",
                                  "ds1000e"}
      [] fam = "Ds2000"       -> {"rs", "isf", "dho", "lecroy", "keysight", "peek", "tek",
                                  "ds1000e", "ds2000"}
      [] fam = "Siglent"      -> {"rs", "isf", "dho", "lecroy", "keysight", "peek", "tek",
                                  "ds1000e", "ds2000", "siglent"}

Due == asked # "done" => claim = S!NoResult /\ \A fam \in S!Signatures : asked \in Until(fam)

Rightful(c) ==
    \/ c = S!Err
    \/ /\ c.tag = "ok"
       /\ \A fam \in S!Signatures : S!TakenByText(fam) \/ c.fam \in S!Members(fam)
       /\ c.fam = "Isf" => c = S!ParseIsf

SniffInv == S!MarkShape(file) /\ Due /\ (asked = "done" => Rightful(claim))

LEMMA SameFile ==
    ASSUME file' = file
    PROVE  /\ S!Signatures' = S!Signatures
           /\ S!ParseIsf' = S!ParseIsf
           /\ S!MarkShape(file)' <=> S!MarkShape(file)
           /\ \A fam : S!TakenByText(fam)' <=> S!TakenByText(fam)
<1>1. S!Signatures' = S!Signatures
  BY DEF S!Signatures, S!LooksLikeRs, S!CutInside, S!Starts, S!LooksLikeDho,
         S!LooksLikeKeysight, S!LooksLikeTek, S!LooksLikeDs2000, S!LooksLikeSiglent,
         S!FlagsUpTo
<1>2. S!ParseIsf' = S!ParseIsf
  BY DEF S!ParseIsf, S!HeaderEnd, S!Digits
<1>3. S!MarkShape(file)' <=> S!MarkShape(file)
  BY DEF S!MarkShape
<1>4. \A fam : S!TakenByText(fam)' <=> S!TakenByText(fam)
  BY DEF S!TakenByText
<1> QED
  BY <1>1, <1>2, <1>3, <1>4

LEMMA SettleInv ==
    ASSUME NEW r, S!MarkShape(file), Rightful(r), S!Settle(r)
    PROVE  SniffInv'
<1>1. claim' = r /\ asked' = "done" /\ file' = file
  BY DEF S!Settle
<1>2. S!MarkShape(file)'
  BY <1>1, SameFile
<1>3. Due'
  BY <1>1 DEF Due
<1>4. Rightful(claim)'
  BY <1>1, SameFile DEF Rightful, S!Err, S!Members
<1> QED
  BY <1>2, <1>3, <1>4 DEF SniffInv

LEMMA PassInv ==
    ASSUME NEW next, next # "done", SniffInv, asked # "done", S!Pass(next),
           \A fam \in S!Signatures : next \in Until(fam)
    PROVE  SniffInv'
<1>1. asked' = next /\ claim' = claim /\ file' = file
  BY DEF S!Pass
<1>2. S!MarkShape(file)'
  BY <1>1, SameFile DEF SniffInv
<1>3. Due'
  BY <1>1, SameFile DEF SniffInv, Due, Until, S!NoResult
<1> QED
  BY <1>1, <1>2, <1>3 DEF SniffInv

(* A family whose mark the file carries may claim it, and so may anybody   *)
(* if no file with a mark gets that far.                                   *)
LEMMA MarkedClaim ==
    ASSUME S!MarkShape(file), NEW own \in S!Signatures, NEW ok \in BOOLEAN,
           NEW fam \in S!Members(own)
    PROVE  Rightful(S!Accepted(fam, ok))
<1>1. own \in MarkedFamilies
  BY MarkByte
<1>2. fam # "Isf"
  BY <1>1 DEF S!Members, MarkedFamilies
<1>3. CASE ~ok
  BY <1>3 DEF S!Accepted, Rightful
<1>4. CASE ok
  <2>1. S!Accepted(fam, ok) = [tag |-> "ok", fam |-> fam]
    BY <1>4 DEF S!Accepted, S!Ok
  <2>2. \A f \in S!Signatures : fam \in S!Members(f)
    BY MarksExclude
  <2> QED
    BY <1>2, <2>1, <2>2 DEF Rightful
<1> QED
  BY <1>3, <1>4

LEMMA FreeClaim ==
    ASSUME NEW fam, fam # "Isf", NEW ok \in BOOLEAN,
           \A f \in S!Signatures : S!TakenByText(f)
    PROVE  Rightful(S!Accepted(fam, ok))
<1>1. CASE ~ok
  BY <1>1 DEF S!Accepted, Rightful
<1>2. CASE ok
  <2>1. S!Accepted(fam, ok) = [tag |-> "ok", fam |-> fam]
    BY <1>2 DEF S!Accepted, S!Ok
  <2> QED
    BY <2>1 DEF Rightful
<1> QED
  BY <1>1, <1>2

-----------------------------------------------------------------------------
LEMMA RsInv == SniffInv /\ S!DetectRs => SniffInv'
<1> SUFFICES ASSUME SniffInv, S!DetectRs
             PROVE  SniffInv'
  OBVIOUS
<1>1. S!MarkShape(file) /\ asked = "rs" /\ file.parses \in BOOLEAN
      /\ \A fam \in S!Signatures : asked \in Until(fam)
  BY DEF SniffInv, Due, S!DetectRs, S!MarkShape
<1>2. CASE S!LooksLikeRs
  <2>1. S!Settle(S!Accepted("RohdeSchwarz", file.parses))
    BY <1>2 DEF S!DetectRs
  <2>2. "RohdeSchwarz" \in S!Signatures
    BY <1>2 DEF S!Signatures
  <2>3. "RohdeSchwarz" \in S!Members("RohdeSchwarz")
    BY DEF S!Members
  <2> QED
    BY <1>1, <2>1, <2>2, <2>3, MarkedClaim, SettleInv
<1>3. CASE ~S!LooksLikeRs
  <2>1. S!Pass("isf")
    BY <1>3 DEF S!DetectRs
  <2>2. "RohdeSchwarz" \notin S!Signatures
    BY <1>3 DEF S!Signatures
  <2>3. \A fam \in S!Signatures : "isf" \in Until(fam)
    BY <1>1, <2>2, MarkByte DEF MarkedFamilies, Until
  <2> QED
    BY <1>1, <2>1, <2>3, PassInv
<1> QED
  BY <1>2, <1>3

LEMMA IsfInv == SniffInv /\ S!DetectIsf => SniffInv'
<1> SUFFICES ASSUME SniffInv, S!DetectIsf
             PROVE  SniffInv'
  OBVIOUS
<1>1. S!MarkShape(file) /\ asked = "isf" /\ \A fam \in S!Signatures : asked \in Until(fam)
  BY DEF SniffInv, Due, S!DetectIsf
<1>2. "RohdeSchwarz" \notin S!Signatures
  BY <1>1 DEF Until
<1>3. CASE S!LooksLikeIsf
  <2>1. S!Settle(S!ParseIsf)
    BY <1>3 DEF S!DetectIsf
  <2>2. file.keyword + 5 <= 512 /\ file.keyword + 5 <= file.size
    <3>1. file.keyword \in Nat /\ file.size \in Nat
      BY <1>1 DEF S!MarkShape
    <3> QED
      BY <1>3, <3>1 DEF S!LooksLikeIsf, S!LessOf
  <2>3. \A fam \in S!Signatures : S!TakenByText(fam)
    BY <1>2, <2>2 DEF S!TakenByText
  <2>4. S!ParseIsf = S!Err \/ S!ParseIsf.tag = "ok"
    BY DEF S!ParseIsf
  <2>5. Rightful(S!ParseIsf)
    BY <2>3, <2>4 DEF Rightful
  <2> QED
    BY <1>1, <2>1, <2>5, SettleInv
<1>4. CASE ~S!LooksLikeIsf
  <2>1. S!Pass("dho")
    BY <1>4 DEF S!DetectIsf
  <2>3. \A fam \in S!Signatures : "dho" \in Until(fam)
    BY <1>1, <1>2, MarkByte DEF MarkedFamilies, Until
  <2> QED
    BY <1>1, <2>1, <2>3, PassInv
<1> QED
  BY <1>3, <1>4

LEMMA DetectDhoInv == SniffInv /\ S!DetectDho => SniffInv'
<1> SUFFICES ASSUME SniffInv, S!DetectDho
             PROVE  SniffInv'
  OBVIOUS
<1>1. S!MarkShape(file) /\ asked = "dho" /\ file.parses \in BOOLEAN
      /\ \A fam \in S!Signatures : asked \in Until(fam)
  BY DEF SniffInv, Due, S!DetectDho, S!MarkShape
<1>2. CASE S!LooksLikeDho
  <2>1. S!Settle(S!Accepted("Dho", file.parses))
    BY <1>2 DEF S!DetectDho
  <2>2. "Dho" \in S!Signatures
    BY <1>2 DEF S!Signatures
  <2>3. "Dho" \in S!Members("Dho")
    BY DEF S!Members
  <2> QED
    BY <1>1, <2>1, <2>2, <2>3, MarkedClaim, SettleInv
<1>3. CASE ~S!LooksLikeDho
  <2>1. S!Pass("lecroy")
    BY <1>3 DEF S!DetectDho
  <2>2. "Dho" \notin S!Signatures
    BY <1>3 DEF S!Signatures
  <2>3. \A fam \in S!Signatures : "lecroy" \in Until(fam)
    BY <1>1, <2>2, MarkByte DEF MarkedFamilies, Until
  <2> QED
    BY <1>1, <2>1, <2>3, PassInv
<1> QED
  BY <1>2, <1>3

LEMMA LecroyInv == SniffInv /\ S!DetectLecroy => SniffInv'
<1> SUFFICES ASSUME SniffInv, S!DetectLecroy
             PROVE  SniffInv'
  OBVIOUS
<1>1. S!MarkShape(file) /\ asked = "lecroy" /\ file.parses \in BOOLEAN
      /\ \A fam \in S!Signatures : asked \in Until(fam)
  BY DEF SniffInv, Due, S!DetectLecroy, S!MarkShape
<1>2. CASE S!LooksLikeLecroy
  <2>1. S!Settle(S!Accepted("Lecroy", file.parses))
    BY <1>2 DEF S!DetectLecroy
  <2>2. \A fam \in S!Signatures : fam \notin {"RohdeSchwarz", "Dho"}
    BY <1>1 DEF Until
  <2>3. \A fam \in S!Signatures : S!TakenByText(fam)
    BY <1>2, <2>2 DEF S!TakenByText, S!LooksLikeLecroy, S!SearchLimit, S!DescMinLen
  <2> QED
    BY <1>1, <2>1, <2>3, FreeClaim, SettleInv
<1>3. CASE ~S!LooksLikeLecroy
  <2>1. S!Pass("keysight")
    BY <1>3 DEF S!DetectLecroy
  <2>3. \A fam \in S!Signatures : "keysight" \in Until(fam)
    BY <1>1, MarkByte DEF MarkedFamilies, Until
  <2> QED
    BY <1>1, <2>1, <2>3, PassInv
<1> QED
  BY <1>2, <1>3

LEMMA KeysightInv == SniffInv /\ S!DetectKeysight => SniffInv'
<1> SUFFICES ASSUME SniffInv, S!DetectKeysight
             PROVE  SniffInv'
  OBVIOUS
<1>1. S!MarkShape(file) /\ asked = "keysight" /\ file.parses \in BOOLEAN
      /\ \A fam \in S!Signatures : asked \in Until(fam)
  BY DEF SniffInv, Due, S!DetectKeysight, S!MarkShape
<1>2. CASE S!LooksLikeKeysight
  <2>1. S!Settle(S!Accepted("Keysight", file.parses))
    BY <1>2 DEF S!DetectKeysight
  <2>2. "Keysight" \in S!Signatures
    BY <1>2 DEF S!Signatures
  <2>3. "Keysight" \in S!Members("Keysight")
    BY DEF S!Members
  <2> QED
    BY <1>1, <2>1, <2>2, <2>3, MarkedClaim, SettleInv
<1>3. CASE ~S!LooksLikeKeysight
  <2>1. S!Pass("peek")
    BY <1>3 DEF S!DetectKeysight
  <2>2. "Keysight" \notin S!Signatures
    BY <1>3 DEF S!Signatures
  <2>3. \A fam \in S!Signatures : "peek" \in Until(fam)
    BY <1>1, <2>2, MarkByte DEF MarkedFamilies, Until
  <2> QED
    BY <1>1, <2>1, <2>3, PassInv
<1> QED
  BY <1>2, <1>3

(* The slice of four bytes is in the file: no panic. *)
LEMMA PeekInv == SniffInv /\ S!Peek => SniffInv'
<1> SUFFICES ASSUME SniffInv, S!Peek
             PROVE  SniffInv'
  OBVIOUS
<1>1. S!MarkShape(file) /\ asked = "peek" /\ \A fam \in S!Signatures : asked \in Until(fam)
  BY DEF SniffInv, Due, S!Peek
<1>2. CASE S!TooSmall
  <2>1. S!Settle(S!Err)
    BY <1>2 DEF S!Peek
  <2>2. Rightful(S!Err)
    BY DEF Rightful
  <2> QED
    BY <1>1, <2>1, <2>2, SettleInv
<1>3. CASE ~S!TooSmall
  <2>1. Len(file.head) = 4
    BY <1>1, <1>3 DEF S!MarkShape, S!LessOf, S!TooSmall
  <2>2. S!Pass("tek")
    BY <1>3, <2>1 DEF S!Peek
  <2>3. \A fam \in S!Signatures : "tek" \in Until(fam)
    BY <1>1, MarkByte DEF MarkedFamilies, Until
  <2> QED
    BY <1>1, <2>2, <2>3, PassInv
<1> QED
  BY <1>2, <1>3

LEMMA ReadsBoolean ==
    ASSUME S!MarkShape(file), NEW n \in Nat
    PROVE  (n <= file.size) \in BOOLEAN
  OBVIOUS

LEMMA TekInv == SniffInv /\ S!DetectTek => SniffInv'
<1> SUFFICES ASSUME SniffInv, S!DetectTek
             PROVE  SniffInv'
  OBVIOUS
<1>1. S!MarkShape(file) /\ asked = "tek" /\ \A fam \in S!Signatures : asked \in Until(fam)
  BY DEF SniffInv, Due, S!DetectTek
<1>2. CASE S!LooksLikeTek
  <2>1. S!Settle(S!ParseTek)
    BY <1>2 DEF S!DetectTek
  <2>2. "Tektronix" \in S!Signatures
    BY <1>2 DEF S!Signatures
  <2>3. "Tektronix" \in S!Members("Tektronix")
    BY DEF S!Members
  <2>4. \A ok \in BOOLEAN : Rightful(S!Accepted("Tektronix", ok))
    BY <1>1, <2>2, <2>3, MarkedClaim
  <2>5. \A n : (n <= file.size) \in BOOLEAN
    OBVIOUS
  <2>6. Rightful(S!ParseTek)
    BY <2>4, <2>5, Zenon DEF S!ParseTek, S!Reads, Rightful
  <2> QED
    BY <1>1, <2>1, <2>6, SettleInv
<1>3. CASE ~S!LooksLikeTek
  <2>1. S!Pass("ds1000e")
    BY <1>3 DEF S!DetectTek
  <2>2. "Tektronix" \notin S!Signatures
    BY <1>3 DEF S!Signatures
  <2>3. \A fam \in S!Signatures : "ds1000e" \in Until(fam)
    BY <1>1, <2>2, MarkByte DEF MarkedFamilies, Until
  <2> QED
    BY <1>1, <2>1, <2>3, PassInv
<1> QED
  BY <1>2, <1>3

LEMMA Ds1000eInv == SniffInv /\ S!DetectDs1000e => SniffInv'
<1> SUFFICES ASSUME SniffInv, S!DetectDs1000e
             PROVE  SniffInv'
  OBVIOUS
<1>1. S!MarkShape(file) /\ asked = "ds1000e" /\ \A fam \in S!Signatures : asked \in Until(fam)
  BY DEF SniffInv, Due, S!DetectDs1000e
<1>2. CASE S!Starts(<<165, 165, 0, 0>>)
  <2>1. S!Settle(S!Accepted("Ds1000e", 83 <= file.size))
    BY <1>2 DEF S!DetectDs1000e, S!Reads
  <2>2. "Ds1000e" \in S!Signatures
    BY <1>2 DEF S!Signatures
  <2>3. "Ds1000e" \in S!Members("Ds1000e") /\ (83 <= file.size) \in BOOLEAN
    BY DEF S!Members
  <2> QED
    BY <1>1, <2>1, <2>2, <2>3, MarkedClaim, SettleInv
<1>3. CASE ~S!Starts(<<165, 165, 0, 0>>)
  <2>1. S!Pass("ds2000")
    BY <1>3 DEF S!DetectDs1000e
  <2>2. "Ds1000e" \notin S!Signatures
    BY <1>3 DEF S!Signatures
  <2>3. \A fam \in S!Signatures : "ds2000" \in Until(fam)
    BY <1>1, <2>2, MarkByte DEF MarkedFamilies, Until
  <2> QED
    BY <1>1, <2>1, <2>3, PassInv
<1> QED
  BY <1>2, <1>3

LEMMA Ds2000Inv == SniffInv /\ S!DetectDs2000 => SniffInv'
<1> SUFFICES ASSUME SniffInv, S!DetectDs2000
             PROVE  SniffInv'
  OBVIOUS
<1>1. S!MarkShape(file) /\ asked = "ds2000" /\ \A fam \in S!Signatures : asked \in Until(fam)
  BY DEF SniffInv, Due, S!DetectDs2000
<1>2. CASE S!LooksLikeDs2000
  <2>1. S!Settle(S!ParseDs2000)
    BY <1>2 DEF S!DetectDs2000
  <2>2. "Ds2000" \in S!Signatures
    BY <1>2 DEF S!Signatures
  <2>3. "Ds2000" \in S!Members("Ds2000") /\ "Ds4000" \in S!Members("Ds2000")
    BY DEF S!Members
  <2>4. \A ok \in BOOLEAN : /\ Rightful(S!Accepted("Ds2000", ok))
                            /\ Rightful(S!Accepted("Ds4000", ok))
    BY <1>1, <2>2, <2>3, MarkedClaim
  <2>5. \A n : (n <= file.size) \in BOOLEAN
    OBVIOUS
  <2>6. \/ S!ParseDs2000 = S!Err
        \/ S!ParseDs2000 = S!Reads("Ds4000", 44 + 228)
        \/ S!ParseDs2000 = S!Reads("Ds2000", 56 + 200)
    BY DEF S!ParseDs2000
  <2>7. Rightful(S!Err)
    BY DEF Rightful
  <2>8. Rightful(S!Reads("Ds4000", 44 + 228)) /\ Rightful(S!Reads("Ds2000", 56 + 200))
    BY <2>4, <2>5, Zenon DEF S!Reads
  <2>9. Rightful(S!ParseDs2000)
    BY <2>6, <2>7, <2>8
  <2> QED
    BY <1>1, <2>1, <2>9, SettleInv
<1>3. CASE ~S!LooksLikeDs2000
  <2>1. S!Pass("siglent")
    BY <1>3 DEF S!DetectDs2000
  <2>2. "Ds2000" \notin S!Signatures
    BY <1>3 DEF S!Signatures
  <2>3. \A fam \in S!Signatures : "siglent" \in Until(fam)
    BY <1>1, <2>2, MarkByte DEF MarkedFamilies, Until
  <2> QED
    BY <1>1, <2>1, <2>3, PassInv
<1> QED
  BY <1>2, <1>3

LEMMA SiglentInv == SniffInv /\ S!DetectSiglent => SniffInv'
<1> SUFFICES ASSUME SniffInv, S!DetectSiglent
             PROVE  SniffInv'
  OBVIOUS
<1>1. S!MarkShape(file) /\ asked = "siglent" /\ file.parses \in BOOLEAN
      /\ \A fam \in S!Signatures : asked \in Until(fam)
  BY DEF SniffInv, Due, S!DetectSiglent, S!MarkShape
<1>2. CASE S!LooksLikeSiglent
  <2>1. S!Settle(S!Accepted("Siglent", file.parses))
    BY <1>2 DEF S!DetectSiglent
  <2>2. "Siglent" \in S!Signatures
    BY <1>2 DEF S!Signatures
  <2>3. "Siglent" \in S!Members("Siglent")
    BY DEF S!Members
  <2> QED
    BY <1>1, <2>1, <2>2, <2>3, MarkedClaim, SettleInv
<1>3. CASE ~S!LooksLikeSiglent
  <2>1. S!Pass("file_header")
    BY <1>3 DEF S!DetectSiglent
  <2>2. "Siglent" \notin S!Signatures
    BY <1>3 DEF S!Signatures
  <2>3. \A fam \in S!Signatures : "file_header" \in Until(fam)
    BY <1>1, <2>2, MarkByte DEF MarkedFamilies, Until
  <2> QED
    BY <1>1, <2>1, <2>3, PassInv
<1> QED
  BY <1>2, <1>3

(* A file with a mark is settled before this last reader.                  *)
LEMMA FileHeaderInv == SniffInv /\ S!ReadFileHeader => SniffInv'
<1> SUFFICES ASSUME SniffInv, S!ReadFileHeader
             PROVE  SniffInv'
  OBVIOUS
<1>1. S!MarkShape(file) /\ asked = "file_header"
      /\ \A fam \in S!Signatures : asked \in Until(fam)
  BY DEF SniffInv, Due, S!ReadFileHeader
<1>2. \A fam \in S!Signatures : S!TakenByText(fam)
  BY <1>1, MarkByte DEF MarkedFamilies, Until
<1>3. PICK r : S!Settle(r) /\ (r = S!Err \/ r = S!Accepted("Ds1000z", 64 + 200 <= file.size))
  BY Zenon DEF S!ReadFileHeader, S!Reads
<1>4. (64 + 200 <= file.size) \in BOOLEAN
  OBVIOUS
<1>5. Rightful(S!Err)
  BY DEF Rightful
<1>6. Rightful(r)
  BY <1>2, <1>3, <1>4, <1>5, FreeClaim
<1> QED
  BY <1>1, <1>3, <1>6, SettleInv

LEMMA SniffStep == SniffInv /\ [OpenNext]_allVars => SniffInv'
<1> SUFFICES ASSUME SniffInv, [OpenNext]_allVars
             PROVE  SniffInv'
  OBVIOUS
<1>1. CASE Sniffing
  BY <1>1, RsInv, IsfInv, DetectDhoInv, LecroyInv, KeysightInv, PeekInv, TekInv, Ds1000eInv,
     Ds2000Inv, SiglentInv, FileHeaderInv DEF Sniffing, S!Next
<1>2. CASE UNCHANGED sniffVars
  <2>1. file' = file /\ asked' = asked /\ claim' = claim
    BY <1>2 DEF sniffVars
  <2> QED
    BY <2>1, SameFile DEF SniffInv, Due, Rightful, S!NoResult, S!Err, S!Members, Until
<1> QED
  BY <1>1, <1>2 DEF OpenNext, WalkKeysight, WalkDho, allVars

LEMMA SniffStart == OpenInit => SniffInv
<1> SUFFICES ASSUME OpenInit
             PROVE  SniffInv
  OBVIOUS
<1>1. PICK c \in Captures : file = c.mark
  BY DEF OpenInit
<1>2. S!MarkShape(file)
  BY <1>1, CapturesAssumption
<1>3. asked = "rs" /\ claim = S!NoResult
  BY DEF OpenInit, S!Init
<1>4. \A fam \in S!Signatures : "rs" \in Until(fam)
  BY <1>2, MarkByte DEF MarkedFamilies, Until
<1> QED
  BY <1>2, <1>3, <1>4 DEF SniffInv, Due

LEMMA Sniffs == Opens => []SniffInv
  BY SniffStart, SniffStep, PTL DEF Opens

-----------------------------------------------------------------------------
LEMMA AnswersImply == SniffInv => S!TypeOK
<1> SUFFICES ASSUME SniffInv
             PROVE  S!TypeOK
  OBVIOUS
<1>1. CASE asked # "done"
  BY <1>1 DEF SniffInv, Due, S!TypeOK, S!NoResult
<1>2. CASE asked = "done"
  <2>1. claim.tag \in {"ok", "err"}
    BY <1>2 DEF SniffInv, Rightful, S!Err
  <2> QED
    BY <1>2, <2>1 DEF S!TypeOK, S!NoResult
<1> QED
  BY <1>1, <1>2

LEMMA DecidesImply == SniffInv => S!SignatureDecides
  BY DEF SniffInv, Rightful, S!SignatureDecides

(* The first '#' of a file that has one. *)
LEMMA FirstHash ==
    ASSUME S!MarkShape(file), file.hashes # {}
    PROVE  /\ S!HeaderEnd \in file.hashes
           /\ \A p \in file.hashes : S!HeaderEnd <= p
<1>1. file.hashes \in SUBSET Nat
  BY DEF S!MarkShape
<1>2. \E p \in file.hashes : \A q \in file.hashes : p <= q
  BY <1>1, Least
<1> QED
  BY <1>2 DEF S!HeaderEnd

LEMMA CurveImply == SniffInv => S!CurveFound
<1> SUFFICES ASSUME SniffInv, claim.tag = "ok", claim.fam = "Isf", file.curve \in file.hashes
             PROVE  S!AsWritten <=> \A p \in file.hashes : file.curve <= p
  BY DEF S!CurveFound
<1> DEFINE e == S!HeaderEnd
<1>1. claim = S!ParseIsf
  BY DEF SniffInv, Due, Rightful, S!NoResult, S!Err
<1>2. /\ file.hashes \subseteq Nat /\ file.digit \in [file.hashes -> 0 .. 255]
      /\ file.digit[file.curve] \in 48 .. 57 /\ file.pts > 0 /\ file.nrPt < file.curve
      /\ \A p \in file.hashes : p < file.curve => p < file.nrPt
      /\ file.pts \in Nat /\ file.nrPt \in Nat
  BY DEF SniffInv, S!MarkShape
<1>3. e \in file.hashes /\ \A p \in file.hashes : e <= p
  BY FirstHash DEF SniffInv
<1>4. e \in Nat /\ file.curve \in Nat /\ e <= file.curve
  BY <1>2, <1>3
<1>5. claim.off = e + 2 + S!Digits /\ claim.pts = IF file.nrPt < e THEN file.pts ELSE 0
  BY <1>1 DEF S!ParseIsf, S!Err
<1>6. ASSUME S!AsWritten
      PROVE  e = file.curve
  <2>1. claim.pts = file.pts
    BY <1>6 DEF S!AsWritten
  <2>2. file.nrPt < e
    BY <1>2, <1>5, <2>1
  <2>3. ~(e < file.curve)
    BY <1>2, <1>3, <1>4, <2>2
  <2> QED
    BY <1>4, <2>3
<1>7. ASSUME e = file.curve
      PROVE  S!AsWritten
  <2>1. S!Digits = file.digit[file.curve] - 48
    BY <1>2, <1>7 DEF S!Digits
  <2>2. file.nrPt < e
    BY <1>2, <1>7
  <2>3. claim.off = file.curve + 2 + (file.digit[file.curve] - 48) /\ claim.pts = file.pts
    BY <1>5, <1>7, <2>1, <2>2
  <2>4. file.curve + 2 + (file.digit[file.curve] - 48)
            = file.curve + 2 + file.digit[file.curve] - 48
    BY <1>2, <1>4
  <2> QED
    BY <2>3, <2>4 DEF S!AsWritten
<1>8. e = file.curve <=> \A p \in file.hashes : file.curve <= p
  BY <1>2, <1>3, <1>4
<1> QED
  BY <1>6, <1>7, <1>8

-----------------------------------------------------------------------------
(* The DHO walk. A set of numbers up to n has a greatest.                  *)
LEMMA Greatest ==
    ASSUME NEW n \in Nat, NEW T \in SUBSET (0 .. n), T # {}
    PROVE  \E x \in T : \A y \in T : y <= x
<1> DEFINE U == {n - x : x \in T}
<1>1. U \in SUBSET Nat /\ U # {}
  <2>1. \A x \in T : n - x \in Nat
    OBVIOUS
  <2> QED
    BY <2>1
<1>2. PICK u \in U : \A v \in U : u <= v
  BY <1>1, Least
<1>3. PICK x \in T : u = n - x
  BY <1>2
<1>4. ASSUME NEW y \in T
      PROVE  y <= x
  <2>1. n - x <= n - y
    BY <1>2, <1>3
  <2>2. x \in Nat /\ y \in Nat
    OBVIOUS
  <2> QED
    BY <2>1, <2>2
<1> QED
  BY <1>4

LEMMA LastIsMember ==
    ASSUME NEW n \in Nat, NEW T \in SUBSET (1 .. n)
    PROVE  D!LastOf(T) \in 0 .. n \cup {D!NoEntry}
<1>1. CASE T = {}
  BY <1>1 DEF D!LastOf
<1>2. CASE T # {}
  <2>1. T \in SUBSET (0 .. n)
    OBVIOUS
  <2>2. \E x \in T : \A y \in T : y <= x
    BY <1>2, <2>1, Greatest
  <2>3. D!LastOf(T) \in T
    BY <1>2, <2>2 DEF D!LastOf
  <2> QED
    BY <2>1, <2>3
<1> QED
  BY <1>1, <1>2

LEMMA CalibrationsType ==
    ASSUME NEW bs, Len(bs) \in Nat
    PROVE  D!Calibrations(bs) \in [D!Channels -> 0 .. Len(bs) \cup {D!NoEntry}]
<1> DEFINE Slots == [D!Channels -> 0 .. Len(bs) \cup {D!NoEntry}]
<1>1. ASSUME NEW type
      PROVE  D!OwnCals(bs, type) \in Slots
  <2>1. \A c \in D!Channels :
            D!LastOf({j \in 1 .. Len(bs) : /\ bs[j].type = type /\ bs[j].id = c + 1
                                           /\ bs[j].len >= D!Needed(type)})
                \in 0 .. Len(bs) \cup {D!NoEntry}
    BY LastIsMember
  <2> QED
    BY <2>1 DEF D!OwnCals
<1>2. D!LegacyScale(bs) \in 0 .. Len(bs) \cup {D!NoEntry}
  BY LastIsMember DEF D!LegacyScale
<1>3. 0 \in D!Channels
  BY DEF D!Channels
<1> DEFINE own == D!OwnCals(bs, IF D!IsDho800(bs) THEN D!Dho800Params ELSE D!ChannelParams)
<1>4. own \in Slots
  BY <1>1
<1>5. [own EXCEPT ![0] = D!LegacyScale(bs)] \in Slots
  BY <1>2, <1>3, <1>4
<1>6. \/ D!Calibrations(bs) = own
      \/ D!Calibrations(bs) = [own EXCEPT ![0] = D!LegacyScale(bs)]
  BY DEF D!Calibrations
<1> QED
  BY <1>4, <1>5, <1>6

MetaBlocks == [id: Nat, type: Nat, len: Nat]

(* The block to read next is one the file has: the terminator, always      *)
(* there, ends the walk. A file that no DHO body belongs to is not walked. *)
DhoInv ==
    /\ dho # NoDho => D!RawShape(dho)
    /\ dho = NoDho => at = "start" /\ dho.size = 0
    /\ blocks \in Seq(MetaBlocks)
    /\ at = "start" => blocks = <<>> /\ offset = 0
    /\ at = "blocks" => Len(blocks) < Len(dho.blocks)
    /\ at # "start" => Len(blocks) <= Len(dho.blocks)
    /\ at \in {"start", "blocks", "calibrate", "skip", "section", "done"}
    /\ offset \in 0 .. dho.size
    /\ cals \in [D!Channels -> 0 .. Len(blocks) \cup {D!NoEntry}]
    /\ at = "done" <=> found # D!NoResult

LEMMA DhoStart == OpenInit => DhoInv
<1> SUFFICES ASSUME OpenInit
             PROVE  DhoInv
  OBVIOUS
<1>1. PICK c \in Captures : dho = c.dho
  BY DEF OpenInit
<1>2. dho # NoDho => D!RawShape(dho)
  BY <1>1, CapturesAssumption
<1>3. dho = NoDho => dho.size = 0
  BY DEF NoDho
<1>4. dho.size \in Nat
  BY <1>2, <1>3 DEF D!RawShape
<1>5. at = "start" /\ offset = 0 /\ blocks = <<>> /\ cals = D!NoCals /\ found = D!NoResult
  BY DEF OpenInit, D!Init
<1>6. cals \in [D!Channels -> 0 .. Len(blocks) \cup {D!NoEntry}]
  BY <1>5 DEF D!NoCals
<1> QED
  BY <1>2, <1>3, <1>4, <1>5, <1>6 DEF DhoInv

LEMMA DhoFail ==
    ASSUME DhoInv, dho # NoDho, D!Fail
    PROVE  DhoInv'
<1>1. /\ dho' = dho /\ offset' = offset /\ blocks' = blocks /\ cals' = cals /\ at' = "done"
      /\ found' = D!Err("not a DHO capture")
  BY DEF D!Fail
<1>2. found' # D!NoResult
  BY <1>1 DEF D!Err, D!NoResult
<1>3. D!RawShape(dho)'
  BY <1>1 DEF DhoInv, D!RawShape
<1>4. Len(blocks) <= Len(dho.blocks)
  BY DEF DhoInv, D!RawShape
<1> QED
  BY <1>1, <1>2, <1>3, <1>4 DEF DhoInv, D!NoResult, D!Channels, D!NoEntry

LEMMA DhoSame ==
    ASSUME dho' = dho
    PROVE  D!RawShape(dho)' <=> D!RawShape(dho)
  BY DEF D!RawShape

LEMMA DhoStep ==
    ASSUME DhoInv, dho # NoDho, D!Next
    PROVE  DhoInv'
<1> USE DEF D!NoEntry
<1>1. /\ D!RawShape(dho) /\ dho.size \in Nat /\ offset \in 0 .. dho.size
      /\ blocks \in Seq(MetaBlocks) /\ Len(blocks) \in Nat /\ Len(dho.blocks) \in Nat
      /\ cals \in [D!Channels -> 0 .. Len(blocks) \cup {D!NoEntry}]
      /\ Len(blocks) <= Len(dho.blocks)
  BY DEF DhoInv, D!RawShape
<1>2. ASSUME dho' = dho
      PROVE  D!RawShape(dho)'
  BY <1>1, <1>2, DhoSame
<1>3. CASE D!Start /\ ~D!Fail
  <2>1. /\ dho' = dho /\ offset' = 24 /\ at' = "blocks" /\ at = "start"
        /\ blocks' = blocks /\ cals' = cals /\ found' = found /\ dho.size >= 36
    BY <1>1, <1>3 DEF D!Start, D!FileHeaderSize, D!BlockHeaderSize
  <2>2. blocks = <<>> /\ 0 < Len(dho.blocks)
    BY <2>1 DEF DhoInv, D!RawShape
  <2>3. Len(blocks) = 0 /\ offset' \in 0 .. dho.size
    BY <1>1, <2>1, <2>2
  <2> QED
    BY <1>1, <1>2, <2>1, <2>2, <2>3 DEF DhoInv, D!NoResult, D!Channels
<1>4. CASE D!ReadBlock /\ ~D!Fail
  <2> DEFINE blk == D!Block
             read == [id |-> blk.id, type |-> blk.type, len |-> D!Decompressed(blk)]
  <2>1. /\ at = "blocks" /\ at' = at /\ dho' = dho /\ cals' = cals /\ found' = found
        /\ D!HeaderFits /\ ~D!Terminates(blk)
        /\ offset' = offset + D!BlockHeaderSize + blk.len /\ blocks' = Append(blocks, read)
        /\ ~(offset + D!BlockHeaderSize + blk.len > dho.size)
    BY <1>4 DEF D!ReadBlock
  <2>2. Len(blocks) < Len(dho.blocks)
    BY <2>1 DEF DhoInv
  <2>3. Len(blocks) + 1 \in 1 .. Len(dho.blocks)
    BY <1>1, <2>2
  <2>4. /\ blk.id \in Nat /\ blk.type \in Nat /\ blk.len \in Nat /\ blk.comp \in Nat
        /\ blk.inflated \in Nat \cup {D!Corrupt}
        /\ D!Terminates(blk) <=> Len(blocks) + 1 = Len(dho.blocks)
    BY <1>1, <2>3 DEF D!RawShape, D!Block
  <2>5. D!Decompressed(blk) \in Nat
    BY <2>4 DEF D!Decompressed, D!Smaller
  <2>6. read \in MetaBlocks
    BY <2>4, <2>5 DEF MetaBlocks
  <2> HIDE DEF blk, read
  <2>7. Append(blocks, read) \in Seq(MetaBlocks) /\ Len(Append(blocks, read)) = Len(blocks) + 1
    BY <1>1, <2>6
  <2>8. Len(blocks) + 1 < Len(dho.blocks)
    BY <1>1, <2>1, <2>2, <2>4
  <2>9. offset + D!BlockHeaderSize + blk.len \in 0 .. dho.size
    BY <1>1, <2>1, <2>4, SMTT(30) DEF D!BlockHeaderSize
  <2>10. cals \in [D!Channels -> 0 .. (Len(blocks) + 1) \cup {D!NoEntry}]
    BY <1>1
  <2> QED
    BY <1>1, <1>2, <2>1, <2>7, <2>8, <2>9, <2>10 DEF DhoInv, D!NoResult, D!Channels
<1>5. CASE D!EndOfBlocks /\ ~D!Fail
  BY <1>1, <1>2, <1>5 DEF D!EndOfBlocks, DhoInv, D!HeaderFits, D!BlockHeaderSize, D!NoResult,
     D!Channels
<1>6. CASE D!Calibrate /\ ~D!Fail
  <2>1. D!Calibrations(blocks) \in [D!Channels -> 0 .. Len(blocks) \cup {D!NoEntry}]
    BY <1>1, CalibrationsType
  <2> QED
    BY <1>1, <1>2, <1>6, <2>1 DEF D!Calibrate, DhoInv, D!NoResult, D!Channels
<1>7. CASE D!SkipZero
  BY <1>1, <1>2, <1>7 DEF D!SkipZero, D!AtZero, DhoInv, D!NoResult, D!Channels
<1>8. CASE D!EndOfPadding /\ ~D!Fail
  BY <1>1, <1>2, <1>8 DEF D!EndOfPadding, DhoInv, D!NoResult, D!Channels
<1>9. CASE D!ReadSection /\ ~D!Fail
  <2>1. PICK h : /\ found' = D!Ok(h) /\ at' = "done"
                 /\ dho' = dho /\ offset' = offset /\ blocks' = blocks /\ cals' = cals
    BY <1>9 DEF D!ReadSection
  <2>2. found' # D!NoResult
    BY <2>1 DEF D!Ok, D!NoResult
  <2> QED
    BY <1>1, <1>2, <2>1, <2>2 DEF DhoInv, D!NoResult, D!Channels
<1>10. CASE D!Fail
  BY <1>10, DhoFail
<1> QED
  BY <1>3, <1>4, <1>5, <1>6, <1>7, <1>8, <1>9, <1>10 DEF D!Next

LEMMA DhoKeeps ==
    ASSUME DhoInv, [OpenNext]_allVars
    PROVE  DhoInv'
<1>1. CASE WalkDho
  BY <1>1, DhoStep DEF WalkDho
<1>2. CASE UNCHANGED dhoVars
  <2>1. /\ dho' = dho /\ at' = at /\ offset' = offset /\ blocks' = blocks /\ cals' = cals
        /\ found' = found
    BY <1>2 DEF dhoVars
  <2>2. D!RawShape(dho)' <=> D!RawShape(dho)
    BY <2>1, DhoSame
  <2> QED
    BY <2>1, <2>2 DEF DhoInv, D!NoResult, D!Channels, D!NoEntry, NoDho
<1> QED
  BY <1>1, <1>2 DEF OpenNext, Sniffing, WalkKeysight, allVars

LEMMA DhoWalks == OpenInit /\ [][OpenNext]_allVars => []DhoInv
  BY DhoStart, DhoKeeps, PTL

LEMMA WalkImply == DhoInv => D!TypeOK
<1> SUFFICES ASSUME DhoInv
             PROVE  D!TypeOK
  OBVIOUS
<1>1. Len(blocks) <= Len(dho.blocks)
  <2>1. CASE at # "start"
    BY <2>1 DEF DhoInv
  <2>2. CASE at = "start" /\ dho # NoDho
    BY <2>2 DEF DhoInv, D!RawShape
  <2>3. CASE dho = NoDho
    BY <2>3 DEF DhoInv, NoDho
  <2> QED
    BY <2>1, <2>2, <2>3
<1> QED
  BY <1>1 DEF DhoInv, D!TypeOK

-----------------------------------------------------------------------------
(* Where each block of a DHO file ends.                                    *)
Ends(r) ==
    CHOOSE e : e = [j \in 0 .. Len(r.blocks) |->
                        IF j = 0 THEN D!FileHeaderSize
                        ELSE e[j - 1] + D!BlockHeaderSize + r.blocks[j].len]

LEMMA EndsAre ==
    ASSUME NEW r, D!RawShape(r)
    PROVE  /\ Ends(r)[0] = 24
           /\ \A j \in 1 .. Len(r.blocks) : Ends(r)[j] = Ends(r)[j - 1] + 12 + r.blocks[j].len
           /\ D!BlocksEnd(r) = Ends(r)[Len(r.blocks)]
<1> DEFINE N == Len(r.blocks)
           len(j) == r.blocks[j].len
           G(e, n) == [j \in 0 .. n |-> IF j = 0 THEN 24 ELSE e[j - 1] + 12 + len(j)]
           X == {n \in Nat : \E e : e = G(e, n)}
<1>1. N \in Nat
  BY DEF D!RawShape
<1> HIDE DEF N, len
<1>2. 0 \in X
  <2> DEFINE e == [j \in 0 .. 0 |-> 24]
  <2>1. e = G(e, 0)
    OBVIOUS
  <2> QED
    BY <2>1
<1>3. ASSUME NEW n \in Nat, n \in X
      PROVE  n + 1 \in X
  <2>1. PICK e : e = G(e, n)
    BY <1>3
  <2> DEFINE f == [j \in 0 .. n + 1 |-> IF j = n + 1 THEN e[n] + 12 + len(n + 1) ELSE e[j]]
  <2>2. ASSUME NEW j \in 0 .. n + 1
        PROVE  f[j] = G(f, n + 1)[j]
    <3>1. CASE j = n + 1
      <4>1. f[n] = e[n]
        OBVIOUS
      <4> QED
        BY <3>1, <4>1
    <3>2. CASE j \in 1 .. n
      <4>1. f[j] = e[j] /\ f[j - 1] = e[j - 1]
        BY <3>2
      <4>2. e[j] = e[j - 1] + 12 + len(j)
        BY <2>1, <3>2
      <4> QED
        BY <3>2, <4>1, <4>2
    <3>3. CASE j = 0
      <4>1. e[0] = 24
        BY <2>1
      <4> QED
        BY <3>3, <4>1
    <3> QED
      BY <3>1, <3>2, <3>3
  <2>3. f = G(f, n + 1)
    BY <2>2
  <2> HIDE DEF f, G
  <2>4. \E g : g = G(g, n + 1)
    BY <2>3
  <2> QED
    BY <2>4
<1>4. N \in X
  <2> HIDE DEF X
  <2> QED
    BY <1>1, <1>2, <1>3, SetInduction
<1>5. \E e : e = G(e, N)
  BY <1>4
<1>6. Ends(r) = CHOOSE e : e = G(e, N)
  BY DEF Ends, D!FileHeaderSize, D!BlockHeaderSize, N, len
<1>7. Ends(r) = G(Ends(r), N)
  BY <1>5, <1>6
<1>8. D!BlocksEnd(r) = Ends(r)[Len(r.blocks)]
  BY DEF D!BlocksEnd, Ends
<1> HIDE DEF G
<1>9. \A j \in 0 .. N : Ends(r)[j] = IF j = 0 THEN 24 ELSE Ends(r)[j - 1] + 12 + len(j)
  <2> DEFINE e == Ends(r)
  <2>1. e = G(e, N)
    BY <1>7
  <2> HIDE DEF e
  <2>2. \A j \in 0 .. N : G(e, N)[j] = IF j = 0 THEN 24 ELSE e[j - 1] + 12 + len(j)
    BY DEF G
  <2> QED
    BY <2>1, <2>2 DEF e
<1> QED
  BY <1>1, <1>8, <1>9 DEF N, len

(* They come one behind the other. *)
LEMMA EndsAscend ==
    ASSUME NEW r, D!RawShape(r)
    PROVE  /\ \A j \in 0 .. Len(r.blocks) : Ends(r)[j] \in Nat
           /\ \A j \in 0 .. Len(r.blocks) : Ends(r)[j] <= D!BlocksEnd(r)
<1> DEFINE N == Len(r.blocks)
           e == Ends(r)
           X == {n \in Nat : n <= N => e[n] \in Nat}
           Y == {n \in Nat : n <= N => e[N - n] <= e[N]}
<1>1. N \in Nat /\ \A j \in 1 .. N : r.blocks[j].len \in Nat
  BY DEF D!RawShape
<1>2. /\ e[0] = 24
      /\ \A j \in 1 .. N : e[j] = e[j - 1] + 12 + r.blocks[j].len
      /\ D!BlocksEnd(r) = e[N]
  BY EndsAre
<1> HIDE DEF N, e
<1>3. 0 \in X
  BY <1>2
<1>4. ASSUME NEW n \in Nat, n \in X
      PROVE  n + 1 \in X
  <2>1. CASE n + 1 <= N
    <3>1. n + 1 \in 1 .. N /\ e[n] \in Nat
      BY <1>1, <1>4, <2>1
    <3>2. e[n + 1] = e[(n + 1) - 1] + 12 + r.blocks[n + 1].len /\ r.blocks[n + 1].len \in Nat
      BY <1>1, <1>2, <3>1
    <3>3. e[n + 1] \in Nat /\ n + 1 \in Nat
      BY <3>1, <3>2
    <3> QED
      BY <3>3
  <2>2. CASE ~(n + 1 <= N)
    BY <2>2
  <2> QED
    BY <2>1, <2>2
<1>5. \A n \in Nat : n \in X
  <2> HIDE DEF X
  <2> QED
    BY <1>3, <1>4, SetInduction
<1>6. \A j \in 0 .. N : e[j] \in Nat
  BY <1>1, <1>5
<1>7. 0 \in Y
  BY <1>1, <1>6
<1>8. ASSUME NEW n \in Nat, n \in Y
      PROVE  n + 1 \in Y
  <2>1. CASE n + 1 <= N
    <3>1. N - n \in 1 .. N /\ e[N - n] <= e[N]
      BY <1>1, <1>8, <2>1
    <3>2. /\ e[N - n] = e[(N - n) - 1] + 12 + r.blocks[N - n].len
          /\ r.blocks[N - n].len \in Nat
      BY <1>1, <1>2, <3>1
    <3>3. e[N] \in Nat /\ e[N - (n + 1)] \in Nat /\ (N - n) - 1 = N - (n + 1)
      BY <1>1, <1>6, <2>1
    <3> QED
      BY <3>1, <3>2, <3>3
  <2> QED
    BY <1>1, <2>1
<1>9. \A n \in Nat : n \in Y
  <2> HIDE DEF Y
  <2> QED
    BY <1>7, <1>8, SetInduction
<1>10. ASSUME NEW j \in 0 .. N
       PROVE  e[j] <= e[N]
  <2>1. N - j \in Nat /\ N - j <= N /\ N - (N - j) = j
    BY <1>1
  <2> QED
    BY <1>9, <2>1
<1> QED
  BY <1>2, <1>6, <1>10 DEF N, e

-----------------------------------------------------------------------------
(* The bytes behind the blocks. Before the section there are only zeros,   *)
(* and behind its header one byte over and over, so the first byte that is *)
(* not zero lies within the header or just behind it, or nowhere.          *)
LEMMA FoundWhereItStops ==
    ASSUME NEW r, D!RawShape(r), NEW o \in Nat, D!BlocksEnd(r) <= o, D!BlocksEnd(r) \in Nat,
           \A p \in D!BlocksEnd(r) .. o - 1 : D!ByteAt(r, p) = 0,
           ~(o < r.size /\ D!ByteAt(r, o) = 0)
    PROVE  /\ o < r.size => D!Found(r) = o /\ r.sec <= o
           /\ o >= r.size => D!Found(r) = r.size
<1> DEFINE nonzero == {p \in r.sec .. r.sec + 40 : p < r.size /\ D!ByteAt(r, p) # 0}
           start == D!BlocksEnd(r)
<1>1. /\ r.sec \in Nat /\ r.size \in Nat /\ start \in Nat /\ start <= r.sec
      /\ \A p \in start .. o - 1 : D!ByteAt(r, p) = 0
      /\ start <= o
  BY DEF D!RawShape
<1>2. D!Found(r) = IF nonzero = {} THEN r.size
                   ELSE CHOOSE p \in nonzero : \A q \in nonzero : p <= q
  BY DEF D!Found, D!SectionSize
<1> HIDE DEF start
<1>3. ASSUME NEW p \in nonzero
      PROVE  p \in Nat /\ p >= o /\ p < r.size
  <2>1. p \in Nat /\ p >= r.sec /\ p < r.size /\ D!ByteAt(r, p) # 0
    BY <1>1
  <2>2. ~(p \in start .. o - 1)
    BY <1>1, <2>1
  <2> QED
    BY <1>1, <2>1, <2>2
<1>4. ASSUME o >= r.size
      PROVE  D!Found(r) = r.size
  <2>1. nonzero = {}
    BY <1>1, <1>3, <1>4
  <2> QED
    BY <1>2, <2>1
<1>5. ASSUME o < r.size
      PROVE  D!Found(r) = o /\ r.sec <= o
  <2>1. D!ByteAt(r, o) # 0
    BY <1>5
  <2>2. r.sec <= o
    <3> SUFFICES ASSUME o - r.sec < 0
                 PROVE  FALSE
      BY <1>1
    <3> DEFINE q == o - r.sec
    <3>0. q < 0 /\ q \notin 0 .. 7 /\ q \notin 24 .. 27 /\ ~(q >= 40)
      BY <1>1
    <3>1. D!ByteAt(r, o) = 0
      BY <3>0 DEF D!ByteAt, D!SectionSize
    <3> QED
      BY <2>1, <3>1
  <2>3. o <= r.sec + 40
    <3> SUFFICES ASSUME o > r.sec + 40
                 PROVE  FALSE
      BY <1>1
    <3>1. D!ByteAt(r, r.sec + 40) = 0
      BY <1>1
    <3>2. D!ByteAt(r, r.sec + 40) = r.fill
      <4>1. (r.sec + 40) - r.sec = 40
        BY <1>1
      <4>2. ~(40 < 0) /\ 40 \notin 0 .. 7 /\ 40 \notin 24 .. 27 /\ 40 >= 40
        OBVIOUS
      <4> QED
        BY <4>1, <4>2 DEF D!ByteAt, D!SectionSize
    <3>3. D!ByteAt(r, o) = r.fill
      <4> DEFINE q == o - r.sec
      <4>1. q \in Int /\ q > 40
        BY <1>1
      <4>2. ~(q < 0) /\ q \notin 0 .. 7 /\ q \notin 24 .. 27 /\ q >= 40
        BY <4>1
      <4> QED
        BY <4>2 DEF D!ByteAt, D!SectionSize
    <3> QED
      BY <2>1, <3>1, <3>2, <3>3
  <2>4. o \in nonzero
    BY <1>1, <1>5, <2>1, <2>2, <2>3
  <2>5. \A q \in nonzero : o <= q
    BY <1>3
  <2> HIDE DEF nonzero
  <2>6. \E p \in nonzero : \A q \in nonzero : p <= q
    BY <2>4, <2>5
  <2>7. D!Found(r) \in nonzero /\ \A q \in nonzero : D!Found(r) <= q
    BY <1>2, <2>4, <2>6
  <2>8. D!Found(r) <= o /\ o <= D!Found(r) /\ D!Found(r) \in Nat
    BY <1>3, <2>4, <2>5, <2>7
  <2> QED
    BY <2>2, <2>8
<1> QED
  BY <1>4, <1>5

(* A file that ends before its blocks do has no section. *)
LEMMA NothingFound ==
    ASSUME NEW r, D!RawShape(r), r.size < D!BlocksEnd(r), D!BlocksEnd(r) \in Nat
    PROVE  D!Found(r) = r.size
<1>1. {p \in r.sec .. r.sec + D!SectionSize : p < r.size /\ D!ByteAt(r, p) # 0} = {}
  BY DEF D!RawShape, D!SectionSize
<1> QED
  BY <1>1 DEF D!Found

(* Four little-endian bytes give the number back. *)
LEMMA LittleEndian ==
    ASSUME NEW v \in Nat, v < 2147483648
    PROVE  /\ (v \div 16777216) % 256 < 128
           /\ v = ((v \div 1) % 256) + 256 * ((v \div 256) % 256)
                  + 65536 * ((v \div 65536) % 256) + 16777216 * ((v \div 16777216) % 256)
  BY SMT

LEMMA NumbersBack ==
    ASSUME NEW r, D!RawShape(r)
    PROVE  D!Number(r, r.sec, 8) = r.n /\ D!HintField(r, r.sec) = r.hint
<1>0. D!Huge \in Nat /\ D!Huge < 2147483648
  BY SMT DEF D!Huge
<1>1. /\ r.sec \in Nat /\ r.n \in Nat /\ r.hint \in Nat
      /\ r.n < 2147483648 /\ r.hint < 2147483648
  BY SMT, <1>0 DEF D!RawShape
<1> DEFINE P(i) == <<1, 256, 65536, 16777216>>[i + 1]
<1>2. P(0) = 1 /\ P(1) = 256 /\ P(2) = 65536 /\ P(3) = 16777216
  BY SMT
<1>8. r.n \in Nat
  BY SMT, <1>1
<1>9. \A i \in 4 .. 8 - 1 : D!Byte(r.n, i) = 0
  BY SMT DEF D!Byte
<1>4. ASSUME NEW i \in 0 .. 7
      PROVE  D!ByteAt(r, r.sec + i) = D!Byte(r.n, i)
  <2>1. (r.sec + i) - r.sec = i
    BY SMT, <1>1
  <2>2. ~(i < 0) /\ i \in 0 .. 7 /\ i \notin 24 .. 27 /\ ~(i >= 40)
    BY SMT
  <2> QED
    BY SMT, <2>1, <2>2 DEF D!ByteAt, D!SectionSize
<1>5. ASSUME NEW i \in 0 .. 3
      PROVE  D!ByteAt(r, (r.sec + 24) + i) = D!Byte(r.hint, i)
  <2>1. ((r.sec + 24) + i) - r.sec = 24 + i /\ (24 + i) - 24 = i
    BY SMT, <1>1
  <2>2. ~(24 + i < 0) /\ 24 + i \notin 0 .. 7 /\ 24 + i \in 24 .. 27 /\ ~(24 + i >= 40)
    BY SMT
  <2> QED
    BY SMT, <2>1, <2>2 DEF D!ByteAt, D!SectionSize
<1>6. D!Number(r, r.sec, 8) = r.n
  <2>1. /\ D!ByteAt(r, r.sec + 3) = D!Byte(r.n, 3) /\ D!ByteAt(r, r.sec + 2) = D!Byte(r.n, 2)
        /\ D!ByteAt(r, r.sec + 1) = D!Byte(r.n, 1) /\ D!ByteAt(r, r.sec) = D!Byte(r.n, 0)
        /\ \A i \in 4 .. 8 - 1 : D!ByteAt(r, r.sec + i) = D!Byte(r.n, i)
    <3>1. r.sec + 0 = r.sec
      BY SMT, <1>1
    <3> QED
      BY SMT, <1>4, <3>1
  <2>2. \A i \in 4 .. 8 - 1 : D!ByteAt(r, r.sec + i) = 0
    BY SMT, <1>9, <2>1
  <2>3. ~(D!ByteAt(r, r.sec + 3) >= 128)
    <3>1. D!Byte(r.n, 3) = (r.n \div 16777216) % 256
      BY SMT, <1>1, <1>2 DEF D!Byte
    <3>3. (r.n \div 16777216) % 256 < 128
      BY SMT, <1>1, LittleEndian
    <3>2. (r.n \div 16777216) % 256 \in Nat
      BY SMT, <1>1
    <3> QED
      BY SMT, <2>1, <3>1, <3>2, <3>3
  <2>4. D!Number(r, r.sec, 8) = D!Byte(r.n, 0) + 256 * D!Byte(r.n, 1)
                                + 65536 * D!Byte(r.n, 2) + 16777216 * D!Byte(r.n, 3)
    BY SMT, <2>1, <2>2, <2>3 DEF D!Number
  <2>5. r.n = D!Byte(r.n, 0) + 256 * D!Byte(r.n, 1)
              + 65536 * D!Byte(r.n, 2) + 16777216 * D!Byte(r.n, 3)
    <3> DEFINE v == r.n
    <3>1. v = ((v \div 1) % 256) + 256 * ((v \div 256) % 256)
              + 65536 * ((v \div 65536) % 256) + 16777216 * ((v \div 16777216) % 256)
      BY SMT, <1>1, LittleEndian
    <3>2. v \in Nat
      BY SMT, <1>1
    <3>3. /\ D!Byte(v, 0) = (v \div 1) % 256 /\ D!Byte(v, 1) = (v \div 256) % 256
          /\ D!Byte(v, 2) = (v \div 65536) % 256 /\ D!Byte(v, 3) = (v \div 16777216) % 256
      BY SMT, <1>2, <3>2 DEF D!Byte
    <3> QED
      BY SMT, <3>1, <3>3
  <2> QED
    BY SMT, <2>4, <2>5
<1>7. D!HintField(r, r.sec) = r.hint
  <2> DEFINE p == r.sec + 24
  <2>1. /\ D!ByteAt(r, p + 3) = D!Byte(r.hint, 3) /\ D!ByteAt(r, p + 2) = D!Byte(r.hint, 2)
        /\ D!ByteAt(r, p + 1) = D!Byte(r.hint, 1) /\ D!ByteAt(r, p) = D!Byte(r.hint, 0)
    <3>1. p + 0 = p
      BY SMT, <1>1
    <3> QED
      BY SMT, <1>5, <3>1
  <2> HIDE DEF p
  <2>3. ~(D!ByteAt(r, p + 3) >= 128) /\ ~ \E i \in 4 .. 4 - 1 : D!ByteAt(r, p + i) # 0
    <3>1. D!Byte(r.hint, 3) = (r.hint \div 16777216) % 256
      BY SMT, <1>1, <1>2 DEF D!Byte
    <3>3. (r.hint \div 16777216) % 256 < 128
      BY SMT, <1>1, LittleEndian
    <3>2. (r.hint \div 16777216) % 256 \in Nat
      BY SMT, <1>1
    <3> QED
      BY SMT, <2>1, <3>1, <3>2, <3>3
  <2>4. D!Number(r, p, 4) = D!Byte(r.hint, 0) + 256 * D!Byte(r.hint, 1)
                            + 65536 * D!Byte(r.hint, 2) + 16777216 * D!Byte(r.hint, 3)
    BY SMT, <2>1, <2>3 DEF D!Number
  <2>5. r.hint = D!Byte(r.hint, 0) + 256 * D!Byte(r.hint, 1)
                 + 65536 * D!Byte(r.hint, 2) + 16777216 * D!Byte(r.hint, 3)
    <3> DEFINE v == r.hint
    <3>1. v = ((v \div 1) % 256) + 256 * ((v \div 256) % 256)
              + 65536 * ((v \div 65536) % 256) + 16777216 * ((v \div 16777216) % 256)
      BY SMT, <1>1, LittleEndian
    <3>2. v \in Nat
      BY SMT, <1>1
    <3>3. /\ D!Byte(v, 0) = (v \div 1) % 256 /\ D!Byte(v, 1) = (v \div 256) % 256
          /\ D!Byte(v, 2) = (v \div 65536) % 256 /\ D!Byte(v, 3) = (v \div 16777216) % 256
      BY SMT, <1>2, <3>2 DEF D!Byte
    <3> QED
      BY SMT, <3>1, <3>3
  <2>6. D!HintField(r, r.sec) = D!Number(r, p, 4)
    BY SMT DEF D!HintField, p
  <2> QED
    BY SMT, <2>4, <2>5, <2>6
<1> QED
  BY SMT, <1>6, <1>7

-----------------------------------------------------------------------------
(* The walk and the file as a whole. *)
Entry(r, j) ==
    [id |-> r.blocks[j].id, type |-> r.blocks[j].type, len |-> D!Decompressed(r.blocks[j])]
Listed(r) == [j \in 1 .. Len(r.blocks) - 1 |-> Entry(r, j)]

Total(r)  == D!Number(r, D!Found(r), 8)
Header(r) == IF D!Found(r) + 40 < r.size /\ Total(r) \in 1 .. D!MaxPoints
             THEN D!Shape(Total(r), D!HintField(r, D!Found(r))) ELSE [n |-> 0, nch |-> 0]

Whole(r) == D!OpenDho(D!Described(r))

(* The walk answers what the file as a whole calls for. *)
Faithful(a, r) ==
    IF Whole(r).tag = "ok" THEN a = Whole(r) ELSE a = D!Err("not a DHO capture")

LEMMA WholeIs ==
    ASSUME NEW r
    PROVE  Whole(r) =
             IF \A c \in D!Channels : D!Calibrations(Listed(r))[c] = D!NoEntry
             THEN D!Err("no calibration")
             ELSE IF Header(r).n = 0 \/ Header(r).nch \notin 1 .. 4
             THEN D!Err("data shape invalid")
             ELSE IF Header(r).n > (r.size - (D!Found(r) + 40)) \div (2 * Header(r).nch)
             THEN D!Err("payload overruns file")
             ELSE D!Ok([fam |-> "Dho", size |-> r.size,
                        h |-> [n |-> Header(r).n, nch |-> Header(r).nch,
                               data |-> D!Found(r) + 40,
                               cals |-> [c \in D!Channels |->
                                   D!SlotCal(D!Calibrations(Listed(r)), Header(r).nch, c)]]])
<1> DEFINE f == D!Described(r)
           h == f.h
<1>1. f = [fam |-> "Dho", size |-> r.size,
           h |-> [blocks |-> D!Calibrations(Listed(r)), n |-> Header(r).n,
                  nch |-> Header(r).nch, data |-> D!Found(r) + 40]]
  BY Zenon DEF D!Described, Listed, Entry, Header, Total, D!SectionSize
<1>2. /\ f.fam = "Dho" /\ f.size = r.size
      /\ h.blocks = D!Calibrations(Listed(r)) /\ h.n = Header(r).n
      /\ h.nch = Header(r).nch /\ h.data = D!Found(r) + 40
  BY <1>1
<1> HIDE DEF f
<1>3. D!OpenDho(f) =
        IF \A c \in D!Channels : h.blocks[c] = D!NoEntry THEN D!Err("no calibration")
        ELSE IF h.n = 0 \/ h.nch \notin 1 .. 4 THEN D!Err("data shape invalid")
        ELSE IF h.n > (f.size - h.data) \div (2 * h.nch) THEN D!Err("payload overruns file")
        ELSE D!Ok([fam |-> f.fam, size |-> f.size,
                   h |-> [n |-> h.n, nch |-> h.nch, data |-> h.data,
                          cals |-> [c \in D!Channels |-> D!SlotCal(h.blocks, h.nch, c)]]])
  BY Zenon DEF D!OpenDho, D!Overrun
<1>4. Whole(r) = D!OpenDho(f)
  BY DEF Whole, f
<1> HIDE DEF h
<1> QED
  BY <1>2, <1>3, <1>4, Zenon

LEMMA ErrsAreErrs == \A e : D!Err(e).tag = "err"
  BY DEF D!Err

(* Nothing is found, or not enough of it: the file as a whole is refused.  *)
LEMMA NoSection ==
    ASSUME NEW r, D!Found(r) + 40 >= r.size, D!Found(r) \in Nat, r.size \in Nat
    PROVE  Whole(r).tag # "ok"
<1>1. ~(D!Found(r) + 40 < r.size)
  OBVIOUS
<1>2. Header(r).n = 0
  BY <1>1 DEF Header
<1>3. Whole(r) = D!Err("no calibration") \/ Whole(r) = D!Err("data shape invalid")
  BY <1>2, WholeIs, Zenon
<1> QED
  BY <1>3, ErrsAreErrs

LEMMA NoBlocks ==
    ASSUME NEW r, D!Calibrations(Listed(r)) = D!NoCals
    PROVE  Whole(r).tag # "ok"
<1>1. \A c \in D!Channels : D!Calibrations(Listed(r))[c] = D!NoEntry
  BY DEF D!NoCals
<1>2. Whole(r) = D!Err("no calibration")
  BY <1>1, WholeIs, Zenon
<1> QED
  BY <1>2, ErrsAreErrs

(* Where the walk is: behind the blocks it has read, then behind zeros.    *)
Read(r, bs)  == \A j \in 1 .. Len(bs) : bs[j] = Entry(r, j)
Zeros(r, o)  == D!BlocksEnd(r) <= o /\ \A p \in D!BlocksEnd(r) .. o - 1 : D!ByteAt(r, p) = 0

PlaceInv ==
    dho # NoDho =>
        /\ whole = D!Described(dho)
        /\ at \in {"blocks", "calibrate", "skip", "section"} => Read(dho, blocks)
        /\ at = "blocks" => offset = Ends(dho)[Len(blocks)]
        /\ at \in {"calibrate", "skip", "section"} =>
              Len(blocks) + 1 = Len(dho.blocks) /\ Zeros(dho, offset)
        /\ at \in {"skip", "section"} => cals = D!Calibrations(blocks) /\ cals # D!NoCals
        /\ at = "section" => offset + 40 < dho.size /\ D!ByteAt(dho, offset) # 0
        /\ at = "done" => Faithful(found, dho) /\ D!ReadAsWritten

LEMMA ListedAre ==
    ASSUME NEW r, NEW bs \in Seq(MetaBlocks), Len(bs) + 1 = Len(r.blocks), Read(r, bs)
    PROVE  bs = Listed(r)
<1>1. Len(r.blocks) - 1 = Len(bs)
  OBVIOUS
<1>2. bs = [j \in 1 .. Len(bs) |-> bs[j]]
  OBVIOUS
<1>3. bs = [j \in 1 .. Len(bs) |-> Entry(r, j)]
  BY <1>2, Zenon DEF Read
<1> QED
  BY <1>1, <1>3 DEF Listed

-----------------------------------------------------------------------------
LEMMA PlaceFail ==
    ASSUME dho # NoDho, PlaceInv, D!Fail, Whole(dho).tag # "ok"
    PROVE  PlaceInv'
<1>1. /\ dho' = dho /\ whole' = whole /\ at' = "done"
      /\ found' = D!Err("not a DHO capture") /\ found'.tag = "err"
  BY ErrsAreErrs DEF D!Fail
<1>2. D!ReadAsWritten'
  BY <1>1 DEF D!ReadAsWritten, D!Accepted
<1>3. Faithful(found, dho)'
  BY <1>1 DEF Faithful
<1> QED
  BY <1>1, <1>2, <1>3 DEF PlaceInv

LEMMA BlocksEndType ==
    ASSUME NEW r, D!RawShape(r)
    PROVE  D!BlocksEnd(r) \in Nat
<1>1. Len(r.blocks) \in 0 .. Len(r.blocks)
  BY DEF D!RawShape
<1> QED
  BY <1>1, EndsAre, EndsAscend

LEMMA CutShort ==
    ASSUME D!RawShape(dho), dho.size < D!BlocksEnd(dho)
    PROVE  Whole(dho).tag # "ok"
<1>1. D!BlocksEnd(dho) \in Nat
  BY BlocksEndType
<1>2. D!Found(dho) = dho.size /\ dho.size \in Nat
  BY <1>1, NothingFound DEF D!RawShape
<1> QED
  BY <1>2, NoSection

LEMMA PlaceOfStart ==
    ASSUME DhoInv, PlaceInv, dho # NoDho, D!Start
    PROVE  PlaceInv'
<1>1. /\ D!RawShape(dho) /\ dho.size \in Nat /\ Len(dho.blocks) \in Nat \ {0}
      /\ at = "start" /\ blocks = <<>> /\ whole = D!Described(dho)
  BY DEF DhoInv, PlaceInv, D!Start, D!RawShape
<1>2. CASE dho.size < 36
  <2>1. D!Fail
    BY <1>2 DEF D!Start, D!FileHeaderSize, D!BlockHeaderSize
  <2>2. /\ Ends(dho)[0] = 24 /\ Ends(dho)[1] = Ends(dho)[1 - 1] + 12 + dho.blocks[1].len
        /\ Ends(dho)[1] <= D!BlocksEnd(dho) /\ dho.blocks[1].len \in Nat
        /\ D!BlocksEnd(dho) \in Nat
    <3>1. 1 \in 1 .. Len(dho.blocks) /\ 1 \in 0 .. Len(dho.blocks)
          /\ Len(dho.blocks) \in 0 .. Len(dho.blocks)
      BY <1>1
    <3>2. dho.blocks[1].len \in Nat
      BY <1>1, <3>1 DEF D!RawShape
    <3> QED
      BY <1>1, <3>1, <3>2, EndsAre, EndsAscend
  <2>3. dho.size < D!BlocksEnd(dho)
    BY <1>1, <1>2, <2>2
  <2> QED
    BY <1>1, <2>1, <2>3, CutShort, PlaceFail
<1>3. CASE ~(dho.size < 36)
  <2>1. /\ dho' = dho /\ whole' = whole /\ blocks' = blocks /\ at' = "blocks" /\ offset' = 24
    BY <1>3 DEF D!Start, D!FileHeaderSize, D!BlockHeaderSize
  <2>2. Ends(dho)[Len(blocks)] = 24
    BY <1>1, EndsAre
  <2>3. Read(dho, blocks)
    BY <1>1 DEF Read
  <2> QED
    BY <1>1, <2>1, <2>2, <2>3 DEF PlaceInv
<1> QED
  BY <1>2, <1>3

(* The block the walk looks at next. *)
LEMMA NextBlock ==
    ASSUME DhoInv, PlaceInv, dho # NoDho, at = "blocks"
    PROVE  /\ D!RawShape(dho) /\ dho.size \in Nat /\ offset \in Nat
           /\ Len(blocks) + 1 \in 1 .. Len(dho.blocks)
           /\ Len(blocks) \in Nat /\ Len(dho.blocks) \in Nat
           /\ D!Block.len \in Nat
           /\ D!Terminates(D!Block) <=> Len(blocks) + 1 = Len(dho.blocks)
           /\ Ends(dho)[Len(blocks) + 1] = offset + 12 + D!Block.len
           /\ offset + 12 + D!Block.len <= D!BlocksEnd(dho)
           /\ D!BlocksEnd(dho) = Ends(dho)[Len(dho.blocks)] /\ D!BlocksEnd(dho) \in Nat
<1>1. /\ D!RawShape(dho) /\ dho.size \in Nat /\ offset \in 0 .. dho.size
      /\ Len(blocks) \in Nat /\ Len(dho.blocks) \in Nat /\ Len(blocks) < Len(dho.blocks)
  <2>1. D!RawShape(dho) /\ offset \in 0 .. dho.size /\ Len(blocks) \in Nat
        /\ Len(blocks) < Len(dho.blocks)
    BY DEF DhoInv
  <2>2. dho.size \in Nat /\ Len(dho.blocks) \in Nat
    BY <2>1 DEF D!RawShape
  <2> QED
    BY <2>1, <2>2
<1>2. Len(blocks) + 1 \in 1 .. Len(dho.blocks) /\ (Len(blocks) + 1) - 1 = Len(blocks)
      /\ Len(blocks) + 1 \in 0 .. Len(dho.blocks) /\ Len(dho.blocks) \in 0 .. Len(dho.blocks)
  BY <1>1
<1>3. /\ D!Block.len \in Nat /\ D!Block = dho.blocks[Len(blocks) + 1]
      /\ D!Terminates(D!Block) <=> Len(blocks) + 1 = Len(dho.blocks)
  BY <1>1, <1>2 DEF D!Block, D!RawShape
<1>4. offset = Ends(dho)[Len(blocks)]
  BY DEF PlaceInv
<1>5. Ends(dho)[Len(blocks) + 1] = offset + 12 + D!Block.len
  BY <1>1, <1>2, <1>3, <1>4, EndsAre
<1>6. /\ Ends(dho)[Len(blocks) + 1] <= D!BlocksEnd(dho)
      /\ D!BlocksEnd(dho) = Ends(dho)[Len(dho.blocks)] /\ D!BlocksEnd(dho) \in Nat
  BY <1>1, <1>2, EndsAre, EndsAscend
<1> QED
  BY <1>1, <1>2, <1>3, <1>5, <1>6

LEMMA PlaceOfBlock ==
    ASSUME DhoInv, PlaceInv, dho # NoDho, D!ReadBlock
    PROVE  PlaceInv'
<1>1. at = "blocks" /\ whole = D!Described(dho) /\ Read(dho, blocks) /\ blocks \in Seq(MetaBlocks)
  BY DEF DhoInv, PlaceInv, D!ReadBlock
<1>2. CASE ~D!HeaderFits \/ offset + 12 + D!Block.len > dho.size
  <2>1. D!Fail
    BY <1>2 DEF D!ReadBlock, D!BlockHeaderSize
  <2>2. dho.size < D!BlocksEnd(dho)
    BY <1>1, <1>2, NextBlock DEF D!HeaderFits, D!BlockHeaderSize
  <2>3. D!RawShape(dho)
    BY DEF DhoInv
  <2> QED
    BY <2>1, <2>2, <2>3, CutShort, PlaceFail
<1>3. CASE ~(~D!HeaderFits \/ offset + 12 + D!Block.len > dho.size)
  <2> DEFINE read == Entry(dho, Len(blocks) + 1)
  <2>1. /\ dho' = dho /\ whole' = whole /\ at' = "blocks" /\ offset' = offset + 12 + D!Block.len
        /\ blocks' = Append(blocks, read)
    BY <1>1, <1>3 DEF D!ReadBlock, D!BlockHeaderSize, D!Block, Entry
  <2>2. /\ Len(blocks)' = Len(blocks) + 1 /\ Len(blocks) \in Nat
        /\ \A j \in 1 .. Len(blocks) : blocks'[j] = blocks[j]
        /\ blocks'[Len(blocks) + 1] = read
    <3> HIDE DEF read
    <3> QED
      BY <1>1, <2>1
  <2>3. Read(dho, blocks)'
    <3> SUFFICES ASSUME NEW j \in 1 .. Len(blocks) + 1
                 PROVE  blocks'[j] = Entry(dho, j)
      BY <2>1, <2>2 DEF Read
    <3>1. CASE j \in 1 .. Len(blocks)
      BY <1>1, <2>2, <3>1 DEF Read
    <3>2. CASE j = Len(blocks) + 1
      BY <2>2, <3>2
    <3> QED
      BY <2>2, <3>1, <3>2
  <2>4. offset' = Ends(dho)[Len(blocks) + 1]
    BY <1>1, <2>1, NextBlock
  <2> QED
    BY <1>1, <2>1, <2>2, <2>3, <2>4 DEF PlaceInv
<1> QED
  BY <1>2, <1>3

LEMMA NoBlockNoCalibration == D!Calibrations(<<>>) = D!NoCals
<1>1. ~D!IsDho800(<<>>)
  BY DEF D!IsDho800
<1>2. D!LegacyCentre(<<>>) = D!NoEntry
  BY DEF D!LegacyCentre, D!LastOf
<1>3. \A type : D!OwnCals(<<>>, type) = D!NoCals
  BY DEF D!OwnCals, D!LastOf, D!NoCals
<1> QED
  BY <1>1, <1>2, <1>3 DEF D!Calibrations

LEMMA PlaceOfTerminator ==
    ASSUME DhoInv, PlaceInv, dho # NoDho, D!EndOfBlocks
    PROVE  PlaceInv'
<1>1. /\ at = "blocks" /\ whole = D!Described(dho) /\ Read(dho, blocks)
      /\ blocks \in Seq(MetaBlocks) /\ D!Terminates(D!Block)
  BY DEF DhoInv, PlaceInv, D!EndOfBlocks
<1>2. Len(blocks) + 1 = Len(dho.blocks)
  BY <1>1, NextBlock
<1>3. CASE blocks = <<>>
  <2>1. D!Fail
    BY <1>3 DEF D!EndOfBlocks
  <2>2. Listed(dho) = <<>>
    BY <1>1, <1>2, <1>3, ListedAre
  <2>3. D!Calibrations(Listed(dho)) = D!NoCals
    BY <2>2, NoBlockNoCalibration
  <2> QED
    BY <2>1, <2>3, NoBlocks, PlaceFail
<1>4. CASE blocks # <<>>
  <2>1. /\ dho' = dho /\ whole' = whole /\ blocks' = blocks /\ at' = "calibrate"
        /\ offset' = offset + 12
    BY <1>4 DEF D!EndOfBlocks, D!BlockHeaderSize
  <2>2. D!Block.len = 0
    BY <1>1 DEF D!Terminates
  <2>3. offset' = D!BlocksEnd(dho) /\ D!BlocksEnd(dho) \in Nat
    BY <1>1, <1>2, <2>1, <2>2, NextBlock
  <2>4. Zeros(dho, offset)'
    BY <2>1, <2>3 DEF Zeros
  <2> QED
    BY <1>1, <1>2, <2>1, <2>4 DEF PlaceInv
<1> QED
  BY <1>3, <1>4

LEMMA PlaceOfCalibration ==
    ASSUME DhoInv, PlaceInv, dho # NoDho, D!Calibrate
    PROVE  PlaceInv'
<1>1. /\ at = "calibrate" /\ whole = D!Described(dho) /\ Read(dho, blocks)
      /\ blocks \in Seq(MetaBlocks) /\ Len(blocks) + 1 = Len(dho.blocks) /\ Zeros(dho, offset)
  BY DEF DhoInv, PlaceInv, D!Calibrate
<1>2. CASE D!Calibrations(blocks) = D!NoCals
  <2>1. D!Fail
    BY <1>2 DEF D!Calibrate
  <2>2. Listed(dho) = blocks
    BY <1>1, ListedAre
  <2> QED
    BY <1>2, <2>1, <2>2, NoBlocks, PlaceFail
<1>3. CASE D!Calibrations(blocks) # D!NoCals
  <2>1. /\ dho' = dho /\ whole' = whole /\ blocks' = blocks /\ at' = "skip"
        /\ offset' = offset /\ cals' = D!Calibrations(blocks)
    BY <1>3 DEF D!Calibrate
  <2> QED
    BY <1>1, <1>3, <2>1 DEF PlaceInv, D!NoCals, D!Channels, D!NoEntry
<1> QED
  BY <1>2, <1>3

LEMMA PlaceOfZero ==
    ASSUME DhoInv, PlaceInv, dho # NoDho, D!SkipZero
    PROVE  PlaceInv'
<1>1. /\ at = "skip" /\ whole = D!Described(dho) /\ Read(dho, blocks)
      /\ Len(blocks) + 1 = Len(dho.blocks) /\ Zeros(dho, offset)
      /\ cals = D!Calibrations(blocks) /\ cals # D!NoCals
      /\ D!ByteAt(dho, offset) = 0 /\ offset \in Nat /\ D!BlocksEnd(dho) \in Nat
  <2>1. D!RawShape(dho) /\ dho.size \in Nat
    BY DEF DhoInv, D!RawShape
  <2> QED
    BY <2>1, BlocksEndType DEF DhoInv, PlaceInv, D!SkipZero, D!AtZero
<1>2. /\ dho' = dho /\ whole' = whole /\ blocks' = blocks /\ at' = at
      /\ offset' = offset + 1 /\ cals' = cals
  BY DEF D!SkipZero
<1>3. Zeros(dho, offset)'
  <2>1. \A p \in D!BlocksEnd(dho) .. (offset + 1) - 1 :
            p \in D!BlocksEnd(dho) .. offset - 1 \/ p = offset
    BY <1>1
  <2>2. D!BlocksEnd(dho) <= offset + 1
    BY <1>1 DEF Zeros
  <2>3. \A p \in D!BlocksEnd(dho) .. (offset + 1) - 1 : D!ByteAt(dho, p) = 0
    BY <1>1, <2>1 DEF Zeros
  <2> QED
    BY <1>2, <2>2, <2>3 DEF Zeros
<1> QED
  BY <1>1, <1>2, <1>3 DEF PlaceInv, D!NoCals, D!Channels, D!NoEntry

LEMMA PlaceOfPadding ==
    ASSUME DhoInv, PlaceInv, dho # NoDho, D!EndOfPadding
    PROVE  PlaceInv'
<1>1. /\ at = "skip" /\ whole = D!Described(dho) /\ Read(dho, blocks)
      /\ Len(blocks) + 1 = Len(dho.blocks) /\ Zeros(dho, offset)
      /\ cals = D!Calibrations(blocks) /\ cals # D!NoCals
      /\ offset \in Nat /\ D!BlocksEnd(dho) \in Nat /\ dho.size \in Nat /\ D!RawShape(dho)
      /\ ~(offset < dho.size /\ D!ByteAt(dho, offset) = 0)
  <2>1. D!RawShape(dho) /\ dho.size \in Nat
    BY DEF DhoInv, D!RawShape
  <2> QED
    BY <2>1, BlocksEndType DEF DhoInv, PlaceInv, D!EndOfPadding, D!AtZero
<1>2. CASE offset + 40 >= dho.size
  <2>1. D!Fail
    BY <1>2 DEF D!EndOfPadding, D!SectionSize
  <2>2. D!Found(dho) + 40 >= dho.size /\ D!Found(dho) \in Nat
    BY <1>1, <1>2, FoundWhereItStops DEF Zeros
  <2> QED
    BY <1>1, <2>1, <2>2, NoSection, PlaceFail
<1>3. CASE ~(offset + 40 >= dho.size)
  <2>1. /\ dho' = dho /\ whole' = whole /\ blocks' = blocks /\ at' = "section"
        /\ offset' = offset /\ cals' = cals
    BY <1>3 DEF D!EndOfPadding, D!SectionSize
  <2>2. offset + 40 < dho.size /\ D!ByteAt(dho, offset) # 0
    BY <1>1, <1>3
  <2> QED
    BY <1>1, <2>1, <2>2 DEF PlaceInv, D!NoCals, D!Channels, D!NoEntry
<1> QED
  BY <1>2, <1>3

LEMMA FirstByte ==
    ASSUME NEW r, D!RawShape(r)
    PROVE  D!ByteAt(r, r.sec) = r.n % 256
<1>1. r.sec \in Nat /\ r.n \in Nat
  <2>1. D!Huge \in Nat
    BY SMT DEF D!Huge
  <2> QED
    BY <2>1 DEF D!RawShape
<1>2. r.sec - r.sec = 0 /\ ~(0 < 0) /\ 0 \in 0 .. 7
  BY <1>1
<1>3. D!ByteAt(r, r.sec) = D!Byte(r.n, 0)
  BY <1>2, 0 \notin 24 .. 27, ~(0 >= 40) DEF D!ByteAt, D!SectionSize
<1>4. D!Byte(r.n, 0) = r.n % 256
  BY SMT, <1>1 DEF D!Byte
<1> QED
  BY <1>3, <1>4

LEMMA PlaceOfSection ==
    ASSUME DhoInv, PlaceInv, dho # NoDho, D!ReadSection
    PROVE  PlaceInv'
<1>1. /\ at = "section" /\ whole = D!Described(dho) /\ Read(dho, blocks)
      /\ Len(blocks) + 1 = Len(dho.blocks) /\ Zeros(dho, offset)
      /\ cals = D!Calibrations(blocks) /\ cals # D!NoCals
      /\ offset + 40 < dho.size /\ D!ByteAt(dho, offset) # 0
      /\ blocks \in Seq(MetaBlocks) /\ offset \in Nat /\ dho.size \in Nat /\ D!RawShape(dho)
      /\ cals \in [D!Channels -> 0 .. Len(blocks) \cup {D!NoEntry}]
      /\ dho.sec \in Nat
  <2>1. at = "section"
    BY DEF D!ReadSection
  <2>2. D!RawShape(dho) /\ blocks \in Seq(MetaBlocks) /\ offset \in 0 .. dho.size
        /\ cals \in [D!Channels -> 0 .. Len(blocks) \cup {D!NoEntry}]
    BY DEF DhoInv
  <2>3. dho.size \in Nat /\ dho.sec \in Nat
    BY <2>2 DEF D!RawShape
  <2>4. /\ whole = D!Described(dho) /\ Read(dho, blocks)
        /\ Len(blocks) + 1 = Len(dho.blocks) /\ Zeros(dho, offset)
        /\ cals = D!Calibrations(blocks) /\ cals # D!NoCals
        /\ offset + 40 < dho.size /\ D!ByteAt(dho, offset) # 0
    BY <2>1 DEF PlaceInv
  <2> QED
    BY <2>1, <2>2, <2>3, <2>4
<1>2. D!BlocksEnd(dho) \in Nat /\ D!BlocksEnd(dho) <= dho.sec
  BY <1>1, BlocksEndType DEF D!RawShape
<1>3. D!Found(dho) = offset /\ dho.sec <= offset
  BY <1>1, <1>2, FoundWhereItStops DEF Zeros
<1> DEFINE total == D!Number(dho, offset, 8)
           shape == D!Shape(total, D!HintField(dho, offset))
           refuse == \/ total \notin 1 .. D!MaxPoints
                     \/ shape.n = 0 \/ shape.nch \notin 1 .. 4
                     \/ shape.n > (dho.size - (offset + 40)) \div (2 * shape.nch)
           h == [n |-> shape.n, nch |-> shape.nch, data |-> offset + 40,
                 cals |-> [c \in D!Channels |-> D!SlotCal(cals, shape.nch, c)]]
<1>4. Listed(dho) = blocks
  BY <1>1, ListedAre
<1>5. ~ \A c \in D!Channels : D!Calibrations(Listed(dho))[c] = D!NoEntry
  <2> SUFFICES ASSUME \A c \in D!Channels : cals[c] = D!NoEntry
               PROVE  FALSE
    BY <1>1, <1>4
  <2>1. cals = D!NoCals
    BY <1>1 DEF D!NoCals
  <2> QED
    BY <1>1, <2>1
<1>6. Header(dho) = IF total \in 1 .. D!MaxPoints THEN shape ELSE [n |-> 0, nch |-> 0]
  BY <1>1, <1>3, Zenon DEF Header, Total
<1>7. CASE refuse
  <2>1. D!Fail
    BY <1>7, Zenon DEF D!ReadSection, D!SectionSize
  <2>2. Whole(dho).tag # "ok"
    <3>1. CASE total \notin 1 .. D!MaxPoints
      <4>1. Header(dho).n = 0
        BY <1>6, <3>1
      <4>2. Whole(dho) = D!Err("no calibration") \/ Whole(dho) = D!Err("data shape invalid")
        BY <4>1, WholeIs, Zenon
      <4> QED
        BY <4>2, ErrsAreErrs
    <3>2. CASE total \in 1 .. D!MaxPoints
      <4>1. Header(dho) = shape
        BY <1>6, <3>2
      <4> HIDE DEF total, shape
      <4>2. \/ Whole(dho) = D!Err("data shape invalid")
            \/ Whole(dho) = D!Err("payload overruns file")
        BY <1>3, <1>5, <1>7, <3>2, <4>1, WholeIs, Zenon
      <4> QED
        BY <4>2, ErrsAreErrs
    <3> QED
      BY <3>1, <3>2
  <2> QED
    BY <1>1, <2>1, <2>2, PlaceFail
<1>8. CASE ~refuse
  <2>1. /\ dho' = dho /\ whole' = whole /\ at' = "done"
        /\ found' = D!Ok([fam |-> "Dho", size |-> dho.size, h |-> h])
    BY <1>8, Zenon DEF D!ReadSection, D!SectionSize
  <2>2. Header(dho) = shape
    BY <1>6, <1>8
  <2> HIDE DEF total, shape
  <2>3. Whole(dho) = D!Ok([fam |-> "Dho", size |-> dho.size, h |-> h])
    BY <1>1, <1>3, <1>4, <1>5, <1>8, <2>2, WholeIs, Zenon
  <2>4. Whole(dho).tag = "ok"
    BY <2>3 DEF D!Ok
  <2>5. Faithful(found, dho)'
    <3>1. Faithful(found', dho)
      BY <2>1, <2>3, <2>4 DEF Faithful
    <3> QED
      BY <2>1, <3>1 DEF Faithful
  <2>6. found'.val.h = h /\ h.n = shape.n /\ h.nch = shape.nch /\ h.data = offset + 40
    BY <2>1 DEF D!Ok
  <2>7. ASSUME dho.n % 256 # 0
        PROVE  offset = dho.sec
    <3> SUFFICES ASSUME dho.sec < offset
                 PROVE  FALSE
      BY <1>1, <1>3
    <3>1. dho.sec \in D!BlocksEnd(dho) .. offset - 1
      BY <1>1, <1>2
    <3> QED
      BY <1>1, <2>7, <3>1, FirstByte DEF Zeros
  <2>8. ASSUME offset = dho.sec
        PROVE  dho.n % 256 # 0 /\ shape = D!Shape(dho.n, dho.hint)
    <3>1. dho.n % 256 # 0
      BY <1>1, <2>8, FirstByte
    <3>2. total = dho.n /\ D!HintField(dho, offset) = dho.hint
      BY <1>1, <2>8, NumbersBack DEF total
    <3> QED
      BY <3>1, <3>2 DEF shape
  <2>9. D!ReadAsWritten'
    <3> HIDE DEF h
    <3> DEFINE own == D!Shape(dho.n, dho.hint)
    <3>1. D!AsWritten' <=> /\ found'.val.h.n = own.n /\ found'.val.h.nch = own.nch
                           /\ found'.val.h.data = dho.sec + 40
      BY <2>1 DEF D!AsWritten, D!H, D!SectionSize
    <3>2. found'.val.h.data = dho.sec + 40 <=> offset = dho.sec
      BY <1>1, <2>6
    <3>3. D!AsWritten' <=> dho.n % 256 # 0
      <4> HIDE DEF own
      <4>1. ASSUME D!AsWritten'
            PROVE  dho.n % 256 # 0
        BY <2>8, <3>1, <3>2, <4>1
      <4>2. ASSUME dho.n % 256 # 0
            PROVE  D!AsWritten'
        <5>1. shape = own
          BY <2>7, <2>8, <4>2 DEF own
        <5> QED
          BY <2>6, <2>7, <3>1, <3>2, <4>2, <5>1
      <4> QED
        BY <4>1, <4>2
    <3> QED
      BY <2>1, <3>3 DEF D!ReadAsWritten
  <2> QED
    BY <1>1, <2>1, <2>5, <2>9 DEF PlaceInv
<1> QED
  BY <1>7, <1>8

LEMMA PlaceStep ==
    ASSUME DhoInv, PlaceInv, [OpenNext]_allVars
    PROVE  PlaceInv'
<1>1. CASE WalkDho
  BY <1>1, PlaceOfStart, PlaceOfBlock, PlaceOfTerminator, PlaceOfCalibration, PlaceOfZero,
     PlaceOfPadding, PlaceOfSection DEF WalkDho, D!Next
<1>2. CASE UNCHANGED dhoVars
  BY <1>2 DEF dhoVars, PlaceInv, NoDho, Faithful, D!ReadAsWritten, D!Accepted, D!AsWritten,
     D!H, D!NoCals, D!Channels, D!NoEntry
<1> QED
  BY <1>1, <1>2 DEF OpenNext, Sniffing, WalkKeysight, allVars

LEMMA PlaceStart == OpenInit => PlaceInv
  BY DEF OpenInit, D!Init, PlaceInv

LEMMA DhoPlaces == OpenInit /\ [][OpenNext]_allVars => [](DhoInv /\ PlaceInv)
<1>1. ASSUME DhoInv /\ PlaceInv, [OpenNext]_allVars
      PROVE  PlaceInv'
  BY <1>1, PlaceStep
<1> QED
  BY <1>1, DhoWalks, PlaceStart, PTL

LEMMA WrittenImply == DhoInv /\ PlaceInv => ReadAsWritten
<1> SUFFICES ASSUME DhoInv, PlaceInv
             PROVE  D!ReadAsWritten
  BY DEF ReadAsWritten
<1>1. CASE at = "done"
  <2>1. dho # NoDho
    BY <1>1 DEF DhoInv
  <2> QED
    BY <1>1, <2>1 DEF PlaceInv
<1>2. CASE at # "done"
  BY <1>2 DEF DhoInv, D!ReadAsWritten, D!Accepted, D!NoResult
<1> QED
  BY <1>1, <1>2

-----------------------------------------------------------------------------
(* open looks at no byte outside the file: no detector, reader or walk     *)
(* does, and none of them panics (mmap.rs:170-172, 239-241, dho.rs:63-95). *)
THEOREM InFile == Opens => []StaysInFile
<1>1. SniffInv /\ DhoInv => StaysInFile
  BY AnswersImply, WalkImply DEF StaysInFile
<1> QED
  BY <1>1, Sniffs, DhoWalks, PTL DEF Opens

(* No file carries the marks of two families, whatever it contains.        *)
THEOREM OneMark == Opens => []OneSignature
<1>1. SniffInv => OneSignature
  BY MarksImply DEF SniffInv, OneSignature
<1> QED
  BY <1>1, Sniffs, PTL

(* The family whose mark a file carries loses it to a searched text only.  *)
THEOREM MarkDecides == Opens => []SignatureDecides
<1>1. SniffInv => SignatureDecides
  BY DecidesImply DEF SignatureDecides
<1> QED
  BY <1>1, Sniffs, PTL

(* An ISF curve is found exactly when no '#' precedes it.                  *)
THEOREM FirstHashIsCurve == Opens => []CurveFound
<1>1. SniffInv => CurveFound
  BY CurveImply DEF CurveFound
<1> QED
  BY <1>1, Sniffs, PTL

(* A DHO file is read as it was written exactly when the low byte of its   *)
(* point count is not zero.                                                *)
THEOREM LowByteDecides == Opens => []ReadAsWritten
<1>1. DhoInv /\ PlaceInv => ReadAsWritten
  BY WrittenImply
<1> QED
  BY <1>1, DhoPlaces, PTL DEF Opens

-----------------------------------------------------------------------------
(* Files with a body. The abstract specification, an instance, opens them  *)
(* as the parsers do.                                                      *)
LEMMA SameOpenDho == \A f : Abstract!OpenDho(f) = D!OpenDho(f)
  BY DEF Abstract!OpenDho, D!OpenDho, Abstract!Err, D!Err, Abstract!Ok, D!Ok,
         Abstract!Overrun, D!Overrun, Abstract!SlotCal, D!SlotCal,
         Abstract!Channels, D!Channels, Abstract!NoEntry, D!NoEntry

LEMMA SameOpenKeysight == \A f : Abstract!OpenKeysight(f) = OpenKeysight(f)
<1>1. \A T : Abstract!InOrder(T) = InOrder(T)
  BY DEF Abstract!InOrder, InOrder, Abstract!Cardinality, Cardinality
<1>2. \A buf : Abstract!Supported(buf) <=> Supported(buf)
  BY DEF Abstract!Supported, Supported
<1>3. \A wf : Abstract!HasSupported(wf) <=> HasSupported(wf)
  BY <1>2 DEF Abstract!HasSupported, HasSupported
<1>4. \A bufs, kind : Abstract!OfKind(bufs, kind) = OfKind(bufs, kind)
  BY <1>2 DEF Abstract!OfKind, OfKind
<1>5. \A bufs : Abstract!Chosen(bufs) = Chosen(bufs)
  BY <1>4 DEF Abstract!Chosen, Chosen
<1> SUFFICES ASSUME NEW f
             PROVE  Abstract!OpenKeysight(f) = OpenKeysight(f)
  OBVIOUS
<1> DEFINE ws == f.h.wfs
           some == {i \in 1 .. Len(ws) : HasSupported(ws[i])}
           kept == InOrder(some)
           Wave(i) == LET l == Chosen(ws[i].bufs)
                      IN  [pts |-> ws[i].pts, off |-> l.off, len |-> l.len,
                           kind |-> l.kind, bpp |-> l.bpp]
           waves == [m \in 1 .. Len(kept) |-> Wave(kept[m])]
           wrong == \/ ~f.h.intact
                    \/ \E i \in 1 .. Len(ws) :
                        \/ ws[i].pts <= 0
                        \/ ws[i].bufs = <<>>
                        \/ \E l \in 1 .. Len(ws[i].bufs) :
                              ws[i].bufs[l].off + ws[i].bufs[l].len > f.size
           answer == IF wrong THEN [tag |-> "err", why |-> "implausible record"]
                     ELSE [tag |-> "ok", val |-> [fam |-> f.fam, size |-> f.size,
                                                  h |-> [timed |-> f.h.timed, wfs |-> waves]]]
<1>6. OpenKeysight(f) = answer
  BY Zenon DEF OpenKeysight, Err, Ok
<1>7. {i \in 1 .. Len(ws) : Abstract!HasSupported(ws[i])} = some
  BY <1>3
<1>8. Abstract!InOrder({i \in 1 .. Len(ws) : Abstract!HasSupported(ws[i])}) = kept
  BY <1>1, <1>7
<1>9. \A i : (LET l == Abstract!Chosen(ws[i].bufs)
              IN  [pts |-> ws[i].pts, off |-> l.off, len |-> l.len,
                   kind |-> l.kind, bpp |-> l.bpp]) = Wave(i)
  BY <1>5
<1> HIDE DEF kept, Wave
<1>10. [m \in 1 .. Len(kept) |->
            LET l == Abstract!Chosen(ws[kept[m]].bufs)
            IN  [pts |-> ws[kept[m]].pts, off |-> l.off, len |-> l.len,
                 kind |-> l.kind, bpp |-> l.bpp]] = waves
  BY <1>9
<1>11. Abstract!OpenKeysight(f) = answer
  <2> HIDE DEF waves
  <2> QED
    BY <1>8, <1>10, Zenon DEF Abstract!OpenKeysight, Abstract!Err, Abstract!Ok
<1> QED
  BY <1>6, <1>11

LEMMA AbstractKeysight ==
    ASSUME NEW f, f.fam = "Keysight", "h" \in DOMAIN f
    PROVE  Abstract!Outcomes(f) = {Abstract!Outcome(OpenKeysight(f))}
<1>1. Abstract!OpenFile(f) = Abstract!OpenKeysight(f)
  BY DEF Abstract!OpenFile, Abstract!AsStored
<1> QED
  BY <1>1, SameOpenKeysight DEF Abstract!Outcomes

LEMMA AbstractDho ==
    ASSUME NEW f, f.fam = "Dho", "h" \in DOMAIN f
    PROVE  Abstract!Outcomes(f) = {Abstract!Outcome(D!OpenDho(f))}
<1>1. Abstract!OpenFile(f) = Abstract!OpenDho(f)
  BY DEF Abstract!OpenFile, Abstract!AsStored
<1> QED
  BY <1>1, SameOpenDho DEF Abstract!Outcomes

-----------------------------------------------------------------------------
(* A file with a body is claimed by its family: no detector before that    *)
(* family's does, and a DHO file too short for the detector is refused by  *)
(* all that follow it.                                                     *)
KeysightClaim ==
    raw # NoKeysight =>
        /\ dho = NoDho /\ MarkOfBody(file, Cookies, raw.size)
        /\ \/ claim = S!NoResult /\ asked \in {"rs", "isf", "dho", "lecroy", "keysight"}
           \/ claim = S!Ok("Keysight") /\ asked = "done"

DhoClaim ==
    dho # NoDho =>
        /\ raw = NoKeysight /\ MarkOfBody(file, {<<2, 0, 0, 0>>}, dho.size)
        /\ file.words[2] < 65536 /\ file.words[3] = 0
        /\ \/ claim = S!NoResult /\ asked \in {"rs", "isf", "dho"}
           \/ claim = S!Ok("Dho") /\ asked = "done"
           \/ dho.size < 24 /\ claim = S!NoResult /\ asked # "done"
           \/ dho.size < 24 /\ claim = S!Err /\ asked = "done"

(* Of a file without a body only the family is told, and it is one. *)
FamilyInv ==
    /\ S!MarkShape(file) /\ "h" \notin DOMAIN file
    /\ asked = "done" <=> claim # S!NoResult
    /\ \/ claim \in {S!NoResult, S!Err, S!Panic}
       \/ claim.tag = "ok" /\ claim.fam \in AllFamilies

ClaimInv == FamilyInv /\ KeysightClaim /\ DhoClaim

LEMMA ClaimStart == OpenInit => ClaimInv
<1> SUFFICES ASSUME OpenInit
             PROVE  ClaimInv
  OBVIOUS
<1>1. PICK c \in Captures : file = c.mark /\ raw = c.keysight /\ dho = c.dho
  BY DEF OpenInit
<1>2. asked = "rs" /\ claim = S!NoResult
  BY DEF OpenInit, S!Init
<1>3. S!MarkShape(file) /\ "h" \notin DOMAIN file
  BY <1>1, CapturesAssumption
<1>4. raw # NoKeysight => dho = NoDho /\ MarkOfBody(file, Cookies, raw.size)
  BY <1>1, CapturesAssumption
<1>5. dho # NoDho => /\ MarkOfBody(file, {<<2, 0, 0, 0>>}, dho.size)
                     /\ file.words[2] < 65536 /\ file.words[3] = 0
  BY <1>1, CapturesAssumption
<1> QED
  BY <1>2, <1>3, <1>4, <1>5 DEF ClaimInv, FamilyInv, KeysightClaim, DhoClaim

LEMMA FamilyStep ==
    ASSUME FamilyInv, Sniffing
    PROVE  FamilyInv'
<1>1. S!MarkShape(file) /\ "h" \notin DOMAIN file
  BY DEF FamilyInv
<1>2. ASSUME file' = file
      PROVE  S!MarkShape(file)' /\ ("h" \notin DOMAIN file)'
  BY <1>1, <1>2, SameFile
<1>3. ASSUME NEW fam \in AllFamilies, NEW ok, S!Settle(S!Accepted(fam, ok))
      PROVE  FamilyInv'
  <2>1. S!Accepted(fam, ok) = S!Err
        \/ S!Accepted(fam, ok) = [tag |-> "ok", fam |-> fam]
    BY DEF S!Accepted, S!Ok
  <2>2. file' = file /\ claim' = S!Accepted(fam, ok) /\ asked' = "done"
    BY <1>3 DEF S!Settle
  <2>3. claim' # S!NoResult /\ (claim' = S!Err \/ (claim'.tag = "ok" /\ claim'.fam = fam))
    BY <2>1, <2>2 DEF S!Err, S!NoResult
  <2> QED
    BY <1>2, <1>3, <2>2, <2>3 DEF FamilyInv
<1>4. ASSUME S!Settle(S!Err) \/ S!Settle(S!Panic)
      PROVE  FamilyInv'
  <2>1. file' = file /\ (claim' = S!Err \/ claim' = S!Panic) /\ asked' = "done"
    BY <1>4 DEF S!Settle
  <2>2. claim' # S!NoResult
    BY <2>1 DEF S!Err, S!Panic, S!NoResult
  <2> QED
    BY <1>2, <2>1, <2>2 DEF FamilyInv
<1>5. ASSUME NEW next, next # "done", asked # "done", S!Pass(next)
      PROVE  FamilyInv'
  <2>1. file' = file /\ claim' = claim /\ asked' = next
    BY <1>5 DEF S!Pass
  <2>2. claim = S!NoResult
    BY <1>5 DEF FamilyInv
  <2> QED
    BY <1>2, <1>5, <2>1, <2>2 DEF FamilyInv
<1> USE DEF AllFamilies, AsStored
<1>6. CASE S!DetectRs
  BY <1>3, <1>5, <1>6 DEF S!DetectRs
<1>7. CASE S!DetectIsf
  <2>1. CASE S!LooksLikeIsf
    <3>1. S!Settle(S!ParseIsf)
      BY <1>7, <2>1 DEF S!DetectIsf
    <3>2. S!ParseIsf = S!Err \/ (S!ParseIsf.tag = "ok" /\ S!ParseIsf.fam = "Isf")
      BY DEF S!ParseIsf
    <3>3. file' = file /\ claim' = S!ParseIsf /\ asked' = "done"
      BY <3>1 DEF S!Settle
    <3>4. claim' # S!NoResult
      BY <3>2, <3>3 DEF S!Err, S!NoResult
    <3> QED
      BY <1>2, <3>2, <3>3, <3>4 DEF FamilyInv
  <2>2. CASE ~S!LooksLikeIsf
    BY <1>5, <1>7, <2>2 DEF S!DetectIsf
  <2> QED
    BY <2>1, <2>2
<1>8. CASE S!DetectDho
  BY <1>3, <1>5, <1>8 DEF S!DetectDho
<1>9. CASE S!DetectLecroy
  BY <1>3, <1>5, <1>9 DEF S!DetectLecroy
<1>10. CASE S!DetectKeysight
  BY <1>3, <1>5, <1>10 DEF S!DetectKeysight
<1>11. CASE S!Peek
  BY <1>4, <1>5, <1>11 DEF S!Peek
<1>12. CASE S!DetectTek
  BY <1>3, <1>4, <1>5, <1>12 DEF S!DetectTek, S!ParseTek, S!Reads
<1>13. CASE S!DetectDs1000e
  BY <1>3, <1>5, <1>13 DEF S!DetectDs1000e, S!Reads
<1>14. CASE S!DetectDs2000
  BY <1>3, <1>4, <1>5, <1>14 DEF S!DetectDs2000, S!ParseDs2000, S!Reads
<1>15. CASE S!DetectSiglent
  BY <1>3, <1>5, <1>15 DEF S!DetectSiglent
<1>16. CASE S!ReadFileHeader
  BY <1>3, <1>4, <1>16 DEF S!ReadFileHeader, S!Reads
<1> QED
  BY <1>6, <1>7, <1>8, <1>9, <1>10, <1>11, <1>12, <1>13, <1>14, <1>15, <1>16
  DEF Sniffing, S!Next

LEMMA KeysightClaimStep ==
    ASSUME S!MarkShape(file), KeysightClaim, Sniffing
    PROVE  KeysightClaim'
<1> SUFFICES ASSUME raw # NoKeysight
             PROVE  KeysightClaim'
  BY DEF KeysightClaim, Sniffing, vars, NoKeysight
<1>1. /\ dho = NoDho /\ MarkOfBody(file, Cookies, raw.size)
      /\ raw' = raw /\ dho' = dho
  BY DEF KeysightClaim, Sniffing, vars, dhoVars
<1>2. CASE asked = "done"
  BY <1>2 DEF Sniffing, S!Next, S!DetectRs, S!DetectIsf, S!DetectDho, S!DetectLecroy,
              S!DetectKeysight, S!Peek, S!DetectTek, S!DetectDs1000e, S!DetectDs2000,
              S!DetectSiglent, S!ReadFileHeader
<1>3. CASE asked # "done"
  <2>1. claim = S!NoResult /\ asked \in {"rs", "isf", "dho", "lecroy", "keysight"}
    BY <1>3 DEF KeysightClaim
  <2>2. ASSUME NEW next \in {"isf", "dho", "lecroy", "keysight"}, S!Pass(next)
        PROVE  KeysightClaim'
    <3>1. file' = file /\ claim' = S!NoResult /\ asked' = next
      BY <2>1, <2>2 DEF S!Pass
    <3>2. NoDho' = NoDho /\ Cookies' = Cookies /\ NoKeysight' = NoKeysight
      BY DEF NoDho, Cookies, NoKeysight
    <3>3. MarkOfBody(file, Cookies, raw.size)'
      BY <1>1, <3>1, <3>2 DEF MarkOfBody, Cookies, S!LessOf, S!SearchLimit
    <3> QED
      BY <1>1, <2>2, <3>1, <3>2, <3>3 DEF KeysightClaim, S!NoResult
  <2>3. file.head[1] = 65 \/ file.head[1] = 82
    BY <1>1 DEF MarkOfBody, Cookies
  <2>4. CASE S!DetectRs
    <3>1. ~S!Starts(<<60, 63, 120, 109>>)
      <4> SUFFICES ASSUME S!Starts(<<60, 63, 120, 109>>)
                   PROVE  FALSE
        OBVIOUS
      <4> QED
        BY <2>3, StartsWith4
    <3>2. ~S!Starts(<<239, 187, 191, 60>>)
      <4> SUFFICES ASSUME S!Starts(<<239, 187, 191, 60>>)
                   PROVE  FALSE
        OBVIOUS
      <4> QED
        BY <2>3, StartsWith4
    <3>3. S!Pass("isf")
      BY <2>4, <3>1, <3>2 DEF S!DetectRs, S!LooksLikeRs, S!XmlDecl, S!BomDecl
    <3> QED
      BY <2>2, <3>3
  <2>5. CASE S!DetectIsf
    <3>1. ~S!LooksLikeIsf
      <4>1. file.keyword + 5 > S!LessOf(file.size, 512)
        BY <1>1 DEF MarkOfBody
      <4>2. file.keyword \in Nat /\ S!LessOf(file.size, 512) \in Nat
        BY DEF S!MarkShape, S!LessOf
      <4> QED
        BY <4>1, <4>2 DEF S!LooksLikeIsf
    <3>2. S!Pass("dho")
      BY <2>5, <3>1 DEF S!DetectIsf
    <3> QED
      BY <2>2, <3>2
  <2>6. CASE S!DetectDho
    <3>1. ~S!Starts(<<2, 0, 0, 0>>)
      <4> SUFFICES ASSUME S!Starts(<<2, 0, 0, 0>>)
                   PROVE  FALSE
        OBVIOUS
      <4> QED
        BY <2>3, StartsWith4
    <3>2. S!Pass("lecroy")
      BY <2>6, <3>1 DEF S!DetectDho, S!LooksLikeDho
    <3> QED
      BY <2>2, <3>2
  <2>7. CASE S!DetectLecroy
    <3>1. ~S!LooksLikeLecroy
      BY <1>1 DEF MarkOfBody, S!LooksLikeLecroy, S!MarkShape, S!SearchLimit
    <3>2. S!Pass("keysight")
      BY <2>7, <3>1 DEF S!DetectLecroy
    <3> QED
      BY <2>2, <3>2
  <2>8. CASE S!DetectKeysight
    <3>1. S!LooksLikeKeysight
      <4>1. file.head = <<65, 71, 49, 48>> \/ file.head = <<82, 71, 49, 48>>
        BY <1>1 DEF MarkOfBody, Cookies
      <4>2. \A t : S!IsPrefix(t, t)
        BY DEF S!IsPrefix
      <4> QED
        BY <4>1, <4>2 DEF S!LooksLikeKeysight, S!Starts
    <3>2. S!Settle(S!Ok("Keysight"))
      BY <1>1, <2>8, <3>1 DEF S!DetectKeysight, S!Accepted, MarkOfBody
    <3>3. file' = file /\ claim' = S!Ok("Keysight") /\ asked' = "done"
      BY <3>2 DEF S!Settle
    <3>4. NoDho' = NoDho /\ Cookies' = Cookies /\ NoKeysight' = NoKeysight
      BY DEF NoDho, Cookies, NoKeysight
    <3>5. MarkOfBody(file, Cookies, raw.size)'
      BY <1>1, <3>3, <3>4 DEF MarkOfBody, Cookies, S!LessOf, S!SearchLimit
    <3> QED
      BY <1>1, <3>3, <3>4, <3>5 DEF KeysightClaim, S!Ok
  <2> QED
    BY <2>1, <2>4, <2>5, <2>6, <2>7, <2>8
    DEF Sniffing, S!Next, S!Peek, S!DetectTek, S!DetectDs1000e, S!DetectDs2000,
        S!DetectSiglent, S!ReadFileHeader
<1> QED
  BY <1>2, <1>3

LEMMA DhoClaimStep ==
    ASSUME S!MarkShape(file), DhoClaim, D!RawShape(dho) \/ dho = NoDho, Sniffing
    PROVE  DhoClaim'
<1> SUFFICES ASSUME dho # NoDho
             PROVE  DhoClaim'
  BY DEF DhoClaim, Sniffing, dhoVars, NoDho
<1>1. /\ raw = NoKeysight /\ MarkOfBody(file, {<<2, 0, 0, 0>>}, dho.size)
      /\ file.words[2] < 65536 /\ file.words[3] = 0
      /\ raw' = raw /\ dho' = dho /\ dho.size \in Nat /\ file.size = dho.size
  BY DEF DhoClaim, Sniffing, vars, dhoVars, MarkOfBody, D!RawShape
<1> DEFINE Body == /\ raw = NoKeysight /\ MarkOfBody(file, {<<2, 0, 0, 0>>}, dho.size)
                   /\ file.words[2] < 65536 /\ file.words[3] = 0
<1>2. ASSUME file' = file
      PROVE  Body' /\ (dho # NoDho)'
  BY <1>1, <1>2 DEF MarkOfBody, S!LessOf, S!SearchLimit, NoKeysight, NoDho
<1> HIDE DEF Body
<1>3. file.head = <<2, 0, 0, 0>> /\ file.head[1] = 2 /\ Len(file.head) = 4
  BY <1>1 DEF MarkOfBody
<1>4. CASE asked = "done"
  BY <1>4 DEF Sniffing, S!Next, S!DetectRs, S!DetectIsf, S!DetectDho, S!DetectLecroy,
              S!DetectKeysight, S!Peek, S!DetectTek, S!DetectDs1000e, S!DetectDs2000,
              S!DetectSiglent, S!ReadFileHeader
<1>5. CASE asked # "done"
  <2>1. claim = S!NoResult /\ (asked \in {"rs", "isf", "dho"} \/ dho.size < 24)
    BY <1>5 DEF DhoClaim
  <2>2. ASSUME NEW next, next # "done", next \in {"isf", "dho"} \/ dho.size < 24, S!Pass(next)
        PROVE  DhoClaim'
    <3>1. file' = file /\ claim' = S!NoResult /\ asked' = next
      BY <2>1, <2>2 DEF S!Pass
    <3>2. Body'
      BY <1>2, <3>1
    <3> QED
      BY <1>1, <2>2, <3>1, <3>2 DEF DhoClaim, Body, S!NoResult
  <2>3. ASSUME dho.size < 24, S!Settle(S!Err)
        PROVE  DhoClaim'
    <3>1. file' = file /\ claim' = S!Err /\ asked' = "done"
      BY <2>3 DEF S!Settle
    <3>2. Body'
      BY <1>2, <3>1
    <3> QED
      BY <1>1, <2>3, <3>1, <3>2 DEF DhoClaim, Body, S!Err
  <2>4. ASSUME NEW w \in Nat, NEW x \in Nat, NEW y \in Nat, NEW z \in Nat, w # 2
        PROVE  ~S!Starts(<<w, x, y, z>>)
    <3> SUFFICES ASSUME S!Starts(<<w, x, y, z>>)
                 PROVE  FALSE
      OBVIOUS
    <3> QED
      BY <1>3, <2>4, StartsWith4
  <2>5. CASE S!DetectRs
    <3>1. S!Pass("isf")
      BY <2>4, <2>5 DEF S!DetectRs, S!LooksLikeRs, S!XmlDecl, S!BomDecl
    <3> QED
      BY <2>2, <3>1
  <2>6. CASE S!DetectIsf
    <3>1. ~S!LooksLikeIsf
      <4>1. file.keyword + 5 > S!LessOf(file.size, 512)
        BY <1>1 DEF MarkOfBody
      <4>2. file.keyword \in Nat /\ S!LessOf(file.size, 512) \in Nat
        BY DEF S!MarkShape, S!LessOf
      <4> QED
        BY <4>1, <4>2 DEF S!LooksLikeIsf
    <3>2. S!Pass("dho")
      BY <2>6, <3>1 DEF S!DetectIsf
    <3> QED
      BY <2>2, <3>2
  <2>7. CASE S!DetectDho
    <3>1. CASE dho.size < 24
      <4>1. S!Pass("lecroy")
        BY <1>1, <2>7, <3>1 DEF S!DetectDho, S!LooksLikeDho
      <4> QED
        BY <2>2, <3>1, <4>1
    <3>2. CASE ~(dho.size < 24)
      <4>1. S!Starts(<<2, 0, 0, 0>>)
        BY <1>3 DEF S!Starts, S!IsPrefix
      <4>2. S!LooksLikeDho
        BY <1>1, <3>2, <4>1 DEF S!LooksLikeDho
      <4>3. S!Settle(S!Ok("Dho"))
        BY <1>1, <2>7, <4>2 DEF S!DetectDho, S!Accepted, MarkOfBody
      <4>4. file' = file /\ claim' = S!Ok("Dho") /\ asked' = "done"
        BY <4>3 DEF S!Settle
      <4>5. Body'
        BY <1>2, <4>4
      <4> QED
        BY <1>1, <4>4, <4>5 DEF DhoClaim, Body, S!Ok
    <3> QED
      BY <3>1, <3>2
  <2>8. CASE dho.size < 24 /\ asked \notin {"rs", "isf", "dho"}
    <3> USE <2>8
    <3>1. CASE S!DetectLecroy
      <4>1. S!Pass("keysight")
        BY <1>1, <3>1 DEF S!DetectLecroy, S!LooksLikeLecroy, S!SearchLimit, S!DescMinLen, S!MarkShape
      <4> QED
        BY <2>2, <4>1
    <3>2. CASE S!DetectKeysight
      <4>1. S!Pass("peek")
        BY <2>4, <3>2 DEF S!DetectKeysight, S!LooksLikeKeysight
      <4> QED
        BY <2>2, <4>1
    <3>3. CASE S!Peek
      <4>1. S!Settle(S!Err) \/ S!Pass("tek")
        BY <1>3, <3>3 DEF S!Peek
      <4> QED
        BY <2>2, <2>3, <4>1
    <3>4. CASE S!DetectTek
      <4>1. ~S!Starts(<<15, 15>>)
        <5> SUFFICES ASSUME S!Starts(<<15, 15>>)
                     PROVE  FALSE
          OBVIOUS
        <5> QED
          BY <1>3, StartsWith2
      <4>2. ~S!Starts(<<240, 240>>)
        <5> SUFFICES ASSUME S!Starts(<<240, 240>>)
                     PROVE  FALSE
          OBVIOUS
        <5> QED
          BY <1>3, StartsWith2
      <4>3. S!Pass("ds1000e")
        BY <3>4, <4>1, <4>2 DEF S!DetectTek, S!LooksLikeTek
      <4> QED
        BY <2>2, <4>3
    <3>5. CASE S!DetectDs1000e
      <4>1. S!Pass("ds2000")
        BY <2>4, <3>5 DEF S!DetectDs1000e
      <4> QED
        BY <2>2, <4>1
    <3>6. CASE S!DetectDs2000
      <4>1. S!Pass("siglent")
        BY <2>4, <3>6 DEF S!DetectDs2000, S!LooksLikeDs2000
      <4> QED
        BY <2>2, <4>1
    <3>7. CASE S!DetectSiglent
      <4>1. S!Pass("file_header")
        BY <1>1, <3>7 DEF S!DetectSiglent, S!LooksLikeSiglent, S!SiglentHeader
      <4> QED
        BY <2>2, <4>1
    <3>8. CASE S!ReadFileHeader
      <4>1. S!Settle(S!Err)
        BY <1>1, <3>8 DEF S!ReadFileHeader, S!FileHeaderSize
      <4> QED
        BY <2>3, <4>1
    <3>9. ~S!DetectRs /\ ~S!DetectIsf /\ ~S!DetectDho
      BY DEF S!DetectRs, S!DetectIsf, S!DetectDho
    <3> QED
      BY <3>1, <3>2, <3>3, <3>4, <3>5, <3>6, <3>7, <3>8, <3>9 DEF Sniffing, S!Next
  <2>9. CASE asked \in {"rs", "isf", "dho"}
    BY <2>5, <2>6, <2>7, <2>9
    DEF Sniffing, S!Next, S!DetectLecroy, S!DetectKeysight, S!Peek, S!DetectTek,
        S!DetectDs1000e, S!DetectDs2000, S!DetectSiglent, S!ReadFileHeader
  <2> QED
    BY <2>1, <2>8, <2>9
<1> QED
  BY <1>4, <1>5

(* Everything the walks and the detectors keep, and what open answers.     *)
Known == IInv /\ WalkInv /\ DhoInv /\ PlaceInv /\ ClaimInv

LEMMA KnownStart == OpenInit => Known
<1> SUFFICES ASSUME OpenInit
             PROVE  Known
  OBVIOUS
<1>1. raw \in Raws
  BY CapturesAssumption DEF OpenInit
<1>2. Init
  BY <1>1 DEF OpenInit, Init
<1> QED
  BY <1>2, InitInv, WalkInit, DhoStart, PlaceStart, ClaimStart DEF Known

(* A step that asks no detector leaves the claim as it is. *)
LEMMA ClaimStays ==
    ASSUME ClaimInv, UNCHANGED <<sniffVars, raw, dho>>
    PROVE  ClaimInv'
<1>1. /\ file' = file /\ asked' = asked /\ claim' = claim
      /\ raw' = raw /\ dho' = dho
  BY DEF sniffVars
<1>2. S!MarkShape(file)' <=> S!MarkShape(file)
  BY <1>1, SameFile
<1>3. FamilyInv'
  BY <1>1, <1>2 DEF ClaimInv, FamilyInv, S!NoResult, S!Err, S!Panic, AllFamilies, AsStored
<1>4. KeysightClaim'
  BY <1>1 DEF ClaimInv, KeysightClaim, MarkOfBody, S!LessOf, S!SearchLimit, Cookies,
              NoKeysight, NoDho, S!NoResult, S!Ok
<1>5. DhoClaim'
  BY <1>1 DEF ClaimInv, DhoClaim, MarkOfBody, S!LessOf, S!SearchLimit,
              NoKeysight, NoDho, S!NoResult, S!Ok, S!Err
<1> QED
  BY <1>3, <1>4, <1>5 DEF ClaimInv

LEMMA KnownStep == Known /\ [OpenNext]_allVars => Known'
<1> SUFFICES ASSUME Known, [OpenNext]_allVars
             PROVE  Known'
  OBVIOUS
<1>1. IInv /\ WalkInv /\ DhoInv /\ PlaceInv /\ ClaimInv
  BY DEF Known
<1>2. [Next]_vars
  BY DEF OpenNext, Sniffing, WalkKeysight, WalkDho, allVars
<1>3. IInv' /\ WalkInv'
  BY <1>1, <1>2, StepInv, WalkStep
<1>4. PlaceInv'
  BY <1>1, PlaceStep
<1>5. DhoInv'
  BY <1>1, DhoKeeps
<1>6. ClaimInv'
  <2>1. CASE Sniffing
    <3>1. D!RawShape(dho) \/ dho = NoDho
      BY <1>1 DEF DhoInv
    <3> QED
      BY <1>1, <2>1, <3>1, FamilyStep, KeysightClaimStep, DhoClaimStep
      DEF ClaimInv, FamilyInv
  <2>2. CASE ~Sniffing
    <3>1. UNCHANGED <<sniffVars, raw, dho>>
      BY <2>2 DEF OpenNext, WalkKeysight, WalkDho, allVars, vars, dhoVars, Next, ReadHead,
         ReadRecord, ReadBuffer, EndRecord, Finish, Fail, D!Next, D!Start, D!ReadBlock,
         D!EndOfBlocks, D!Calibrate, D!SkipZero, D!EndOfPadding, D!ReadSection, D!Fail
    <3> QED
      BY <1>1, <3>1, ClaimStays
  <2> QED
    BY <2>1, <2>2
<1> QED
  BY <1>3, <1>4, <1>5, <1>6 DEF Known

TheFile   == IF raw # NoKeysight THEN Described(raw)
             ELSE IF dho # NoDho THEN whole ELSE file
TheAnswer == CASE Returned.tag = "none" -> [tag |-> "pending"]
               [] Returned.tag = "ok"   -> Returned
               [] OTHER                 -> [tag |-> "failed"]

(* Of the two, the file is the same all the time, ...                      *)
LEMMA FileStays == [OpenNext]_allVars => TheFile' = TheFile
<1> SUFFICES ASSUME [OpenNext]_allVars
             PROVE  TheFile' = TheFile
  OBVIOUS
<1>1. UNCHANGED <<file, raw, dho, whole>>
  <2>1. CASE Sniffing
    BY <2>1 DEF Sniffing, vars, dhoVars, S!Next, S!DetectRs, S!DetectIsf, S!DetectDho,
       S!DetectLecroy, S!DetectKeysight, S!Peek, S!DetectTek, S!DetectDs1000e,
       S!DetectDs2000, S!DetectSiglent, S!ReadFileHeader, S!Settle, S!Pass
  <2>2. CASE WalkKeysight
    BY <2>2 DEF WalkKeysight, sniffVars, dhoVars, Next, ReadHead, ReadRecord, ReadBuffer,
       EndRecord, Finish, Fail
  <2>3. CASE WalkDho
    BY <2>3 DEF WalkDho, sniffVars, vars, D!Next, D!Start, D!ReadBlock, D!EndOfBlocks,
       D!Calibrate, D!SkipZero, D!EndOfPadding, D!ReadSection, D!Fail
  <2>4. CASE UNCHANGED allVars
    BY <2>4 DEF allVars, sniffVars, vars, dhoVars
  <2> QED
    BY <2>1, <2>2, <2>3, <2>4 DEF OpenNext
<1> QED
  BY <1>1 DEF TheFile, NoKeysight, NoDho

(* ... and the answer once there is one, ...                               *)
LEMMA AnswerStays ==
    ASSUME Known, [OpenNext]_allVars, Returned.tag # "none"
    PROVE  Returned' = Returned
<1>1. /\ asked = "done" <=> claim # S!NoResult
      /\ pc = "done" <=> result # NoResult
      /\ at = "done" <=> found # D!NoResult
  BY DEF Known, ClaimInv, FamilyInv, IInv, CounterInv, DhoInv
<1>2. CASE Sniffing
  <2>1. asked # "done"
    BY <1>2 DEF Sniffing, S!Next, S!DetectRs, S!DetectIsf, S!DetectDho, S!DetectLecroy,
       S!DetectKeysight, S!Peek, S!DetectTek, S!DetectDs1000e, S!DetectDs2000,
       S!DetectSiglent, S!ReadFileHeader
  <2>2. claim = S!NoResult
    BY <1>1, <2>1
  <2>3. Returned.tag = "none"
    BY <2>2 DEF Returned, S!NoResult, S!Ok
  <2> QED
    BY <2>3
<1>3. CASE WalkKeysight
  <2>1. Returned = result
    BY <1>3 DEF WalkKeysight, Returned, S!Ok
  <2>2. pc = "done"
    BY <1>1, <2>1 DEF NoResult
  <2> QED
    BY <1>3, <2>2 DEF WalkKeysight, Next, ReadHead, ReadRecord, ReadBuffer, EndRecord, Finish
<1>4. CASE WalkDho
  <2>1. Returned = found
    BY <1>4 DEF WalkDho, Returned, S!Ok
  <2>2. at = "done"
    BY <1>1, <2>1 DEF D!NoResult
  <2> QED
    BY <1>4, <2>2 DEF WalkDho, D!Next, D!Start, D!ReadBlock, D!EndOfBlocks,
       D!Calibrate, D!SkipZero, D!EndOfPadding, D!ReadSection
<1>5. CASE UNCHANGED allVars
  BY <1>5 DEF allVars, sniffVars, vars, dhoVars, Returned, S!Ok, NoKeysight, NoDho, Ok
<1> QED
  BY <1>2, <1>3, <1>4, <1>5 DEF OpenNext

(* ... which is one that the file calls for.                               *)
LEMMA AnswerOfKeysight ==
    ASSUME Known, raw # NoKeysight, Returned.tag # "none"
    PROVE  TheAnswer \in Abstract!Outcomes(TheFile)
<1>1. claim = S!Ok("Keysight")
  <2>1. claim = S!NoResult \/ claim = S!Ok("Keysight")
    BY DEF Known, ClaimInv, KeysightClaim
  <2>2. claim # S!NoResult
    BY DEF Returned, S!NoResult, S!Ok
  <2> QED
    BY <2>1, <2>2
<1>2. Returned = result
  BY <1>1 DEF Returned, S!Ok
<1>3. pc = "done"
  BY <1>2 DEF Known, IInv, CounterInv, NoResult
<1>4. Returned = OpenKeysight(Described(raw))
  BY <1>2, <1>3 DEF Known, WalkInv
<1>5. raw \in Raws
  BY DEF Known, IInv, CounterInv
<1>6. TheFile = Described(raw) /\ TheFile.fam = "Keysight" /\ "h" \in DOMAIN TheFile
  BY DEF TheFile, Described
<1>7. Abstract!Outcomes(TheFile) = {Abstract!Outcome(Returned)}
  BY <1>4, <1>6, AbstractKeysight
<1>8. TheAnswer = Abstract!Outcome(Returned)
  BY DEF TheAnswer, Abstract!Outcome, Abstract!Failed
<1> QED
  BY <1>7, <1>8

LEMMA ShortDho ==
    ASSUME D!RawShape(dho), dho.size < 24
    PROVE  Whole(dho).tag # "ok"
<1>1. Len(dho.blocks) \in Nat /\ dho.size \in Nat
  BY DEF D!RawShape
<1>2. Ends(dho)[0] = 24
  BY EndsAre
<1>3. 0 \in 0 .. Len(dho.blocks)
  BY <1>1
<1>4. Ends(dho)[0] <= D!BlocksEnd(dho) /\ D!BlocksEnd(dho) \in Nat
  BY <1>3, EndsAscend, BlocksEndType
<1>5. dho.size < D!BlocksEnd(dho)
  BY <1>1, <1>2, <1>4
<1> QED
  BY <1>5, CutShort

LEMMA AnswerOfDho ==
    ASSUME Known, dho # NoDho, Returned.tag # "none"
    PROVE  TheAnswer \in Abstract!Outcomes(TheFile)
<1>1. /\ D!RawShape(dho) /\ raw = NoKeysight
      /\ whole = D!Described(dho)
      /\ at = "done" => Faithful(found, dho)
      /\ at = "done" <=> found # D!NoResult
  BY DEF Known, DhoInv, PlaceInv, ClaimInv, DhoClaim
<1>2. TheFile = D!Described(dho) /\ TheFile.fam = "Dho" /\ "h" \in DOMAIN TheFile
  BY <1>1 DEF TheFile, D!Described
<1>3. Abstract!Outcomes(TheFile) = {Abstract!Outcome(Whole(dho))}
  BY <1>2, AbstractDho DEF Whole
<1>4. claim = S!Ok("Dho") \/ (dho.size < 24 /\ claim = S!Err)
  <2>1. claim # S!NoResult
    BY DEF Returned, S!NoResult, S!Ok
  <2> QED
    BY <2>1 DEF Known, ClaimInv, DhoClaim
<1>5. CASE claim = S!Ok("Dho")
  <2>1. Returned = found
    BY <1>5 DEF Returned, S!Ok
  <2>2. at = "done"
    BY <1>1, <2>1 DEF D!NoResult
  <2>3. CASE Whole(dho).tag = "ok"
    BY <1>1, <1>3, <2>1, <2>2, <2>3 DEF Faithful, TheAnswer, Abstract!Outcome
  <2>4. CASE Whole(dho).tag # "ok"
    <3>1. Returned.tag = "err"
      BY <1>1, <2>1, <2>2, <2>4, ErrsAreErrs DEF Faithful
    <3> QED
      BY <1>3, <2>4, <3>1 DEF TheAnswer, Abstract!Outcome, Abstract!Failed
  <2> QED
    BY <2>3, <2>4
<1>6. CASE dho.size < 24 /\ claim = S!Err
  <2>1. Whole(dho).tag # "ok"
    BY <1>1, <1>6, ShortDho
  <2>2. Returned.tag = "err"
    BY <1>6 DEF Returned, S!Err, S!Ok
  <2> QED
    BY <1>3, <2>1, <2>2 DEF TheAnswer, Abstract!Outcome, Abstract!Failed
<1> QED
  BY <1>4, <1>5, <1>6

LEMMA AnswerOfMark ==
    ASSUME Known, raw = NoKeysight, dho = NoDho, Returned.tag # "none"
    PROVE  TheAnswer \in Abstract!Outcomes(TheFile)
<1>1. TheFile = file /\ "h" \notin DOMAIN file
  BY DEF TheFile, Known, ClaimInv, FamilyInv
<1>2. Returned = IF claim.tag = "ok" THEN Ok(claim.fam) ELSE claim
  BY DEF Returned
<1>3. Abstract!Outcomes(TheFile)
        = {Abstract!Failed} \cup {Abstract!Ok(fam) : fam \in Abstract!AllFamilies}
  BY <1>1 DEF Abstract!Outcomes
<1>4. CASE claim.tag = "ok"
  <2>1. Returned = Ok(claim.fam) /\ Returned.tag = "ok"
    BY <1>2, <1>4 DEF Ok
  <2>2. claim.fam \in AllFamilies
    BY <1>4 DEF Known, ClaimInv, FamilyInv, S!NoResult, S!Err, S!Panic
  <2>3. Ok(claim.fam) = Abstract!Ok(claim.fam) /\ AllFamilies = Abstract!AllFamilies
    BY DEF Ok, Abstract!Ok, AllFamilies, Abstract!AllFamilies, AsStored, Abstract!AsStored
  <2> QED
    BY <1>3, <2>1, <2>2, <2>3 DEF TheAnswer
<1>5. CASE claim.tag # "ok"
  <2>1. Returned.tag \notin {"none", "ok"}
    BY <1>2, <1>5
  <2> QED
    BY <1>3, <2>1 DEF TheAnswer, Abstract!Failed
<1> QED
  BY <1>4, <1>5

LEMMA AnswerRight ==
    Known /\ Returned.tag # "none" => TheAnswer \in Abstract!Outcomes(TheFile)
  BY AnswerOfKeysight, AnswerOfDho, AnswerOfMark

LEMMA AnswerStep ==
    ASSUME Known, Known', [OpenNext]_allVars
    PROVE  [Abstract!Answer]_(Abstract!openVars)
<1>1. TheFile' = TheFile
  BY FileStays
<1>2. CASE Returned.tag # "none"
  <2>1. TheAnswer' = TheAnswer
    BY <1>2, AnswerStays DEF TheAnswer
  <2> QED
    BY <1>1, <2>1 DEF Abstract!openVars, TheFile, TheAnswer
<1>3. CASE Returned.tag = "none" /\ (Returned.tag # "none")'
  <2>1. TheAnswer = Abstract!Pending
    BY <1>3 DEF TheAnswer, Abstract!Pending
  <2>2. (TheAnswer \in Abstract!Outcomes(TheFile))'
    BY <1>3, AnswerRight, PTL
  <2>3. TheAnswer' \in Abstract!Outcomes(TheFile)
    BY <1>1, <2>2
  <2> QED
    BY <1>1, <2>1, <2>3 DEF Abstract!Answer, Abstract!openVars, TheFile, TheAnswer
<1>4. CASE Returned.tag = "none" /\ (Returned.tag = "none")'
  <2>1. TheAnswer' = TheAnswer
    BY <1>4 DEF TheAnswer
  <2> QED
    BY <1>1, <2>1 DEF Abstract!openVars, TheFile, TheAnswer
<1> QED
  BY <1>2, <1>3, <1>4

(* Opening implements OpenSpec, its safety: there is at most one answer,   *)
(* and it is the one that the file as a whole calls for. A Keysight or DHO *)
(* file is taken for what it is and its blocks and records are walked to   *)
(* the handle or the error of their description, however long it is        *)
(* (mmap.rs:197-236, keysight.rs:129, dho.rs:275).                         *)
THEOREM OneAnswer == Opens => Abstract!Safety
<1>1. OpenInit => Abstract!Init
  BY DEF OpenInit, S!Init, Abstract!Init, Abstract!Pending, Returned, S!NoResult, S!Ok
<1>2. OpenInit /\ [][OpenNext]_allVars => []Known
  BY KnownStart, KnownStep, PTL
<1>3. Known /\ Known' /\ [OpenNext]_allVars => [Abstract!Answer]_(Abstract!openVars)
  BY AnswerStep
<1> QED
  BY <1>1, <1>2, <1>3, PTL DEF Opens, Abstract!Safety

-----------------------------------------------------------------------------
(* From the walks to the decodes: the handle that open returns of a file   *)
(* with a body, for every start and length.                                *)
TheHandle == IF (raw # NoKeysight \/ dho # NoDho) /\ Returned.tag = "ok" THEN Returned
             ELSE [tag |-> "closed"]

AnyUsize == (0 .. USize - 1) \cup {Absent}

Decoding == INSTANCE HandleProofs WITH
    Files <- {}, Starts <- AnyUsize, Lengths <- AnyUsize, handle <- TheHandle

LEMMA DecodingAssumed ==
    /\ Decoding!FilesAssumption /\ Decoding!ArgumentsAssumption
    /\ Decoding!WidthAssumption /\ Decoding!HeaderSizeAssumption
    /\ Decoding!ThresholdAssumption
<1>1. /\ Decoding!WidthAssumption /\ Decoding!HeaderSizeAssumption
      /\ Decoding!ThresholdAssumption
  BY WidthAssumption, HeaderSizeAssumption, ThresholdAssumption
     DEF Decoding!WidthAssumption, Decoding!HeaderSizeAssumption,
         Decoding!ThresholdAssumption
<1>2. Decoding!ArgumentsAssumption
  BY DEF Decoding!ArgumentsAssumption, AnyUsize, Decoding!Usizes, Decoding!Absent, Absent
<1>3. Decoding!FilesAssumption
  BY DEF Decoding!FilesAssumption
<1> QED
  BY <1>1, <1>2, <1>3

(* The windows of a Keysight walk that ends well are behind its headers    *)
(* and end in the file.                                                    *)
LEMMA WalkedKeysight ==
    ASSUME IInv, KeptInv, result.tag = "ok"
    PROVE  Decoding!Outcome(result)
<1> DEFINE w == [fam |-> "Keysight", size |-> raw.size,
                 h |-> [timed |-> raw.timed, wfs |-> wfs]]
<1>1. result = Ok(w)
  BY DEF KeptInv
<1>2. w.fam = "Keysight" /\ w.size = raw.size /\ w.h.wfs = wfs
  OBVIOUS
<1> HIDE DEF w
<1>3. /\ raw.size \in 0 .. USize - 1 /\ cursor \in 0 .. raw.size
      /\ wfs \in Seq(Waves) /\ AllBehind(wfs, cursor)
  <2>1. raw \in Raws
    BY DEF IInv, CounterInv
  <2>2. raw.size \in Nat /\ raw.size < USize
    BY <2>1, RawsAssumption DEF RawFiles
  <2> QED
    BY <2>2, WidthAssumption DEF IInv, CounterInv, WindowInv
<1>4. ASSUME NEW i \in 1 .. Len(wfs)
      PROVE  /\ wfs[i].pts \in Decoding!Usizes /\ wfs[i].off \in Nat /\ wfs[i].len \in Nat
             /\ wfs[i].off + wfs[i].len <= raw.size
             /\ <<wfs[i].kind, wfs[i].bpp>> \in {<<"float", 4>>, <<"logic", 1>>}
  <2> DEFINE o == wfs[i].off
             l == wfs[i].len
             z == raw.size
  <2>1. Behind(wfs[i], cursor) /\ Kept(wfs[i])
    BY <1>3 DEF AllBehind, KeptInv
  <2>2. wfs[i].pts \in Decoding!Usizes
    BY <2>1, WidthAssumption DEF Kept, Decoding!Usizes
  <2>3. <<wfs[i].kind, wfs[i].bpp>> \in {<<"float", 4>>, <<"logic", 1>>}
    BY <2>1 DEF Kept, Supported
  <2>4. /\ o \in Int /\ l \in Int /\ o >= FirstPayload /\ l >= 0 /\ o + l <= cursor
        /\ cursor \in Int /\ z \in Int /\ cursor <= z
    BY <1>3, <2>1 DEF Behind
  <2> HIDE DEF o, l, z
  <2>5. o \in Nat /\ l \in Nat /\ o + l <= z
    BY <2>4 DEF FirstPayload, HeadSize, RecordMin, BufferMin
  <2> QED
    BY <2>2, <2>3, <2>5 DEF o, l, z
<1>5. Len(wfs) \in Nat
  BY <1>3
<1>6. Decoding!HeldKeysight(w)
  BY <1>2, <1>4, <1>5 DEF Decoding!HeldKeysight
<1>7. w.size \in Decoding!Usizes
  BY <1>2, <1>3 DEF Decoding!Usizes
<1>8. Decoding!Held(w)
  BY <1>2, <1>6, <1>7 DEF Decoding!Held, Decoding!AllFamilies, Decoding!AsStored
<1> QED
  BY <1>1, <1>8 DEF Decoding!Outcome, Ok

(* A number of the section header is a natural number.                     *)
LEMMA BytesAreNats ==
    ASSUME NEW r, D!RawShape(r), NEW p \in Int
    PROVE  D!ByteAt(r, p) \in Nat
<1> DEFINE q == p - r.sec
           Power(i) == <<1, 256, 65536, 16777216>>[i + 1]
<1>1. r.sec \in Nat /\ r.n \in Nat /\ r.hint \in Nat /\ r.rest \in Nat /\ r.fill \in Nat
  <2>1. D!Huge \in Nat
    BY SMT DEF D!Huge
  <2>2. /\ r.sec \in Nat /\ r.n \in 0 .. D!Huge /\ r.hint \in 0 .. D!Huge
        /\ r.rest \in 0 .. 255 /\ r.fill \in 0 .. 255
    BY DEF D!RawShape
  <2> QED
    BY <2>1, <2>2
<1>2. q \in Int
  BY <1>1
<1>3. ASSUME NEW n \in Nat, NEW i \in Nat
      PROVE  D!Byte(n, i) \in Nat
  <2>1. CASE i > 3
    BY <2>1 DEF D!Byte
  <2>2. CASE i \in 0 .. 3
    <3>1. Power(i) \in Nat \ {0}
      BY <2>2
    <3>2. D!Byte(n, i) = (n \div Power(i)) % 256
      BY <2>2 DEF D!Byte
    <3> HIDE DEF Power
    <3>3. (n \div Power(i)) % 256 \in Nat
      BY <3>1
    <3> QED
      BY <3>2, <3>3
  <2> QED
    BY <2>1, <2>2
<1>4. \/ D!ByteAt(r, p) = 0
      \/ q \in 0 .. 7 /\ D!ByteAt(r, p) = D!Byte(r.n, q)
      \/ q \in 24 .. 27 /\ D!ByteAt(r, p) = D!Byte(r.hint, q - 24)
      \/ D!ByteAt(r, p) = r.fill
      \/ D!ByteAt(r, p) = r.rest
  BY DEF D!ByteAt
<1> HIDE DEF q
<1>5. CASE q \in 0 .. 7 /\ D!ByteAt(r, p) = D!Byte(r.n, q)
  <2>1. q \in Nat
    BY <1>5
  <2> QED
    BY <1>1, <1>3, <1>5, <2>1
<1>6. CASE q \in 24 .. 27 /\ D!ByteAt(r, p) = D!Byte(r.hint, q - 24)
  <2>1. q - 24 \in Nat
    BY <1>6
  <2> QED
    BY <1>1, <1>3, <1>6, <2>1
<1> QED
  BY <1>1, <1>4, <1>5, <1>6

LEMMA NumbersAreNats ==
    ASSUME NEW r, D!RawShape(r), NEW p \in Nat, NEW w
    PROVE  D!Number(r, p, w) \in Nat
<1> DEFINE c(i) == D!ByteAt(r, p + i)
<1>1. c(1) \in Nat /\ c(2) \in Nat /\ c(3) \in Nat /\ D!ByteAt(r, p) \in Nat
  BY BytesAreNats
<1>2. \/ D!Number(r, p, w) = D!Huge
      \/ D!Number(r, p, w) = D!ByteAt(r, p) + 256 * c(1) + 65536 * c(2) + 16777216 * c(3)
  BY DEF D!Number
<1> HIDE DEF c
<1> QED
  BY <1>1, <1>2 DEF D!Huge

LEMMA SameDhoDecoding == \A f : Decoding!OpenDho(f) = D!OpenDho(f)
  BY DEF Decoding!OpenDho, D!OpenDho, Decoding!Err, D!Err, Decoding!Ok, D!Ok,
         Decoding!Overrun, D!Overrun, Decoding!SlotCal, D!SlotCal,
         Decoding!Channels, D!Channels, Decoding!NoEntry, D!NoEntry

(* The handle of a DHO walk is that of a file whose stored fields are the  *)
(* calibrations and the section header met on the way.                     *)
LEMMA WalkedDho ==
    ASSUME DhoInv, PlaceInv, dho # NoDho, D!ReadSection, ~D!Fail
    PROVE  Decoding!Outcome(found')
<1> DEFINE total == D!Number(dho, offset, 8)
           shape == D!Shape(total, D!HintField(dho, offset))
           data == offset + 40
           f == [fam |-> "Dho", size |-> dho.size,
                 h |-> [blocks |-> cals, n |-> shape.n, nch |-> shape.nch, data |-> data]]
<1>1. /\ D!RawShape(dho) /\ dho.size \in Nat /\ dho.size < USize /\ offset \in Nat
      /\ cals \in [D!Channels -> 0 .. Len(blocks) \cup {D!NoEntry}] /\ cals # D!NoCals
      /\ Len(blocks) \in Nat /\ offset + 40 < dho.size
  BY DEF DhoInv, PlaceInv, D!ReadSection, D!RawShape
<1>2. /\ total \in 1 .. D!MaxPoints /\ shape.n # 0 /\ shape.nch \in 1 .. 4
      /\ ~(shape.n > (dho.size - data) \div (2 * shape.nch))
      /\ found' = D!Ok([fam |-> "Dho", size |-> dho.size,
                        h |-> [n |-> shape.n, nch |-> shape.nch, data |-> data,
                               cals |-> [c \in D!Channels |->
                                            D!SlotCal(cals, shape.nch, c)]]])
  BY Zenon DEF D!ReadSection, D!SectionSize
<1>3. shape.n \in Nat
  <2>1. total \in Nat
    BY <1>1, NumbersAreNats
  <2>2. D!HintField(dho, offset) \in Nat
    BY <1>1, NumbersAreNats DEF D!HintField
  <2> HIDE DEF total
  <2> QED
    BY <2>1, <2>2 DEF D!Shape
<1>4. shape.n < USize /\ shape.nch < USize /\ data \in Nat /\ data < USize
  <2> DEFINE d == dho.size - data
             n == shape.n
             m == shape.nch
  <2>1. data \in Nat /\ data < USize /\ d \in Nat /\ d < USize
    BY <1>1, WidthAssumption
  <2>2. n \in Nat /\ n # 0 /\ m \in 1 .. 4 /\ ~(n > d \div (2 * m))
    BY <1>2, <1>3, Zenon
  <2> HIDE DEF d, n, m
  <2>3. d \div (2 * m) \in Int
    BY <2>1, <2>2
  <2>4. /\ n \in Nat /\ n # 0 /\ d \in Nat /\ d < USize /\ m \in 1 .. 4
        /\ n <= d \div (2 * m)
    BY <2>1, <2>2, <2>3
  <2>5. n <= d /\ m <= d
    <3>1. CASE m = 1
      BY <2>4, <3>1
    <3>2. CASE m = 2
      BY <2>4, <3>2
    <3>3. CASE m = 3
      BY <2>4, <3>3
    <3>4. CASE m = 4
      BY <2>4, <3>4
    <3> QED
      BY <2>4, <3>1, <3>2, <3>3, <3>4
  <2>6. n < USize /\ m < USize
    BY <2>4, <2>5, WidthAssumption
  <2> QED
    BY <2>1, <2>6 DEF n, m
<1>5. /\ f.fam = "Dho" /\ f.size = dho.size /\ f.h.blocks = cals
      /\ f.h.n = shape.n /\ f.h.nch = shape.nch /\ f.h.data = data
  OBVIOUS
<1> HIDE DEF total, shape, data
<1>6. found' = D!OpenDho(f)
  <2>1. ~ \A c \in D!Channels : cals[c] = D!NoEntry
    BY <1>1 DEF D!NoCals
  <2> HIDE DEF f
  <2> QED
    BY <1>2, <1>5, <2>1, Zenon DEF D!OpenDho
<1> HIDE DEF f
<1>7. Decoding!FileShape(f)
  <2>1. /\ f.size \in Decoding!Usizes /\ f.h.n \in Decoding!Usizes
        /\ f.h.nch \in Decoding!Usizes /\ f.h.data \in Decoding!Usizes
    <3>1. shape.nch \in Nat /\ dho.size \in Nat /\ USize \in Nat
      BY <1>1, <1>2, WidthAssumption
    <3> QED
      BY <1>1, <1>3, <1>4, <1>5, <3>1 DEF Decoding!Usizes
  <2>2. f.h.blocks \in [Decoding!Channels -> Nat \cup {Decoding!NoEntry}]
    BY <1>1, <1>5 DEF Decoding!Channels, D!Channels, Decoding!NoEntry, D!NoEntry
  <2> QED
    BY <1>5, <2>1, <2>2 DEF Decoding!FileShape, Decoding!AllFamilies, Decoding!AsStored
<1>8. Decoding!Outcome(Decoding!OpenDho(f))
  BY <1>5, <1>7, DecodingAssumed, Decoding!OpenedDho
<1> QED
  BY <1>6, <1>8, SameDhoDecoding

(* What the walks hand over to the decodes. *)
HandedInv == KeptInv /\ (found.tag = "ok" => Decoding!Outcome(found))

LEMMA HandedStart == OpenInit => HandedInv
<1> SUFFICES ASSUME OpenInit
             PROVE  HandedInv
  OBVIOUS
<1>1. raw \in Raws
  BY CapturesAssumption DEF OpenInit
<1>2. KeptInv
  BY <1>1, KeptInit DEF OpenInit, Init
<1>3. found.tag # "ok"
  BY DEF OpenInit, D!Init, D!NoResult
<1> QED
  BY <1>2, <1>3 DEF HandedInv

LEMMA HandedStep ==
    ASSUME Known, HandedInv, [OpenNext]_allVars
    PROVE  HandedInv'
<1>1. KeptInv'
  <2>1. [Next]_vars
    BY DEF OpenNext, Sniffing, WalkKeysight, WalkDho, allVars
  <2> QED
    BY <2>1, KeptStep DEF Known, HandedInv
<1>2. found'.tag = "ok" => Decoding!Outcome(found')
  <2>1. CASE WalkDho /\ D!ReadSection /\ ~D!Fail
    BY <2>1, WalkedDho DEF WalkDho, Known
  <2>2. CASE WalkDho /\ D!Fail
    <3>1. found'.tag = "err"
      BY <2>2 DEF D!Fail, D!Err
    <3> QED
      BY <3>1
  <2>3. CASE ~(WalkDho /\ D!ReadSection) /\ ~(WalkDho /\ D!Fail)
    <3>1. found' = found
      BY <2>3 DEF OpenNext, Sniffing, WalkKeysight, WalkDho, allVars, dhoVars, D!Next,
         D!Start, D!ReadBlock, D!EndOfBlocks, D!Calibrate, D!SkipZero, D!EndOfPadding
    <3> QED
      BY <3>1 DEF HandedInv
  <2> QED
    BY <2>1, <2>2, <2>3
<1> QED
  BY <1>1, <1>2 DEF HandedInv

LEMMA HandedImply == Known /\ HandedInv => Decoding!HandleInv
<1> SUFFICES ASSUME Known, HandedInv
             PROVE  Decoding!HandleInv
  OBVIOUS
<1>1. CASE TheHandle = [tag |-> "closed"]
  BY <1>1 DEF Decoding!HandleInv, Decoding!Closed
<1>2. CASE TheHandle # [tag |-> "closed"]
  <2>1. (raw # NoKeysight \/ dho # NoDho) /\ Returned.tag = "ok" /\ TheHandle = Returned
    BY <1>2 DEF TheHandle
  <2>2. CASE raw # NoKeysight
    <3>1. claim = S!NoResult \/ claim = S!Ok("Keysight")
      BY <2>2 DEF Known, ClaimInv, KeysightClaim
    <3>2. claim # S!NoResult
      BY <2>1 DEF Returned, S!NoResult, S!Ok
    <3>3. claim = S!Ok("Keysight")
      BY <3>1, <3>2
    <3>4. Returned = result
      BY <2>2, <3>3 DEF Returned, S!Ok
    <3>5. Decoding!Outcome(result)
      BY <2>1, <3>4, WalkedKeysight DEF Known, HandedInv
    <3> QED
      BY <2>1, <3>4, <3>5 DEF Decoding!HandleInv
  <2>3. CASE raw = NoKeysight /\ dho # NoDho
    <3>1. claim \in {S!NoResult, S!Ok("Dho"), S!Err}
      BY <2>3 DEF Known, ClaimInv, DhoClaim
    <3>2. claim \notin {S!NoResult, S!Err}
      BY <2>1, <2>3 DEF Returned, S!NoResult, S!Err, S!Ok
    <3>3. Returned = found
      BY <2>3, <3>1, <3>2 DEF Returned, S!Ok
    <3> QED
      BY <2>1, <3>3 DEF HandedInv, Decoding!HandleInv
  <2> QED
    BY <2>1, <2>2, <2>3
<1> QED
  BY <1>1, <1>2

(* Whatever records, sizes and blocks a Keysight or a DHO file has, one    *)
(* that open accepts is then read as every other: each answer is one of    *)
(* the file, a slice is the window of the whole, nothing panics, and the   *)
(* answers of the operations agree. What the walk checks is all that the   *)
(* decodes rely on (keysight.rs:129-275, dho.rs:275-348, parser.rs:178-229,*)
(* 274-324).                                                               *)
THEOREM WalkedHandles ==
    Opens => [](/\ Decoding!TypeOK /\ Decoding!WindowsInFile /\ Decoding!SliceIsWindow
                /\ Decoding!PanicsOnlyOn /\ Decoding!OpenChecksSuffice
                /\ Decoding!AnswersAgree /\ Decoding!RowTimes
                /\ Decoding!ColumnsAreChannels /\ Decoding!InfoPredictsRows
                /\ Decoding!EveryByteOnce)
<1>1. OpenInit => Known /\ HandedInv
  BY KnownStart, HandedStart
<1>2. Known /\ HandedInv /\ [OpenNext]_allVars => (Known /\ HandedInv)'
  BY KnownStep, HandedStep
<1>3. Decoding!HandleInv
        => /\ Decoding!TypeOK /\ Decoding!WindowsInFile /\ Decoding!SliceIsWindow
           /\ Decoding!PanicsOnlyOn /\ Decoding!OpenChecksSuffice
           /\ Decoding!AnswersAgree /\ Decoding!RowTimes
           /\ Decoding!ColumnsAreChannels /\ Decoding!InfoPredictsRows
           /\ Decoding!EveryByteOnce
  BY DecodingAssumed, Decoding!TypesHold, Decoding!WindowsHold, Decoding!SlicesHold,
     Decoding!PanicsHold, Decoding!ChecksHold, Decoding!AgreementHolds,
     Decoding!RowTimesHold, Decoding!ColumnsHold, Decoding!InfoHolds, Decoding!BytesHold
<1> QED
  BY <1>1, <1>2, <1>3, HandedImply, PTL DEF Opens
=============================================================================
