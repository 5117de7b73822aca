------------------------------ MODULE MCWfmOpen -----------------------------
(***************************************************************************)
(* Captures of three kinds.                                                *)
(*   Marks alone: files at the edge of every detector, each mark whole and *)
(* spoilt, each length that a detector or a reader checks, one below and   *)
(* at it, and the searched texts just inside and outside their windows.    *)
(*   Keysight: every way a header size, a count or a payload size can be   *)
(* wrong, at the first and at a later record, on files cut short, exact    *)
(* and longer than what they declare.                                      *)
(*   DHO: the block lists of both families and of the legacy form, whole,  *)
(* cut and with a corrupt block, and section headers whose counts have low *)
(* bytes zero or not, with the payload short, exact and long.              *)
(***************************************************************************)
EXTENDS WfmOpen

Heads == {<<60, 63, 120, 109>>, <<239, 187, 191, 60>>, <<2, 0, 0, 0>>, <<3, 0, 0, 0>>,
          <<65, 71, 49, 48>>, <<82, 71, 49, 48>>, <<65, 71, 49, 49>>, <<15, 15, 0, 0>>,
          <<240, 240, 0, 0>>, <<165, 165, 0, 0>>, <<165, 165, 56, 0>>, <<0, 0, 0, 0>>,
          <<1, 0, 0, 0>>, <<1, 255, 255, 255>>}
WordLists == {<<0, 0, 0>>, <<1, 0, 0>>, <<0, 1, 1>>, <<2, 1, 0>>, <<0, 65536, 0>>,
              <<0, S!Text, S!Text>>, <<S!Text, S!Text, S!Text>>}

Base == [size |-> 5000, head |-> <<1, 255, 255, 255>>, words |-> <<0, S!Text, S!Text>>,
         utf8 |-> FALSE, wide |-> S!Nowhere, ers |-> S!Nowhere, keyword |-> S!Nowhere,
         hashes |-> {}, digit |-> <<>>, nrPt |-> 60, pts |-> 10, curve |-> S!Nowhere,
         wavedesc |-> S!Nowhere, version |-> "v1", model |-> "DS1000Z",
         plausible |-> TRUE, parses |-> TRUE]

Cut(f, size) == [f EXCEPT !.size = size, !.head = SubSeq(@, 1, S!LessOf(size, Len(@)))]

Marked ==
    {[Base EXCEPT !.head = head, !.words = words, !.keyword = keyword,
                  !.wavedesc = wavedesc, !.plausible = plausible, !.parses = parses,
                  !.hashes = {3100}, !.digit = [p \in {3100} |-> 53]] :
        head \in Heads, words \in WordLists, keyword \in {S!Nowhere, 507, 508, 3000},
        wavedesc \in {S!Nowhere, 11, 64, 65}, plausible \in BOOLEAN, parses \in BOOLEAN}

Formats == {<<model, "v1">> : model \in {"DS1000Z", "DS2000", "DS4000", "other"}}
           \cup {<<"DS1000Z", version>> : version \in {"v2", "v3", "other"}}
Short ==
    {Cut([Base EXCEPT !.head = head, !.words = <<0, 1, 0>>, !.model = fmt[1],
                      !.version = fmt[2], !.wavedesc = wavedesc], size) :
        head \in Heads, fmt \in Formats, wavedesc \in {S!Nowhere, 11},
        size \in {4, 19, 23, 24, 43, 51, 82, 83, 255, 256, 263, 264, 271, 272, 356, 357,
                  811, 812, 814, 829, 830, 2047, 2048}}
    \cup {Cut([Base EXCEPT !.keyword = 0, !.wavedesc = wavedesc], size) :
            wavedesc \in {S!Nowhere, 0}, size \in 0 .. 6}

Xml ==
    {[Base EXCEPT !.head = head, !.size = size, !.utf8 = utf8, !.wide = wide, !.ers = ers,
                  !.parses = parses, !.words = <<S!Text, S!Text, S!Text>>, !.keyword = keyword] :
        head \in {<<60, 63, 120, 109>>, <<239, 187, 191, 60>>, <<60, 65, 66, 67>>},
        size \in {300, 4096, 5000}, utf8 \in BOOLEAN, parses \in BOOLEAN,
        wide \in {S!Nowhere, 298, 4094, 4095}, ers \in {S!Nowhere, 100, 4092, 4093},
        keyword \in {S!Nowhere, 200}}

\* a label with or without '#', the curve, and '#' among the samples
Isf ==
    {[Base EXCEPT !.head = <<58, 87, 70, 77>>, !.words = <<S!Text, S!Text, S!Text>>,
                  !.keyword = keyword, !.hashes = hashes, !.curve = 120, !.size = size,
                  !.digit = [p \in hashes |-> IF p = 120 THEN 53 ELSE digit]] :
        keyword \in {0, 115, 507, 508}, digit \in {35, 48, 57, 255},
        hashes \in {{}, {120}, {0, 120}, {40, 120}, {0}, {40}, {120, 130}, {40, 120, 130}},
        size \in {121, 122, 131, 600}}

-----------------------------------------------------------------------------
Buf(hsize, kind, bpp, size) == [hsize |-> hsize, kind |-> kind, bpp |-> bpp, size |-> size]
Rec(hsize, nbufs, pts, bufs) == [hsize |-> hsize, nbufs |-> nbufs, pts |-> pts, bufs |-> bufs]
Record140(bufs) == Rec(140, Len(bufs), 2, bufs)

Float == Buf(12, "float", 4, 8)
Logic == Buf(16, "logic", 1, 3)
Time  == Buf(12, "other", 4, 8)

\* one buffer of each kind, and each of its fields at its limit
Bufs == {Float, Logic, Time, Buf(12, "float", 8, 8), Buf(11, "logic", 1, 2),
         Buf(12, "logic", 1, 0), Buf(12, "float", 4, -1), Buf(12, "logic", 1, -60),
         Buf(12, "float", 4, -180), Buf(-12, "float", 4, 4)}
BufLists == UNION {[1 .. m -> Bufs] : m \in 1 .. 2}
            \cup [1 .. 3 -> {Float, Logic, Time}]
            \cup {[j \in 1 .. 16 |-> Buf(12, "logic", 1, 1)]}

Recs == {Record140(bufs) : bufs \in BufLists}
FewRecs == {Record140(<<Float>>), Record140(<<Logic, Float>>), Record140(<<Time>>),
            Record140(<<Float, Buf(12, "logic", 1, -60)>>),
            Rec(152, 1, 2, <<Time>>), Rec(139, 1, 2, <<Float>>), Rec(-4, 1, 2, <<Float>>),
            Rec(140, 1, 0, <<Float>>), Rec(140, 0, 2, <<>>), Rec(140, 17, 2, <<>>)}

RecLists == {<<a>> : a \in Recs} \cup UNION {[1 .. m -> FewRecs] : m \in 0 .. 2}
            \cup {<<Record140(<<Float>>), a, Record140(<<Logic>>)>> : a \in FewRecs}

Behind(recs) == RecAt(recs, Len(recs) + 1)

KeysightRaws ==
    {[size |-> size, n |-> Len(recs), recs |-> recs, timed |-> TRUE] :
        recs \in {<<>>} \cup {<<a>> : a \in FewRecs}, size \in {11, 14, 163, 600}}
    \cup UNION {{[size |-> size, n |-> Len(recs), recs |-> recs, timed |-> TRUE] :
                    size \in {s \in Behind(recs) - 1 .. Behind(recs) + 1 : s > 3}} :
                 recs \in RecLists}
    \cup {[size |-> 200, n |-> n, recs |-> <<>>, timed |-> t] :
            n \in {-1, 0, 65}, t \in BOOLEAN}

-----------------------------------------------------------------------------
Blk(id, type, comp, decomp, len, inflated) ==
    [id |-> id, type |-> type, comp |-> comp, decomp |-> decomp, len |-> len,
     inflated |-> inflated]
Stored(id, type, len) == Blk(id, type, len, len, len, D!Corrupt)
Zipped(id, type, len) == Blk(id, type, 20, len, 20, len)
End == Blk(0, 0, 0, 0, 0, D!Corrupt)

\* each block alone and in pairs: long enough, too short, of no slot, corrupt
Few == {Stored(1, 9, 46), Zipped(2, 9, 60), Stored(1, 9, 45), Zipped(1, 5, 42),
        Stored(3, 5, 41), Stored(5, 5, 50), Zipped(0, 6, 40), Blk(4, 9, 50, 60, 50, D!Corrupt),
        Blk(1, 9, 70, 80, 30, D!Corrupt), Blk(2, 5, 0, 46, 10, D!Corrupt), Blk(7, 6, 9, 9, 0, 50)}
Lists == {<<>>} \cup UNION {[1 .. m -> Few] : m \in 1 .. 2}
         \cup {<<Zipped(c, 9, 46), Zipped(d, 9, 46), Zipped(e, 9, 46)>> :
                    c, d \in {1, 2, 4}, e \in {3, 4}}
Plain == <<Zipped(1, 9, 46), Zipped(2, 9, 46)>>

Raw(bs, pad, n, hint, rest, fill, size) ==
    LET r == [blocks |-> Append(bs, End), n |-> n, hint |-> hint, rest |-> rest,
              fill |-> fill, size |-> size, sec |-> 0]
    IN  [r EXCEPT !.sec = D!BlocksEnd(r) + pad]
Sized(bs, pad, n, hint, rest, fill, payload) ==
    LET r == Raw(bs, pad, n, hint, rest, fill, 0)
    IN  [r EXCEPT !.size = r.sec + D!SectionSize + payload]

\* all block lists on one section, the file cut at any of a few places
BlockRaws ==
    {Sized(bs, 2, 4, 2, 1, 7, 8) : bs \in Lists}
    \cup {Raw(bs, 2, 4, 2, 1, 7, size) : bs \in Lists, size \in {20, 23, 24, 47, 60, 95}}

\* all sections on one block list
Counts == {1, 3, 6, 255, 256, 512, 768, 1024, 65536, 131072, 2000000001}
Hints  == {0, 1, 2, 4, 5, 256, 512, 65536}
SectionRaws ==
    {Sized(Plain, pad, n, hint, rest, 7, payload) :
        pad \in {0, 2}, n \in Counts, hint \in Hints, rest \in {0, 1},
        payload \in {0, 8, 11, 12, 1024}}
    \cup {Sized(Plain, 1, 0, hint, rest, fill, 80) :
            hint \in Hints, rest \in {0, 1}, fill \in {0, 7}}

DhoRaws == BlockRaws \cup SectionRaws

-----------------------------------------------------------------------------
MarkOf(head, words, size) == Cut([Base EXCEPT !.head = head, !.words = words], size)

Unwalked == {[mark |-> m, keysight |-> NoKeysight, dho |-> NoDho] :
                m \in Marked \cup Short \cup Xml
                      \cup {f \in Isf : \A p \in f.hashes : p < f.size}}
KeysightCaptures ==
    {[mark |-> MarkOf(<<65, 71, 49, 48>>, <<S!Text, S!Text, S!Text>>, r.size),
      keysight |-> r, dho |-> NoDho] : r \in KeysightRaws}
DhoCaptures ==
    {[mark |-> MarkOf(<<2, 0, 0, 0>>, <<1, 5, 0>>, r.size),
      keysight |-> NoKeysight, dho |-> r] : r \in DhoRaws}

MCCaptures == Unwalked \cup KeysightCaptures \cup DhoCaptures
MCRaws     == KeysightRaws \cup {NoKeysight}
=============================================================================
