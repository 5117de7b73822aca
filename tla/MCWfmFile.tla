------------------------------ MODULE MCWfmFile ------------------------------
(***************************************************************************)
(* Small corpora of files for WfmFile: per family, the header values that  *)
(* reach every branch of its parser, on files a little too short, exact    *)
(* and longer than the payload.                                            *)
(***************************************************************************)
EXTENDS WfmFile

AllOn  == [c \in Channels |-> TRUE]
OnlyOf(S) == [c \in Channels |-> c \in S]
Inverted == OnlyOf({1, 2})
FewSets == {{}, {0}, {2}, {0, 1}, {1, 3}, {0, 2, 3}, {0, 1, 2, 3}}

File(fam, size, h) == [fam |-> fam, size |-> size, h |-> h]

\* flags and enabled_val agree, or do not; the window wraps at U32 = 64
Files1000Z ==
    {File("Ds1000z", size, [flags |-> fl, on |-> OnlyOf(on), inv |-> Inverted,
                            depth |-> d, hoff |-> o, hsize |-> 4, timed |-> TRUE]) :
        fl \in SUBSET Channels, on \in {{0}, {1, 3}, {0, 1, 2}}, d \in {0, 7, 8},
        o \in {2, 62}, size \in {13, 14, 17}}
    \cup
    {File("Ds1000z", 14, [flags |-> fl, on |-> OnlyOf(fl), inv |-> Inverted,
                          depth |-> d, hoff |-> 2, hsize |-> 4, timed |-> t]) :
        fl \in SUBSET Channels, d \in 0 .. 8, t \in BOOLEAN}

Files1000E ==
    {File("Ds1000e", 276 + extra, [on |-> [c \in 0 .. 1 |-> c \in on],
                                   inv |-> [c \in 0 .. 1 |-> c = 1],
                                   depth |-> d, roll |-> r]) :
        on \in SUBSET {0, 1}, d \in {0, 4, 6}, r \in {0, 1, 3, 62}, extra \in {4, 8, 11, 12}}

Files2000 ==
    {File("Ds2000", size, [on |-> OnlyOf(on), inv |-> Inverted, woven |-> w,
                           offs |-> [c \in Channels |-> 1 + 4 * c], zpt |-> z,
                           wlen |-> n, timed |-> TRUE]) :
        on \in FewSets, w \in BOOLEAN, z \in {0, 62}, n \in {0, 1, 4, 5}, size \in {6, 10, 22}}

Files4000 ==
    {File("Ds4000", size, [on |-> on, inv |-> Inverted,
                           offs |-> [c \in Channels |-> 2 + 3 * c],
                           depth |-> d, timed |-> TRUE]) :
        on \in FewSets, d \in {0, 3, 5}, size \in {5, 9, 16}}

FilesTek ==
    {File("Tektronix", size, [base |-> b, start |-> st, stop |-> sp,
                              bpp |-> bpp, le |-> le]) :
        b \in {-2, 1}, st \in {2, 4}, sp \in {3, 9}, bpp \in 0 .. 4, le \in BOOLEAN,
        size \in {9, 10}}

FilesIsf ==
    {File("Isf", size, [off |-> 3, pts |-> p, byt |-> b, le |-> le, timed |-> t]) :
        p \in {0, 2, 5}, b \in 0 .. 3, le \in BOOLEAN, t \in BOOLEAN, size \in {2, 3, 8, 14}}

FilesDho ==
    {File("Dho", size, [blocks |-> [c \in Channels |-> IF c \in b THEN c ELSE NoEntry], n |-> n, nch |-> k, data |-> 3]) :
        b \in {{}, {0}, {2}, {1, 3}, {0, 1, 2, 3}}, n \in {0, 1, 4}, k \in 0 .. 5, size \in {5, 19, 35}}

FilesKeysight ==
    LET Buf(kind, bpp, off, len) == [kind |-> kind, bpp |-> bpp, off |-> off, len |-> len]
        bufs == {<<>>, <<Buf("float", 4, 2, 10)>>, <<Buf("logic", 1, 2, 3)>>,
                 <<Buf("logic", 1, 2, 4), Buf("float", 4, 8, 16)>>,
                 <<Buf("time", 4, 2, 8)>>, <<Buf("float", 8, 2, 16)>>,
                 <<Buf("float", 4, 4, 8), Buf("float", 4, 12, 8), Buf("logic", 1, 3, 1)>>}
        wf == [pts : {0, 2, 4}, bufs : bufs]
    IN  {File("Keysight", size, [wfs |-> <<a>>, intact |-> i, timed |-> t]) :
            a \in wf, size \in {19, 24}, i \in BOOLEAN, t \in BOOLEAN}
        \cup {File("Keysight", 24, [wfs |-> <<a, b>>, intact |-> TRUE, timed |-> TRUE]) : a, b \in wf}

FilesSiglent ==
    {File("Siglent", 2048 + extra, [on |-> on, wlen |-> n]) :
        on \in [Channels -> 0 .. 1] \cup {[c \in Channels |-> 2 * c]},
        n \in {0, 2, 3}, extra \in {-1, 3, 12}}

FilesLecroy ==
    {File("Lecroy", size, [source |-> s, width |-> w, off |-> 4, len |-> len,
                           count |-> k, le |-> le, timed |-> t]) :
        s \in {-1, 0, 3, 4}, w \in 1 .. 3, len \in {0, 5, 8}, k \in {0, 3, 9},
        le \in BOOLEAN, t \in BOOLEAN, size \in {9, 12}}

FilesRs ==
    {File("RohdeSchwarz", size, [fmt |-> f, hw |-> hw, rec |-> r, lead |-> l,
                                 active |-> a, timed |-> TRUE]) :
        f \in {"int8", "int16", "float32", "xy"}, hw \in {0, 2, 3}, r \in 0 .. 3,
        l \in 0 .. 1, a \in {<<>>, <<1>>, <<3>>, <<1, 4>>, <<2, 1>>, <<1, 1>>},
        size \in {7, 14, 26, 56}}

MCFiles == Files1000Z \cup Files1000E \cup Files2000 \cup Files4000 \cup FilesTek
           \cup FilesIsf \cup FilesDho \cup FilesKeysight \cup FilesSiglent
           \cup FilesLecroy \cup FilesRs
MCStarts  == {Absent, 0, 1, 2, 7, 4095}
MCLengths == {Absent, 0, 1, 3, 9}
=============================================================================
