------------------------------- MODULE RsPair -------------------------------
(***************************************************************************)
(* A Rohde & Schwarz capture is two files, the XML `<base>.bin` that is    *)
(* opened and the payload `<base>.Wfm.bin`. rohde_schwarz::open looks at   *)
(* the XML twice and then at the payload, while whatever exports captures  *)
(* may be writing the next pair over them.                                 *)
(*                                                                         *)
(* The exporter is outside this repository: all that is assumed of it is   *)
(* that it finishes one pair before it starts the next, writes each file   *)
(* from its beginning, and the XML in the order of test_data/rs. A file is *)
(* the number of the capture it holds, 0 for none yet, and how far it is   *)
(* written. A read of the XML sees one moment of it, and what it makes of  *)
(* that depends on the attributes that are there to their closing quote.   *)
(***************************************************************************)
EXTENDS Opening

CONSTANT Sessions     \* sequences of captures exported one after the other

VARIABLES session,    \* the captures of this session
          xml,        \* [gen, attrs]: the XML and how many of Attrs it has
          payload,    \* [gen, len]: the payload and its length
          pc,         \* "idle", "sniffed", "read"
          seen,       \* [xml, payload]: the two files as they were read
          quiet,      \* the pair was whole at the sniff and untouched since
          handle      \* Closed, or the outcome of the last open

vars == <<session, xml, payload, pc, seen, quiet, handle>>
exporterVars == <<session, xml, payload>>

Closed == [tag |-> "closed"]
Unread == [xml |-> [gen |-> 0, attrs |-> 0], payload |-> [gen |-> 0, len |-> 0]]

(* The attributes parse_xml looks for, as they follow one another in the   *)
(* file: <<t, 0>> is the Value of the tag t, and the last two tags have    *)
(* one I_i for each slot instead, read apart.                              *)
Attrs == <<<<"SourceType", 0>>, <<"RecordLength", 0>>, <<"XStop", 0>>,
           <<"LeadingSettlingSamples", 0>>, <<"Source", 0>>, <<"MultiChannelExport", 0>>,
           <<"MultiChannelExportState", 0>>, <<"MultiChannelExportState", 1>>,
           <<"MultiChannelExportState", 2>>, <<"MultiChannelExportState", 3>>,
           <<"MultiChannelSource", 0>>, <<"MultiChannelSource", 1>>,
           <<"MultiChannelSource", 2>>, <<"MultiChannelSource", 3>>>>

(* A capture c has the channel c.slots[i] of each export slot, 0 if it is  *)
(* off; a single-channel capture the one channel c.source.                 *)
Slots == 0 .. 3
OnSlots(c) == InOrder({i \in Slots : c.slots[i] # 0})
Exported(c) == IF c.multi THEN [k \in 1 .. Len(OnSlots(c)) |-> c.slots[OnSlots(c)[k]]]
               ELSE <<c.source>>
Stride(c)  == RsPrefix(c.fmt) + Len(Exported(c)) * RsBytes[c.fmt]
FullLen(c) == 8 + Stride(c) * c.hw
(* The lengths at which its payload is observed while it is written: with  *)
(* half the header, the header, a row, all but a byte, all.                *)
PayloadLens(c) == {4, 8, 8 + Stride(c), FullLen(c) - 1, FullLen(c)}

(* A capture has rows, one for each of the count in its payload's header,  *)
(* and a payload that can be mapped; nothing else is known of the counts   *)
(* in its XML than that they are numbers.                                  *)
CaptureShape(c) ==
    /\ c.multi \in BOOLEAN /\ c.slots \in [Slots -> 0 .. 4] /\ c.source \in 1 .. 4
    /\ c.fmt \in DOMAIN RsBytes /\ c.hw \in 1 .. U32 - 1
    /\ c.rec \in 0 .. USize - 1 /\ c.lead \in 0 .. USize - 1
    /\ FullLen(c) < USize

ASSUME SessionsAssumption ==
    \A s \in Sessions :
        Len(s) \in Nat \ {0} /\ \A g \in 1 .. Len(s) : CaptureShape(s[g])

-----------------------------------------------------------------------------
(* extract_attr and parse_xml: of a tag that is cut, the attributes before *)
(* the cut count. A Value that is not there is the default of its type, a  *)
(* slot whose state is not there is off, and an active one whose source is *)
(* not there has the number of the slot.                                   *)
HasEntry(x, tag, i) == \E k \in 1 .. x.attrs : Attrs[k] = <<tag, i>>
Has(x, tag) == HasEntry(x, tag, 0)
ValueOf(x, tag, v, default) == IF Has(x, tag) THEN v ELSE default

SlotOn(x, c, i) == HasEntry(x, "MultiChannelExportState", i) /\ c.slots[i] # 0

(* Variant: channels are numbered from 0. *)
ChannelOfZeroBased(x, c, i) ==
    IF HasEntry(x, "MultiChannelSource", i) THEN c.slots[i] - 1 ELSE i
(* Variant: the default of a single-channel capture. *)
ChannelOfFirst(x, c, i) ==
    IF HasEntry(x, "MultiChannelSource", i) THEN c.slots[i] ELSE 1
ChannelOf(x, c, i) ==
    IF HasEntry(x, "MultiChannelSource", i) THEN c.slots[i] ELSE i + 1

ActiveChannels(x, c) ==
    LET slots == InOrder({i \in Slots : SlotOn(x, c, i)})
    IN  IF ValueOf(x, "MultiChannelExport", c.multi, FALSE)
        THEN [k \in 1 .. Len(slots) |-> ChannelOf(x, c, slots[k])]
        ELSE <<ValueOf(x, "Source", c.source, 1)>>

(* The pair as OpenRs sees it: x of the XML, p of the payload.             *)
Described(s, x, p) ==
    LET c == s[x.gen]
        d == s[p.gen]
    IN  [fam |-> "RohdeSchwarz", size |-> p.len,
         h |-> [fmt |-> d.fmt, hw |-> d.hw,
                rec |-> ValueOf(x, "RecordLength", c.rec, 0),
                lead |-> ValueOf(x, "LeadingSettlingSamples", c.lead, 0),
                active |-> ActiveChannels(x, c),
                timed |-> Has(x, "XStop")]]

-----------------------------------------------------------------------------
Init ==
    /\ session \in Sessions
    /\ xml = Unread.xml /\ payload = Unread.payload
    /\ pc = "idle" /\ seen = Unread /\ quiet = FALSE /\ handle = Closed

XmlWhole     == xml.gen # 0 => xml.attrs = Len(Attrs)
PayloadWhole == payload.gen # 0 => payload.len = FullLen(session[payload.gen])
PairWhole    == xml.gen = payload.gen /\ XmlWhole /\ PayloadWhole

(* The exporter: either file of the next capture may be started first, and *)
(* starting it truncates the one that is there.                            *)
Exporter(step) == step /\ quiet' = FALSE /\ UNCHANGED <<session, pc, seen, handle>>

StartXml ==
    /\ XmlWhole /\ xml.gen < Len(session)
    /\ xml.gen < payload.gen \/ PairWhole
    /\ xml' = [gen |-> xml.gen + 1, attrs |-> 0]
    /\ UNCHANGED payload

(* The text up to the closing quote of the next attribute: to a reader, a  *)
(* file that ends before it is the same as one that ends at the last.      *)
WriteAttr ==
    /\ ~XmlWhole
    /\ xml' = [xml EXCEPT !.attrs = @ + 1]
    /\ UNCHANGED payload

StartPayload ==
    /\ PayloadWhole /\ payload.gen < Len(session)
    /\ payload.gen < xml.gen \/ PairWhole
    /\ payload' = [gen |-> payload.gen + 1, len |-> 0]
    /\ UNCHANGED xml

WritePayload ==
    /\ ~PayloadWhole
    /\ \E n \in PayloadLens(session[payload.gen]) :
          n > payload.len /\ payload' = [payload EXCEPT !.len = n]
    /\ UNCHANGED xml

-----------------------------------------------------------------------------
(* WfmFile::open, in the three moments at which it looks at the files.     *)
BadPair == Err("bad R&S pair")
EndOpen(outcome) ==
    /\ handle' = outcome
    /\ pc' = "idle"
    /\ UNCHANGED exporterVars

(* The file is opened and mapped, and looks_like_rs asked. eRS_ first      *)
(* appears in the SourceType tag. An XML that is cut may end inside a      *)
(* character, the Ohm sign of a unit, and is then not text (line 55, 190). *)
(* No other family claims a cut XML.                                       *)
SniffXml ==
    /\ pc = "idle" /\ handle = Closed
    /\ \/ /\ xml.gen = 0 \/ ~Has(xml, "SourceType") \/ ~XmlWhole
          /\ EndOpen(BadPair) /\ quiet' = FALSE /\ UNCHANGED seen
       \/ /\ xml.gen # 0 /\ Has(xml, "SourceType")
          /\ pc' = "sniffed"
          /\ quiet' = PairWhole
          /\ UNCHANGED <<exporterVars, seen, handle>>

(* fs::read, is_rs_xml, parse_xml. *)
Parse ==
    /\ pc' = "read"
    /\ seen' = [seen EXCEPT !.xml = xml]
    /\ UNCHANGED <<exporterVars, quiet, handle>>
NoChannels == ActiveChannels(xml, session[xml.gen]) = <<>>

(* Variant: what looks_like_rs saw is not asked again of what was read. *)
ReadXmlTrusting ==
    /\ pc = "sniffed"
    /\ \/ /\ NoChannels \/ ~XmlWhole
          /\ EndOpen(BadPair) /\ UNCHANGED <<seen, quiet>>
       \/ ~NoChannels /\ Parse

ReadXml ==
    /\ pc = "sniffed"
    /\ \/ /\ ~Has(xml, "SourceType") \/ NoChannels \/ ~XmlWhole
          /\ EndOpen(BadPair) /\ UNCHANGED <<seen, quiet>>
       \/ Has(xml, "SourceType") /\ ~NoChannels /\ Parse

(* Variant: the payload is taken to be as long as its header promises. *)
Promised(p) == [p EXCEPT !.len = FullLen(session[p.gen])]
MapPayloadPromised ==
    /\ pc = "read"
    /\ EndOpen(IF payload.gen = 0 THEN BadPair
               ELSE LET o == OpenRs(Described(session, seen.xml, Promised(payload)))
                    IN  IF o.tag = "ok" THEN Ok([o.val EXCEPT !.size = payload.len]) ELSE o)
    /\ seen' = [seen EXCEPT !.payload = payload]
    /\ UNCHANGED quiet

(* The sibling is opened, mapped and checked. *)
MapPayload ==
    /\ pc = "read"
    /\ EndOpen(IF payload.gen = 0 THEN BadPair
               ELSE OpenRs(Described(session, seen.xml, payload)))
    /\ seen' = [seen EXCEPT !.payload = payload]
    /\ UNCHANGED quiet

Drop ==
    /\ handle # Closed
    /\ handle' = Closed
    /\ seen' = Unread /\ quiet' = FALSE
    /\ UNCHANGED <<exporterVars, pc>>

Next ==
    \/ Exporter(StartXml) \/ Exporter(WriteAttr)
    \/ Exporter(StartPayload) \/ Exporter(WritePayload)
    \/ SniffXml \/ ReadXml \/ MapPayload \/ Drop

Spec == Init /\ [][Next]_vars

-----------------------------------------------------------------------------
IsOpen   == handle.tag = "ok"
H        == handle.val.h
Listed(h) == [k \in 1 .. Len(h.chans) |-> h.chans[k].channel]
Parsed   == session[seen.xml.gen]               \* the capture the XML is of
SamePair == seen.xml.gen = seen.payload.gen

(* The exporter is never more than a capture ahead in one of the files.    *)
(* What is parsed is the XML as it was read, at least up to the attribute  *)
(* that makes it one, although it may have been truncated since the sniff. *)
TypeOK ==
    /\ xml.gen \in 0 .. Len(session) /\ payload.gen \in 0 .. Len(session)
    /\ xml.gen - payload.gen \in -1 .. 1
    /\ xml.attrs \in 0 .. Len(Attrs)
    /\ pc \in {"idle", "sniffed", "read"} /\ quiet \in BOOLEAN
    /\ pc = "read" => seen.xml.attrs > 0
    /\ IsOpen => seen.xml.attrs > 0 /\ seen.payload.gen > 0

(* Left alone from the sniff to the mapping, a whole pair opens, with the  *)
(* channels in export order, the counts and the rows of that capture; only *)
(* an export with every slot off is refused (rohde_schwarz.rs:335).        *)
QuietOpen ==
    quiet /\ pc = "idle" /\ handle # Closed =>
        LET c == session[xml.gen]
        IN  IF Exported(c) = <<>> THEN handle = BadPair
            ELSE /\ IsOpen
                 /\ Listed(H) = Exported(c)
                 /\ H.fmt = c.fmt /\ H.stride = Stride(c)
                 /\ H.rec = Smaller(c.rec, c.hw)
                 /\ handle.val.size = FullLen(c)

(* A payload still being written is never accepted with its own whole XML: *)
(* the length check of open sees it is short (rohde_schwarz.rs:101).       *)
TornPayloadRefused ==
    IsOpen /\ SamePair /\ seen.xml.attrs = Len(Attrs) =>
        seen.payload.len = FullLen(Parsed)

(* What a multi-channel capture may pass for: the first of its slots that  *)
(* are on, as many as there are channels in the list, the first m with     *)
(* their own number and the others with that of the slot. No channel is    *)
(* missing once one has its own number.                                    *)
PassesFor(c, list) ==
    LET on == OnSlots(c)
        n  == Len(list)
    IN  /\ n <= Len(on)
        /\ \E m \in 0 .. n :
              /\ m # 0 => n = Len(on)
              /\ \A k \in 1 .. n :
                    list[k] = IF k <= m THEN c.slots[on[k]] ELSE on[k] + 1

(* A cut XML may be accepted with its payload, and its channels misread,   *)
(* but in these ways only: before MultiChannelExport as a single channel,  *)
(* of the source or the default; from there on as a capture without its    *)
(* last channels, of whose rows the stride is then too narrow, or with all *)
(* of them and the last ones misnumbered (rohde_schwarz.rs:275-333).       *)
TornXmlReads ==
    IsOpen /\ SamePair =>
        \/ Listed(H) = Exported(Parsed)
        \/ ~Has(seen.xml, "MultiChannelExport") /\ Listed(H) \in {<<1>>, <<Parsed.source>>}
        \/ Parsed.multi /\ PassesFor(Parsed, Listed(H))

-----------------------------------------------------------------------------
(* Every pair that the reader can put together, cut or mixed.              *)
PairFiles ==
    UNION {{Described(s, x, p) :
                x \in [gen : 1 .. Len(s), attrs : 1 .. Len(Attrs)],
                p \in UNION {{[gen |-> g, len |-> n] : n \in {0} \cup PayloadLens(s[g])} :
                                g \in 1 .. Len(s)}} :
            s \in Sessions}

W == INSTANCE WfmFile WITH
    Files <- PairFiles, Starts <- {Absent}, Lengths <- {Absent}

(* Opening while the files change is still the open of one file, one that  *)
(* is put together from what was read at the two moments, and then of no   *)
(* other: what WfmFile promises of any file holds of such a handle too.    *)
ImplementsWfmFile == W!Spec
=============================================================================
