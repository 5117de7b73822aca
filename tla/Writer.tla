------------------------------- MODULE Writer -------------------------------
(***************************************************************************)
(* write_csv and write_npy (crates/wfm_oxide_cli/src/main.rs): a table is  *)
(* put into a file through a buffer, with disks that take part of a write  *)
(* or none, and an interrupt at any point; and what a reader makes of the  *)
(* file that is left.                                                      *)
(*                                                                         *)
(* A byte is a record: what it is a part of, and the k-th of how many. The *)
(* text of a CSV cell is abstracted to two characters, enough to be cut.   *)
(***************************************************************************)
EXTENDS Integers, Sequences, SequencesExt

CONSTANTS Jobs,       \* [format, chans, rows, timed]: the tables to write
          Capacity,   \* of the BufWriter, 8 KiB in the library
          Align,      \* NPY headers end at a multiple of it, 64 in the code
          MaxHeader,  \* the largest header length that fits its u16 field
          MaxWrite    \* bytes the disk takes of one write

ASSUME JobsAssumption ==
    Jobs \subseteq [format : {"csv", "npy"}, chans : Seq(Nat), rows : Nat, timed : BOOLEAN]

ASSUME SizesAssumption == {Capacity, Align, MaxHeader, MaxWrite} \subseteq Nat \ {0}

VARIABLES job,        \* the table being written
          pc,         \* "create", "write", "flush", "drop", or how it ended
          next,       \* the write call to make next
          buffer,     \* bytes the BufWriter holds
          disk        \* bytes of the file

vars == <<job, pc, next, buffer, disk>>

Ended == {"done", "failed", "killed"}

-----------------------------------------------------------------------------
(* Bytes. Column 0 is the time. *)
Cell(i, c)    == <<"cell", i, c>>                         \* row -1: the names
Part(of, n)   == [k \in 1 .. n |-> [of |-> of, k |-> k, n |-> n]]
First(j)      == IF j.timed THEN 0 ELSE 1
Fields(j)     == [k \in 1 .. Len(j.chans) + 1 - First(j) |-> First(j) + k - 1]
Width(c)      == IF c = 0 THEN 8 ELSE 4                   \* '<f8', '<f4'

Mark(m) == Part(<<m>>, 1)
Comma   == Mark("comma")
NewLine == Mark("newline")

(* write_csv: a write call per cell, separator and line end. *)
Separated(cells) ==
    [k \in 1 .. 2 * Len(cells) - 1 |-> IF k % 2 = 1 THEN Part(cells[(k + 1) \div 2], 2) ELSE Comma]
RowOf(j, i) == [k \in DOMAIN Fields(j) |-> Cell(i, Fields(j)[k])]
CsvLine(j, i) == Append(Separated(RowOf(j, i)), NewLine)
CsvCalls(j)   == FlattenSeq([k \in 1 .. j.rows + 1 |-> CsvLine(j, k - 2)])

(* write_npy: the dtype is a list of the fields and their widths, or one   *)
(* width; the shape is (rows,) or (rows, channels).                        *)
(* Variant: the time column is declared like the others. *)
DeclaredTimeNarrow(j) ==
    [fields |-> IF j.timed THEN [k \in DOMAIN Fields(j) |-> 4] ELSE <<4>>,
     shape  |-> IF j.timed \/ Len(j.chans) = 1 THEN <<j.rows>> ELSE <<j.rows, Len(j.chans)>>]
Declared(j) ==
    [fields |-> IF j.timed THEN [k \in DOMAIN Fields(j) |-> Width(Fields(j)[k])] ELSE <<4>>,
     shape  |-> IF j.timed \/ Len(j.chans) = 1 THEN <<j.rows>> ELSE <<j.rows, Len(j.chans)>>]

Digits(n) == LET of[m \in 0 .. n] == IF m < 10 THEN 1 ELSE 1 + of[m \div 10] IN of[n]
Sum(s)    == LET upto[k \in 0 .. Len(s)] == IF k = 0 THEN 0 ELSE upto[k - 1] + s[k]
             IN  upto[Len(s)]
(* Characters of the header dictionary: its fixed text, its fields, shape. *)
DictLen(j) ==
    LET names == [k \in 1 .. Len(j.chans) |-> 13 + Digits(j.chans[k])]    \* ('CH1', '<f4')
        descr == IF j.timed THEN 2 + 15 + 2 * Len(names) + Sum(names) ELSE 5
        shape == IF Len(Declared(j).shape) = 1 THEN Digits(j.rows) + 3
                 ELSE Digits(j.rows) + 4 + Digits(Len(j.chans))
    IN  10 + descr + 35 + shape + 3

PadLen(dict) == (Align - ((10 + dict + 1) % Align)) % Align
HeaderLen(j) == DictLen(j) + PadLen(DictLen(j)) + 1

(* Variant: one channel after the other. *)
PayloadByColumn(j) ==
    FlattenSeq([k \in DOMAIN Fields(j) |->
        [i \in 1 .. j.rows |-> Part(Cell(i - 1, Fields(j)[k]), Width(Fields(j)[k]))]])
Payload(j) ==
    FlattenSeq([i \in 1 .. j.rows |->
        [k \in DOMAIN Fields(j) |-> Part(Cell(i - 1, Fields(j)[k]), Width(Fields(j)[k]))]])

NpyCalls(j) ==
    <<Part(<<"magic">>, 6), Part(<<"version">>, 2), Part(<<"length">>, 2),
      Part(<<"header">>, HeaderLen(j))>>
        \o Payload(j)

Calls(j) == IF j.format = "csv" THEN CsvCalls(j) ELSE NpyCalls(j)
Image(j) == FlattenSeq(Calls(j))

-----------------------------------------------------------------------------
Init ==
    /\ job \in Jobs
    /\ pc = "create" /\ next = 1 /\ buffer = <<>>
    /\ disk = Mark("older export")

(* File::create truncates. A header that does not fit its length field is  *)
(* found out only now.                                                     *)
TooLong(j) == j.format = "npy" /\ HeaderLen(j) > MaxHeader
Create ==
    /\ pc = "create"
    /\ disk' = <<>>
    /\ pc' = IF TooLong(job) THEN "failed" ELSE "write"
    /\ UNCHANGED <<job, next, buffer>>

NoCreate ==
    /\ pc = "create"
    /\ pc' = "failed"
    /\ UNCHANGED <<job, next, buffer, disk>>

(* A call larger than the buffer goes through an empty one. *)
Fits(call) == buffer = <<>> \/ Len(buffer) + Len(call) <= Capacity
Put ==
    /\ pc = "write" /\ next <= Len(Calls(job))
    /\ Fits(Calls(job)[next])
    /\ buffer' = buffer \o Calls(job)[next]
    /\ next' = next + 1
    /\ UNCHANGED <<job, pc, disk>>

(* The buffer is emptied when the next call does not fit, and at flush();  *)
(* the disk may take it in pieces.                                         *)
Emptying ==
    \/ pc = "flush"
    \/ /\ pc = "write" /\ buffer # <<>>
       /\ next <= Len(Calls(job)) => ~Fits(Calls(job)[next])
Taken == 1 .. Min({MaxWrite, Len(buffer)})

(* Variant: what a short write left over is dropped. *)
DrainOnce ==
    /\ Emptying
    /\ \E n \in Taken : disk' = disk \o SubSeq(buffer, 1, n)
    /\ buffer' = <<>> /\ pc' = "write"
    /\ UNCHANGED <<job, next>>
Drain ==
    /\ Emptying
    /\ \E n \in Taken :
          /\ disk' = disk \o SubSeq(buffer, 1, n)
          /\ buffer' = SubSeq(buffer, n + 1, Len(buffer))
    /\ pc' = IF buffer' = <<>> THEN "write" ELSE "flush"
    /\ UNCHANGED <<job, next>>

(* A write fails, or takes nothing. *)
DiskError ==
    /\ Emptying
    /\ pc' = "drop"
    /\ UNCHANGED <<job, next, buffer, disk>>

(* Variant: after an error the writing goes on. *)
DropBufferRetries ==
    /\ pc = "drop"
    /\ pc' = "write"
    /\ UNCHANGED <<job, next, buffer, disk>>
(* Dropped on the way out, the BufWriter tries once more.                  *)
DropBuffer ==
    /\ pc = "drop"
    /\ \E n \in 0 .. Len(buffer) : disk' = disk \o SubSeq(buffer, 1, n)
    /\ pc' = "failed" /\ buffer' = <<>>
    /\ UNCHANGED <<job, next>>

Finish ==
    /\ pc = "write" /\ next > Len(Calls(job)) /\ buffer = <<>>
    /\ pc' = "done"
    /\ UNCHANGED <<job, next, buffer, disk>>

Kill ==
    /\ pc \notin Ended
    /\ pc' = "killed"
    /\ UNCHANGED <<job, next, buffer, disk>>

Step == Create \/ NoCreate \/ Put \/ Drain \/ DiskError \/ DropBuffer \/ Finish
Next == Step \/ Kill

Spec == Init /\ [][Next]_vars /\ WF_vars(Step)

-----------------------------------------------------------------------------
(* A reader of NPY: the header ends hlen bytes after the length field, and *)
(* the data are as many bytes as dtype and shape say.                      *)
ItemSize(d) == Sum(d.fields)
DataSize(d) == ItemSize(d) * (IF Len(d.shape) = 1 THEN d.shape[1] ELSE d.shape[1] * d.shape[2])
HeaderRead  == \E k \in DOMAIN disk : disk[k].of = <<"header">> /\ disk[k].k = disk[k].n
DataRead    == Len(disk) - (10 + HeaderLen(job))
CellAt(d, i, f) ==        \* the f-th field of item i, at its offset
    SubSeq(disk, 10 + HeaderLen(job) + i * ItemSize(d) + Sum(SubSeq(d.fields, 1, f - 1)) + 1,
                 10 + HeaderLen(job) + i * ItemSize(d) + Sum(SubSeq(d.fields, 1, f)))

Npy == job.format = "npy" /\ pc # "create"
Csv == job.format = "csv" /\ pc # "create"

(* The file and the buffer together are what the calls made so far wrote.  *)
TypeOK ==
    /\ job \in Jobs /\ pc \in {"create", "write", "flush", "drop"} \cup Ended
    /\ next \in 1 .. Len(Calls(job)) + 1
    /\ pc \in {"write", "flush"} => disk \o buffer = FlattenSeq(SubSeq(Calls(job), 1, next - 1))

(* An export that was cut off, by a full disk or an interrupt, never reads *)
(* as a whole table: its header is missing or declares more data than the  *)
(* file has (main.rs:427-461). Only a success leaves the declared size.    *)
TornNpyIsShort ==
    Npy /\ HeaderRead /\ DataRead = DataSize(Declared(job)) => disk = Image(job)

(* Read by the dtype and shape it declares, a finished NPY file has every  *)
(* cell of the table at its place, rows first, and its data start at a     *)
(* multiple of 64 bytes (main.rs:399-425).                                 *)
NpyReadsBack ==
    Npy /\ pc = "done" =>
        LET d == Declared(job)
        IN  /\ (10 + HeaderLen(job)) % Align = 0 /\ HeaderLen(job) <= MaxHeader
            /\ DataRead = DataSize(d)
            /\ IF job.timed
               THEN \A i \in 0 .. job.rows - 1, f \in 1 .. Len(d.fields) :
                       CellAt(d, i, f) = Part(Cell(i, f - 1), d.fields[f])
               ELSE \A i \in 0 .. job.rows - 1, c \in 1 .. Len(job.chans) :
                       CellAt(d, i * Len(job.chans) + c - 1, 1) = Part(Cell(i, c), 4)

(* The finished lines of a CSV file, whole or cut off anywhere, are the    *)
(* names and then rows of the table, none missing, doubled or cut; only    *)
(* the last, unfinished line may be short (main.rs:364-386).               *)
LineEnds == {k \in DOMAIN disk : disk[k].of = <<"newline">>}
CsvLinesAreRows ==
    Csv => /\ \A e \in LineEnds :
                LET i    == Cardinality({d \in LineEnds : d <= e}) - 2
                    from == Max({0} \cup {d \in LineEnds : d < e})
                IN  SubSeq(disk, from + 1, e) =
                        FlattenSeq(CsvLine(job, i))
           /\ pc = "done" => Cardinality(LineEnds) = job.rows + 1

(* The writers end, whatever the disk does (main.rs:385, 461).             *)
Ends == <>(pc \in Ended)
=============================================================================
