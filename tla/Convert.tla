------------------------------ MODULE Convert -------------------------------
(***************************************************************************)
(* wfm-oxide convert (crates/wfm_oxide_cli/src/main.rs): the batch loop    *)
(* over its inputs and what it leaves in the file system, with disks that  *)
(* fail, an interrupt at any point and the command run again.              *)
(*                                                                         *)
(* A path is <<directory, name>>; a name is the sequence of its parts      *)
(* between dots, so that file_stem and with_extension can be modelled by   *)
(* what they do. A capture is abstracted to how its decode ends.           *)
(***************************************************************************)
EXTENDS Integers, Sequences, FiniteSets

CONSTANTS Commands,   \* command lines: [inputs, output, dir, format]
          Disks,      \* the file systems they may start from
          NoPath,     \* an option that was not given
          MaxRuns     \* how often the command is run

ASSUME RunsAssumption == MaxRuns \in Nat \ {0}

VARIABLES cmd,        \* the command line
          disk,       \* the content of every path
          pc,         \* where the process is
          k,          \* the input being converted
          failed,     \* n_failed
          exit,       \* exit status, Running before there is one
          outcome,    \* history: how each input of this run went
          runs        \* runs so far

vars == <<cmd, disk, pc, k, failed, exit, outcome, runs>>

Running == "running"
Exits   == {"ok", "error", "panic", "killed"}

Missing == [kind |-> "missing"]
Capture(decode) == [kind |-> "capture", decode |-> decode]
Export(i, whole) == [kind |-> "export", of |-> i, whole |-> whole]

N == Len(cmd.inputs)
Multi == N > 1

-----------------------------------------------------------------------------
(* Path and Option arithmetic. *)

FileStem(name) == IF Len(name) = 1 THEN name ELSE SubSeq(name, 1, Len(name) - 1)
WithExtension(name, ext) == Append(FileStem(name), ext)

(* infer_format, and --format before it. *)
Formats == {"csv", "npy"}
InferFormat(name) ==
    IF Len(name) > 1 /\ name[Len(name)] \in Formats THEN name[Len(name)] ELSE "error"

ResolvedFormat(c) ==
    IF c.format # NoPath THEN c.format
    ELSE IF c.output # NoPath THEN InferFormat(c.output[2]) ELSE "error"

ResolvedOutput(c, i) ==
    IF c.output # NoPath THEN c.output
    ELSE <<c.dir, WithExtension(FileStem(c.inputs[i][2]), ResolvedFormat(c))>>

(* The checks before the loop. *)
Rejected(c) ==
    \/ Len(c.inputs) > 1 /\ c.output # NoPath
    \/ Len(c.inputs) = 1 /\ c.dir = NoPath /\ c.output = NoPath

(* clap asks for one path at least. *)
ASSUME CommandsAssumption == \A c \in Commands : Len(c.inputs) \in Nat \ {0}

(* A disk is described at every path that a command may read or write.     *)
Resolves(c) == ResolvedFormat(c) # "error" /\ {c.output, c.dir} # {NoPath}
FileShape(file) ==
    \/ file.kind = "missing" /\ file = Missing
    \/ file.kind = "capture" /\ file = Capture(file.decode)
    \/ file.kind = "export"  /\ file = Export(file.of, file.whole)

ASSUME DisksAssumption ==
    \A d \in Disks :
        /\ d = [p \in DOMAIN d |-> d[p]]
        /\ \A p \in DOMAIN d : FileShape(d[p])
        /\ \A c \in Commands : \A i \in 1 .. Len(c.inputs) :
             /\ c.inputs[i] \in DOMAIN d
             /\ Resolves(c) => ResolvedOutput(c, i) \in DOMAIN d

-----------------------------------------------------------------------------
Init ==
    /\ cmd \in Commands
    /\ disk \in Disks
    /\ pc = "start" /\ k = 1 /\ failed = 0 /\ exit = Running
    /\ outcome = [i \in 1 .. Len(cmd.inputs) |-> "untried"]
    /\ runs = 1

Exit(status) == exit' = status /\ pc' = "exited"

Goto(next) == pc' = next /\ UNCHANGED <<cmd, k, failed, exit, outcome, runs>>

(* The next input, or the end of the batch. *)
Advance(n) ==
    /\ failed' = n
    /\ k' = k + 1
    /\ IF k < N THEN pc' = "input" /\ exit' = exit
       ELSE Exit(IF n > 0 THEN "error" ELSE "ok")
    /\ UNCHANGED <<cmd, runs>>

(* Variants: a failure is counted where it happens and again by the loop;  *)
(* it ends a batch too; the loop tries the input again.                    *)
FailTwice ==
    /\ outcome' = [outcome EXCEPT ![k] = "failed"]
    /\ IF Multi THEN Advance(failed + 2)
       ELSE Exit("error") /\ UNCHANGED <<cmd, k, failed, runs>>
FailStops ==
    /\ outcome' = [outcome EXCEPT ![k] = "failed"]
    /\ Exit("error") /\ UNCHANGED <<cmd, k, failed, runs>>

(* An input fails: alone it ends the program, in a batch it is counted. *)
Fail ==
    /\ outcome' = [outcome EXCEPT ![k] = "failed"]
    /\ IF Multi THEN Advance(failed + 1)
       ELSE Exit("error") /\ UNCHANGED <<cmd, k, failed, runs>>

(* The option checks; creating --out-dir may fail too, before any input.   *)
Validate ==
    /\ pc = "start"
    /\ \/ Rejected(cmd) /\ Exit("error") /\ UNCHANGED <<cmd, k, failed, outcome, runs>>
       \/ ~Rejected(cmd) /\ Goto("input")
    /\ UNCHANGED disk

NoOutDir ==
    /\ pc = "start" /\ ~Rejected(cmd) /\ cmd.dir # NoPath
    /\ Exit("error") /\ UNCHANGED <<cmd, disk, k, failed, outcome, runs>>

Abort == Exit("panic") /\ UNCHANGED <<cmd, disk, k, failed, outcome, runs>>

(* Variant: the output is created before the input is read. *)
ResolveThenCreate ==
    /\ pc = "input"
    /\ IF ResolvedFormat(cmd) = "error" THEN Fail /\ UNCHANGED disk
       ELSE IF {cmd.output, cmd.dir} = {NoPath} THEN Abort
       ELSE Goto("create") /\ UNCHANGED disk

(* Format and output path of input k; without --output and --out-dir the   *)
(* match arm is unreachable!("validated above").                           *)
Resolve ==
    /\ pc = "input"
    /\ IF ResolvedFormat(cmd) = "error" THEN Fail /\ UNCHANGED disk
       ELSE IF {cmd.output, cmd.dir} = {NoPath} THEN Abort
       ELSE Goto("decode") /\ UNCHANGED disk

(* open_wfm and extract_channel of every channel, into memory. *)
Decode ==
    /\ pc = "decode"
    /\ LET file == disk[cmd.inputs[k]]
       IN  CASE file.kind = "capture" /\ file.decode = "ok" -> Goto("create") /\ UNCHANGED disk
             [] file.kind = "capture" /\ file.decode = "panics" -> Abort
             [] OTHER -> Fail /\ UNCHANGED disk

(* File::create truncates whatever was there. *)
Create ==
    /\ pc = "create"
    /\ disk' = [disk EXCEPT ![ResolvedOutput(cmd, k)] = Export(cmd.inputs[k], FALSE)]
    /\ Goto("write")

(* Every row written and flushed. *)
Write ==
    /\ pc = "write"
    /\ disk' = [disk EXCEPT ![ResolvedOutput(cmd, k)] = Export(cmd.inputs[k], TRUE)]
    /\ outcome' = [outcome EXCEPT ![k] = "ok"]
    /\ Advance(failed)

(* Variant: rows still buffered when the file is closed are lost silently. *)
DiskErrorUnflushed ==
    /\ pc \in {"create", "write"}
    /\ IF pc = "create" THEN Fail
       ELSE outcome' = [outcome EXCEPT ![k] = "ok"] /\ Advance(failed)
    /\ UNCHANGED disk

(* The directory or the file cannot be created, or the disk fills up. *)
DiskError ==
    /\ \/ pc \in {"create", "write"}
       \/ pc = "input" /\ ResolvedFormat(cmd) # "error" /\ {cmd.output, cmd.dir} # {NoPath}
    /\ Fail
    /\ UNCHANGED disk

(* An interrupt. *)
Kill ==
    /\ exit = Running
    /\ exit' = "killed" /\ pc' = "exited"
    /\ UNCHANGED <<cmd, disk, k, failed, outcome, runs>>

(* The same command is run again on what the last run left. *)
Rerun ==
    /\ exit # Running /\ runs < MaxRuns
    /\ runs' = runs + 1
    /\ pc' = "start" /\ k' = 1 /\ failed' = 0 /\ exit' = Running
    /\ outcome' = [i \in 1 .. N |-> "untried"]
    /\ UNCHANGED <<cmd, disk>>

Step == Validate \/ NoOutDir \/ Resolve \/ Decode \/ Create \/ Write \/ DiskError
Next == Step \/ Kill \/ Rerun

Spec == Init /\ [][Next]_vars /\ WF_vars(Step)

-----------------------------------------------------------------------------
TypeOK ==
    /\ pc \in {"start", "input", "decode", "create", "write", "exited"}
    /\ exit \in Exits \cup {Running} /\ (exit = Running <=> pc # "exited")
    /\ k \in 1 .. N + 1 /\ failed \in 0 .. N /\ runs \in 1 .. MaxRuns
    /\ outcome \in [1 .. N -> {"untried", "ok", "failed"}]
    /\ \A p \in DOMAIN disk : disk[p].kind \in {"missing", "capture", "export"}

(* Exit status 0 means that every output is the complete conversion of the *)
(* last input written to it (main.rs:246-257): nothing missing, truncated, *)
(* or left over from an earlier run, even when the output replaces the     *)
(* input it was read from.                                                 *)
SuccessIsComplete ==
    exit = "ok" => \A i \in 1 .. N :
        LET q == ResolvedOutput(cmd, i)
            last == CHOOSE j \in 1 .. N : /\ ResolvedOutput(cmd, j) = q
                                          /\ \A m \in j + 1 .. N : ResolvedOutput(cmd, m) # q
        IN  disk[q] = Export(cmd.inputs[last], TRUE)

(* What a path holds changes only once the input written to it has been    *)
(* decoded in full (main.rs:289-307 before 361 and 398): an input that     *)
(* fails to open, to decode, or panics leaves an earlier export alone.     *)
OnlyDecodedReplaces ==
    [][\A p \in DOMAIN disk : disk'[p] # disk[p] =>
         /\ k \in 1 .. N /\ p = ResolvedOutput(cmd, k)
         /\ disk'[p] = Export(cmd.inputs[k], pc = "write")
         /\ pc = "create" =>
              disk[cmd.inputs[k]] = Capture("ok")]_vars

(* The batch as its user sees it (main.rs:219-257): the inputs settled in  *)
(* their order, once each, published whole or failed, no other output      *)
(* disturbed, and an end with the status that sums them up. So an input    *)
(* that cannot be converted stops nothing but itself, a run that ends by   *)
(* itself has tried no input or all, and none is tried for ever.           *)
WholeOf(file) == IF file.kind = "export" /\ file.whole THEN file.of ELSE <<>>
Batch == INSTANCE BatchSpec WITH
    plan      <- [i \in 1 .. N |-> [in |-> cmd.inputs[i], out |-> ResolvedOutput(cmd, i)]],
    published <- [p \in DOMAIN disk |-> WholeOf(disk[p])],
    status    <- exit
ImplementsBatch == Batch!Spec

-----------------------------------------------------------------------------
(* Claims of the source that the code does not keep.                       *)

(* main.rs:236 unreachable!("validated above"): the arm is never reached.  *)
UnreachableArm ==
    pc = "input" /\ ResolvedFormat(cmd) # "error" =>
        cmd.output # NoPath \/ cmd.dir # NoPath

(* main.rs:37-38 "Each input becomes <out-dir>/<stem>.<ext>": after a      *)
(* successful batch that path holds the conversion of that input.          *)
DocumentedOutputs ==
    exit = "ok" /\ cmd.output = NoPath => \A i \in 1 .. N :
        LET documented == <<cmd.dir, Append(FileStem(cmd.inputs[i][2]), ResolvedFormat(cmd))>>
        IN  documented \in DOMAIN disk /\ disk[documented] = Export(cmd.inputs[i], TRUE)
=============================================================================
