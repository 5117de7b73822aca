--------------------------- MODULE ConvertProofs ----------------------------
(***************************************************************************)
(* Proofs about Convert, for any command lines, any disks and any number   *)
(* of runs: that the process is where its counters say, that exit status 0 *)
(* means whole outputs, that only a decoded input replaces a file, and     *)
(* that a run implements BatchSpec.                                        *)
(*                                                                         *)
(* SuccessIsComplete says nothing of a run that goes on. The inductive     *)
(* invariant says of each output settled so far which input it holds: the  *)
(* last one written to it, unless the input being written replaces it.     *)
(***************************************************************************)
EXTENDS Convert, TLAPS

Out(i) == ResolvedOutput(cmd, i)
Settled(i) == outcome[i] \in {"ok", "failed"}

(* Inputs before k are settled, those from k on are not. *)
ProgressInv ==
    /\ cmd \in Commands
    /\ N \in Nat \ {0} /\ k \in Nat /\ failed \in Nat /\ runs \in Nat \ {0}
    /\ runs <= MaxRuns
    /\ pc \in {"start", "input", "decode", "create", "write", "exited"}
    /\ exit \in Exits \cup {Running} /\ (exit = Running <=> pc # "exited")
    /\ outcome = [i \in 1 .. N |-> outcome[i]]
    /\ \A i \in 1 .. N : outcome[i] \in {"untried", "ok", "failed"}
    /\ 1 <= k /\ k <= N + 1 /\ failed <= k - 1

(* While the loop runs: which inputs are settled, and which of them failed. *)
LoopInv ==
    /\ pc # "exited" =>
         /\ k <= N
         /\ \A i \in 1 .. N : outcome[i] = "untried" <=> k <= i
         /\ failed = 0 <=> \A i \in 1 .. k - 1 : outcome[i] = "ok"
    /\ pc = "start" => k = 1
    /\ pc \in {"input", "decode", "create", "write"} => ~Rejected(cmd)
    /\ pc \in {"decode", "create", "write"} => Resolves(cmd)

(* The disk keeps its paths; the input about to be written is a good one.  *)
DiskInv ==
    /\ disk = [p \in DOMAIN disk |-> disk[p]]
    /\ \A p \in DOMAIN disk : FileShape(disk[p])
    /\ \A i \in 1 .. N : /\ cmd.inputs[i] \in DOMAIN disk
                         /\ Resolves(cmd) => Out(i) \in DOMAIN disk
    /\ pc = "create" => disk[cmd.inputs[k]] = Capture("ok")

(* j is the last of the first n inputs that is written where i is.         *)
LastBefore(n, i, j) ==
    /\ j \in 1 .. n /\ Out(j) = Out(i)
    /\ \A m \in 1 .. n : j < m => Out(m) # Out(i)

(* Without a failure so far each output written holds the last input       *)
(* written to it, but for the output that is being written now.            *)
Holds(n, i) ==
    \E j \in 1 .. n : LastBefore(n, i, j) /\ disk[Out(i)] = Export(cmd.inputs[j], TRUE)

WrittenInv ==
    /\ pc # "exited" /\ failed = 0 =>
         \A i \in 1 .. k - 1 : (pc = "write" /\ Out(i) = Out(k)) \/ Holds(k - 1, i)
    /\ exit = "ok" => \A i \in 1 .. N : Holds(N, i)

IInv == ProgressInv /\ LoopInv /\ DiskInv /\ WrittenInv

-----------------------------------------------------------------------------
InLoop == pc \in {"input", "decode", "create", "write"}

(* The command line does not change, and so neither what is made of it.    *)
LEMMA SameCommand ==
    ASSUME cmd' = cmd
    PROVE  /\ N' = N /\ Multi' = Multi
           /\ \A i : Out(i)' = Out(i)
           /\ Rejected(cmd)' = Rejected(cmd) /\ Resolves(cmd)' = Resolves(cmd)
  BY DEF N, Multi, Out

LEMMA SameHolds ==
    ASSUME UNCHANGED <<cmd, disk>>
    PROVE  \A n, i : Holds(n, i)' = Holds(n, i)
  BY SameCommand DEF Holds, LastBefore

LEMMA InitInv == Init => IInv
<1> SUFFICES ASSUME Init PROVE IInv
  OBVIOUS
<1>1. N \in Nat \ {0}
  BY CommandsAssumption DEF Init, N
<1>2. ProgressInv
  BY <1>1, RunsAssumption DEF Init, ProgressInv, N, Running, Exits
<1>3. LoopInv
  BY <1>1 DEF Init, LoopInv, N
<1>4. DiskInv
  BY <1>1, DisksAssumption DEF Init, DiskInv, N, Out
<1>5. WrittenInv
  BY <1>1 DEF Init, WrittenInv, Running
<1> QED
  BY <1>2, <1>3, <1>4, <1>5 DEF IInv

(* A step that leaves the disk alone and goes on or ends without success   *)
(* keeps what the disk was said to hold.                                   *)
LEMMA QuietWritten ==
    ASSUME IInv, UNCHANGED <<cmd, disk>>,
           \/ exit' \in {"error", "panic", "killed"} /\ pc' = "exited"
           \/ /\ exit' = exit /\ pc # "write" /\ pc' # "exited" /\ pc # "exited"
              /\ UNCHANGED <<k, failed>>
    PROVE  WrittenInv'
<1>1. \A n, i : Holds(n, i)' = Holds(n, i)
  BY SameHolds
<1>2. CASE exit' \in {"error", "panic", "killed"} /\ pc' = "exited"
  BY <1>2 DEF WrittenInv
<1>3. CASE /\ exit' = exit /\ pc # "write" /\ pc' # "exited" /\ pc # "exited"
           /\ UNCHANGED <<k, failed>>
  <2>1. exit' # "ok"
    BY <1>3 DEF IInv, ProgressInv, Running, Exits
  <2> QED
    BY <1>1, <1>3, <2>1 DEF WrittenInv, IInv
<1> QED
  BY <1>2, <1>3

(* Goto and Exit. *)
LEMMA GotoInv ==
    ASSUME IInv, NEW next \in {"input", "decode", "create", "write"}, Goto(next), disk' = disk,
           pc # "exited", pc # "write", ~Rejected(cmd), next # "input" => Resolves(cmd),
           next = "create" => disk[cmd.inputs[k]] = Capture("ok")
    PROVE  IInv'
<1> USE DEF Goto
<1>1. ProgressInv'
  BY SameCommand DEF IInv, ProgressInv, Running
<1>2. LoopInv'
  BY SameCommand DEF IInv, LoopInv
<1>3. DiskInv'
  BY SameCommand DEF IInv, DiskInv
<1>4. WrittenInv'
  BY QuietWritten DEF IInv, ProgressInv
<1> QED
  BY <1>1, <1>2, <1>3, <1>4 DEF IInv

LEMMA ExitInv ==
    ASSUME IInv, NEW status \in {"error", "panic", "killed"}, Exit(status),
           UNCHANGED <<cmd, disk, k, failed, runs>>,
           outcome' = [i \in 1 .. N |-> outcome'[i]],
           \A i \in 1 .. N : outcome'[i] \in {"untried", "ok", "failed"}
    PROVE  IInv'
<1> USE DEF Exit
<1>1. ProgressInv'
  BY SameCommand DEF IInv, ProgressInv, Running, Exits
<1>2. LoopInv'
  BY DEF LoopInv
<1>3. DiskInv'
  BY SameCommand DEF IInv, DiskInv
<1>4. WrittenInv'
  BY QuietWritten
<1> QED
  BY <1>1, <1>2, <1>3, <1>4 DEF IInv

(* Input k is settled and the batch goes on or ends. *)
LEMMA AdvanceInv ==
    ASSUME IInv, InLoop, NEW how \in {"ok", "failed"},
           outcome' = [outcome EXCEPT ![k] = how],
           Advance(IF how = "ok" THEN failed ELSE failed + 1)
    PROVE  ProgressInv' /\ LoopInv'
<1>1. /\ k \in 1 .. N /\ N \in Nat /\ failed \in Nat /\ N' = N
      /\ exit = Running /\ failed <= k - 1 /\ cmd' = cmd
  BY SameCommand DEF IInv, ProgressInv, LoopInv, InLoop, Advance
<1>2. outcome' = [i \in 1 .. N |-> IF i = k THEN how ELSE outcome[i]]
  BY <1>1 DEF IInv, ProgressInv
<1>3. /\ k' = k + 1 /\ failed' \in Nat /\ failed' <= k /\ runs' = runs
      /\ failed' = IF how = "ok" THEN failed ELSE failed + 1
      /\ \/ k < N /\ pc' = "input" /\ exit' = Running
         \/ k = N /\ pc' = "exited" /\ exit' \in {"error", "ok"}
  BY <1>1 DEF Advance, Exit
<1>4. ProgressInv'
  BY <1>1, <1>2, <1>3, SMTT(30) DEF IInv, ProgressInv, Running, Exits
<1>5. LoopInv'
  <2> SUFFICES ASSUME pc' # "exited"
               PROVE  LoopInv'
    BY <1>3 DEF LoopInv
  <2>1. k < N /\ pc' = "input"
    BY <1>3
  <2>2. \A i \in 1 .. N : outcome'[i] = "untried" <=> k' <= i
    BY <1>1, <1>2, <1>3 DEF IInv, LoopInv, InLoop
  <2>3. failed = 0 <=> \A i \in 1 .. k - 1 : outcome[i] = "ok"
    BY DEF IInv, LoopInv, InLoop
  <2>4. failed' = 0 <=> \A i \in 1 .. k' - 1 : outcome'[i] = "ok"
    BY <1>1, <1>2, <1>3, <2>3
  <2>5. ~Rejected(cmd')
    BY <1>1 DEF IInv, LoopInv, InLoop
  <2> QED
    BY <1>1, <1>3, <2>1, <2>2, <2>4, <2>5 DEF LoopInv
<1> QED
  BY <1>4, <1>5

LEMMA FailInv ==
    ASSUME IInv, InLoop, Fail, disk' = disk
    PROVE  IInv'
<1>1. k \in 1 .. N /\ failed \in Nat
  BY DEF IInv, ProgressInv, LoopInv, InLoop
<1>2. CASE ~Multi
  <2>1. Exit("error") /\ UNCHANGED <<cmd, k, failed, runs>>
    BY <1>2 DEF Fail
  <2>2. outcome' = [i \in 1 .. N |-> IF i = k THEN "failed" ELSE outcome[i]]
    BY DEF Fail, IInv, ProgressInv
  <2> QED
    BY <2>1, <2>2, ExitInv DEF IInv, ProgressInv
<1>3. CASE Multi
  <2>1. Advance(failed + 1) /\ outcome' = [outcome EXCEPT ![k] = "failed"]
    BY <1>3 DEF Fail
  <2>2. ProgressInv' /\ LoopInv'
    BY <2>1, AdvanceInv
  <2>3. /\ cmd' = cmd /\ failed' # 0 /\ pc' \in {"input", "exited"}
        /\ exit' = "ok" => exit = "ok"
    BY <1>1, <2>1 DEF Advance, Exit
  <2>4. DiskInv'
    BY <2>3, SameCommand DEF IInv, DiskInv
  <2>5. exit # "ok"
    BY DEF IInv, ProgressInv, InLoop, Running
  <2>6. WrittenInv'
    BY <2>3, <2>5 DEF WrittenInv
  <2> QED
    BY <2>2, <2>4, <2>6 DEF IInv
<1> QED
  BY <1>2, <1>3

LEMMA AbortInv ==
    ASSUME IInv, Abort
    PROVE  IInv'
  BY ExitInv DEF Abort, IInv, ProgressInv

-----------------------------------------------------------------------------
(* One lemma per action. *)

LEMMA ValidateInv == ASSUME IInv, Validate PROVE IInv'
<1>1. CASE Rejected(cmd) /\ Exit("error") /\ UNCHANGED <<cmd, k, failed, outcome, runs>>
  BY <1>1, ExitInv DEF Validate, IInv, ProgressInv
<1>2. CASE ~Rejected(cmd) /\ Goto("input")
  BY <1>2, GotoInv DEF Validate
<1> QED
  BY <1>1, <1>2 DEF Validate

LEMMA NoOutDirInv == ASSUME IInv, NoOutDir PROVE IInv'
  BY ExitInv DEF NoOutDir, IInv, ProgressInv

LEMMA ResolveInv == ASSUME IInv, Resolve PROVE IInv'
<1>1. InLoop /\ ~Rejected(cmd) /\ pc = "input"
  BY DEF Resolve, IInv, LoopInv, InLoop
<1>2. CASE ResolvedFormat(cmd) = "error"
  BY <1>1, <1>2, FailInv DEF Resolve
<1>3. CASE ResolvedFormat(cmd) # "error" /\ {cmd.output, cmd.dir} = {NoPath}
  BY <1>3, AbortInv DEF Resolve
<1>4. CASE Resolves(cmd)
  BY <1>1, <1>4, GotoInv DEF Resolve, Resolves
<1> QED
  BY <1>2, <1>3, <1>4 DEF Resolves

LEMMA DecodeInv == ASSUME IInv, Decode PROVE IInv'
<1> DEFINE file == disk[cmd.inputs[k]]
<1>1. /\ InLoop /\ ~Rejected(cmd) /\ pc = "decode" /\ Resolves(cmd)
      /\ k \in 1 .. N
  BY DEF Decode, IInv, LoopInv, ProgressInv, InLoop
<1>2. FileShape(file)
  BY <1>1 DEF IInv, DiskInv
<1>3. CASE file.kind = "capture" /\ file.decode = "ok"
  <2>1. file = Capture("ok")
    BY <1>2, <1>3 DEF FileShape
  <2>2. Goto("create") /\ disk' = disk
    BY <1>3 DEF Decode
  <2> QED
    BY <1>1, <2>1, <2>2, GotoInv
<1>4. CASE file.kind = "capture" /\ file.decode = "panics"
  <2>1. Abort
    BY <1>4 DEF Decode
  <2> QED
    BY <2>1, AbortInv
<1>5. CASE ~(file.kind = "capture" /\ file.decode \in {"ok", "panics"})
  <2>1. Fail /\ disk' = disk
    BY <1>5 DEF Decode
  <2> QED
    BY <1>1, <2>1, FailInv
<1> QED
  BY <1>3, <1>4, <1>5

(* What create and write leave: one file of another content. *)
LEMMA WriteDisk ==
    ASSUME IInv, pc \in {"create", "write"}, NEW whole, cmd' = cmd, pc' # "create",
           disk' = [disk EXCEPT ![Out(k)] = Export(cmd.inputs[k], whole)]
    PROVE  DiskInv' /\ DOMAIN disk' = DOMAIN disk /\ Out(k) \in DOMAIN disk
<1>1. k \in 1 .. N /\ Out(k) \in DOMAIN disk
  BY DEF IInv, ProgressInv, LoopInv, DiskInv
<1>2. disk' = [p \in DOMAIN disk |->
                  IF p = Out(k) THEN Export(cmd.inputs[k], whole) ELSE disk[p]]
  BY DEF IInv, DiskInv
<1>3. FileShape(Export(cmd.inputs[k], whole))
  BY DEF FileShape, Export
<1>4. \A p \in DOMAIN disk' : FileShape(disk'[p])
  BY <1>1, <1>2, <1>3 DEF IInv, DiskInv
<1>5. DOMAIN disk' = DOMAIN disk /\ disk' = [p \in DOMAIN disk' |-> disk'[p]]
  BY <1>2
<1>6. \A i \in 1 .. N' : /\ cmd'.inputs[i] \in DOMAIN disk'
                         /\ Resolves(cmd') => Out(i)' \in DOMAIN disk'
  BY <1>5, SameCommand DEF IInv, DiskInv
<1> QED
  BY <1>1, <1>4, <1>5, <1>6 DEF DiskInv

LEMMA CreateInv == ASSUME IInv, Create PROVE IInv'
<1>1. pc = "create" /\ pc' = "write" /\ UNCHANGED <<cmd, k, failed, exit, outcome, runs>>
  BY DEF Create, Goto
<1>2. DiskInv' /\ DOMAIN disk' = DOMAIN disk /\ Out(k) \in DOMAIN disk
  BY <1>1, WriteDisk DEF Create, Out
<1>3. ProgressInv' /\ LoopInv'
  BY <1>1, SameCommand DEF IInv, ProgressInv, LoopInv
<1>4. WrittenInv'
  <2>1. \A i : Out(i) # Out(k) => disk'[Out(i)] = disk[Out(i)]
    BY DEF Create, Out, IInv, DiskInv
  <2>2. \A n, i : Out(i) # Out(k) /\ Holds(n, i) => Holds(n, i)'
    BY <1>1, <2>1, SameCommand, ZenonT(60) DEF Holds, LastBefore
  <2>3. exit' # "ok"
    BY <1>1 DEF IInv, ProgressInv, Running
  <2> QED
    BY <1>1, <2>2, <2>3, SameCommand DEF WrittenInv, IInv
<1> QED
  BY <1>2, <1>3, <1>4 DEF IInv

LEMMA WriteInv == ASSUME IInv, Write PROVE IInv'
<1>1. /\ pc = "write" /\ InLoop /\ cmd' = cmd /\ Advance(failed)
      /\ outcome' = [outcome EXCEPT ![k] = "ok"]
  BY DEF Write, Advance, InLoop
<1>2. ProgressInv' /\ LoopInv'
  BY <1>1, AdvanceInv
<1>3. /\ k \in 1 .. N /\ N \in Nat /\ k' = k + 1 /\ failed' = failed /\ failed \in Nat
      /\ pc' \in {"input", "exited"}
      /\ exit' = "ok" => k = N /\ failed = 0
  BY <1>1 DEF Advance, Exit, IInv, ProgressInv, LoopInv, InLoop, Running
<1>4. DiskInv' /\ Out(k) \in DOMAIN disk
  BY <1>1, <1>3, WriteDisk DEF Write, Out
<1>5. ASSUME failed = 0, NEW n, n = k, NEW i \in 1 .. n
      PROVE  Holds(n, i)'
  <2>1. disk'[Out(n)] = Export(cmd.inputs[n], TRUE)
    BY <1>4, <1>5 DEF Write, Out, IInv, DiskInv
  <2>2. SUFFICES ASSUME NEW j \in 1 .. n, LastBefore(n, i, j),
                        disk'[Out(i)] = Export(cmd.inputs[j], TRUE)
                 PROVE  Holds(n, i)'
    <3>1. CASE Out(i) = Out(n)
      <4>1. LastBefore(n, i, n) /\ n \in 1 .. n
        BY <1>3, <1>5, <3>1 DEF LastBefore
      <4> QED
        BY <2>1, <2>2, <3>1, <4>1
    <3>2. CASE Out(i) # Out(n)
      <4>1. i \in 1 .. n - 1 /\ n \in Nat
        BY <1>3, <1>5, <3>2
      <4>2. Holds(n - 1, i)
        BY <1>1, <1>5, <3>2, <4>1 DEF IInv, WrittenInv
      <4>3. PICK j \in 1 .. n - 1 : /\ LastBefore(n - 1, i, j)
                                    /\ disk[Out(i)] = Export(cmd.inputs[j], TRUE)
        BY <4>2 DEF Holds
      <4>4. LastBefore(n, i, j) /\ j \in 1 .. n
        BY <3>2, <4>1, <4>3 DEF LastBefore
      <4>5. disk'[Out(i)] = disk[Out(i)]
        BY <1>5, <3>2 DEF Write, Out, IInv, DiskInv
      <4> QED
        BY <2>2, <4>3, <4>4, <4>5
    <3> QED
      BY <3>1, <3>2
  <2> QED
    BY <1>1, <2>2, SameCommand DEF Holds, LastBefore
<1>6. WrittenInv'
  <2>1. PICK n : n = k
    OBVIOUS
  <2>2. k' - 1 = n /\ N' = N
    BY <1>1, <1>3, <2>1, SameCommand
  <2>3. failed = 0 => \A i \in 1 .. n : Holds(n, i)'
    BY <1>5, <2>1
  <2>4. (failed = 0 => \A i \in 1 .. k - 1 : Holds(k - 1, i))'
    BY <1>3, <2>2, <2>3
  <2>5. (exit = "ok" => \A i \in 1 .. N : Holds(N, i))'
    BY <1>3, <2>1, <2>2, <2>3
  <2> QED
    BY <2>4, <2>5 DEF WrittenInv
<1> QED
  BY <1>2, <1>4, <1>6 DEF IInv

LEMMA DiskErrorInv == ASSUME IInv, DiskError PROVE IInv'
  BY FailInv DEF DiskError, InLoop

LEMMA KillInv == ASSUME IInv, Kill PROVE IInv'
  BY ExitInv DEF Kill, Exit, IInv, ProgressInv

LEMMA RerunInv == ASSUME IInv, Rerun PROVE IInv'
<1>1. N' = N /\ N \in Nat \ {0} /\ MaxRuns \in Nat
  BY SameCommand, RunsAssumption DEF Rerun, IInv, ProgressInv
<1>2. ProgressInv'
  BY <1>1 DEF Rerun, IInv, ProgressInv, Running
<1>3. LoopInv'
  BY <1>1 DEF Rerun, LoopInv
<1>4. DiskInv'
  BY SameCommand DEF Rerun, IInv, DiskInv
<1>5. WrittenInv'
  BY DEF Rerun, WrittenInv, Running
<1> QED
  BY <1>2, <1>3, <1>4, <1>5 DEF IInv

LEMMA StutterInv == ASSUME IInv, UNCHANGED vars PROVE IInv'
<1> USE DEF vars
<1>1. ProgressInv'
  BY SameCommand DEF IInv, ProgressInv
<1>2. LoopInv'
  BY SameCommand DEF IInv, LoopInv
<1>3. DiskInv'
  BY SameCommand DEF IInv, DiskInv
<1>4. WrittenInv'
  BY SameCommand, SameHolds DEF IInv, WrittenInv
<1> QED
  BY <1>1, <1>2, <1>3, <1>4 DEF IInv

LEMMA NextInv == IInv /\ [Next]_vars => IInv'
  BY ValidateInv, NoOutDirInv, ResolveInv, DecodeInv, CreateInv, WriteInv, DiskErrorInv,
     KillInv, RerunInv, StutterInv DEF Next, Step

LEMMA Inductive == Spec => []IInv
  BY InitInv, NextInv, PTL DEF Spec

-----------------------------------------------------------------------------
(* The process is where its counters say, whatever the disk does: input k  *)
(* is one of the command line while it is being converted, and no more     *)
(* inputs have failed than there are (main.rs:219-257).                    *)
THEOREM TypeCorrect == Spec => []TypeOK
<1>1. IInv => TypeOK
  <2> SUFFICES ASSUME IInv PROVE TypeOK
    OBVIOUS
  <2>1. \A p \in DOMAIN disk : disk[p].kind \in {"missing", "capture", "export"}
    BY DEF IInv, DiskInv, FileShape
  <2>2. failed \in 0 .. N /\ k \in 1 .. N + 1 /\ runs \in 1 .. MaxRuns
    BY RunsAssumption DEF IInv, ProgressInv
  <2> QED
    BY <2>1, <2>2 DEF IInv, ProgressInv, TypeOK
<1> QED
  BY <1>1, Inductive, PTL

(* Exit status 0 means that every output is the complete conversion of the *)
(* last input written to it, for any batch on any disk, also after failed  *)
(* or interrupted runs (main.rs:246-257).                                  *)
THEOREM Success == Spec => []SuccessIsComplete
<1>1. IInv => SuccessIsComplete
  <2> SUFFICES ASSUME IInv, exit = "ok", NEW i \in 1 .. N
               PROVE  LET q == Out(i)
                          last == CHOOSE j \in 1 .. N : /\ Out(j) = q
                                                        /\ \A m \in j + 1 .. N : Out(m) # q
                      IN  disk[q] = Export(cmd.inputs[last], TRUE)
    BY DEF SuccessIsComplete, Out
  <2> DEFINE Last(j) == Out(j) = Out(i) /\ \A m \in j + 1 .. N : Out(m) # Out(i)
             last == CHOOSE j \in 1 .. N : Last(j)
  <2>1. PICK j \in 1 .. N : LastBefore(N, i, j) /\ disk[Out(i)] = Export(cmd.inputs[j], TRUE)
    BY DEF IInv, WrittenInv, Holds
  <2>2. N \in Nat
    BY DEF IInv, ProgressInv
  <2>3. Last(j)
    BY <2>1, <2>2 DEF LastBefore
  <2>4. last \in 1 .. N /\ Last(last)
    BY <2>3
  <2>5. last = j
    BY <2>2, <2>3, <2>4
  <2> QED
    BY <2>1, <2>5
<1> QED
  BY <1>1, Inductive, PTL

(* What a path holds changes only once the input written to it has been    *)
(* decoded in full (main.rs:289-307 before 361 and 398).                   *)
THEOREM Replaces == Spec => OnlyDecodedReplaces
<1> DEFINE Replaced ==
        \A p \in DOMAIN disk : disk'[p] # disk[p] =>
            /\ k \in 1 .. N /\ p = ResolvedOutput(cmd, k)
            /\ disk'[p] = Export(cmd.inputs[k], pc = "write")
            /\ pc = "create" => disk[cmd.inputs[k]] = Capture("ok")
<1>1. ASSUME IInv, [Next]_vars PROVE Replaced
  <2>1. CASE Create
    <3>1. k \in 1 .. N /\ pc = "create" /\ (pc = "write") = FALSE
      BY <1>1, <2>1 DEF Create, IInv, ProgressInv, LoopInv
    <3>2. disk[cmd.inputs[k]] = Capture("ok")
      BY <1>1, <3>1 DEF IInv, DiskInv
    <3> QED
      BY <1>1, <2>1, <3>1, <3>2 DEF Create, IInv, DiskInv
  <2>2. CASE Write
    <3>1. k \in 1 .. N /\ pc = "write" /\ (pc = "write") = TRUE
      BY <1>1, <2>2 DEF Write, IInv, ProgressInv, LoopInv
    <3> QED
      BY <1>1, <2>2, <3>1 DEF Write, IInv, DiskInv
  <2>3. CASE disk' = disk
    BY <2>3
  <2> QED
    BY <1>1, <2>1, <2>2, <2>3 DEF Next, Step, Validate, NoOutDir, Resolve, Decode, DiskError,
       Kill, Rerun, Abort, vars
<1> QED
  BY <1>1, Inductive, PTL DEF Spec, OnlyDecodedReplaces

-----------------------------------------------------------------------------
(* The refinement of BatchSpec. In the loop the batch's Turn is input k.   *)

Plan      == [i \in 1 .. N |-> [in |-> cmd.inputs[i], out |-> Out(i)]]
Published == [p \in DOMAIN disk |-> WholeOf(disk[p])]

LEMMA PlanLength ==
    ASSUME N \in Nat
    PROVE  Len(Plan) = N /\ Batch!N = N
<1> DEFINE S == {Plan[i] : i \in 1 .. N}
<1>1. Plan \in [1 .. N -> S]
  BY DEF Plan
<1>2. Len(Plan) = N
  BY <1>1
<1> QED
  BY <1>2 DEF Batch!N, Plan, Out

LEMMA TurnIsK ==
    ASSUME IInv, pc # "exited"
    PROVE  /\ k \in 1 .. N /\ N \in Nat /\ Batch!N = N
           /\ Batch!Turn = k /\ Batch!Pending
<1>1. k \in 1 .. N /\ N \in Nat /\ Batch!N = N
  BY PlanLength DEF IInv, ProgressInv, LoopInv
<1>2. \A i \in 1 .. N : outcome[i] = "untried" <=> k <= i
  BY DEF IInv, LoopInv
<1>3. Batch!Pending
  BY <1>1, <1>2 DEF Batch!Pending, Batch!Running, IInv, ProgressInv, Running
<1> DEFINE IsTurn(i) == outcome[i] = "untried" /\ \A j \in 1 .. i - 1 : outcome[j] # "untried"
<1>4. IsTurn(k)
  BY <1>1, <1>2
<1>5. \A i \in 1 .. N : IsTurn(i) => i = k
  BY <1>1, <1>2
<1>6. k = CHOOSE i \in 1 .. N : IsTurn(i)
  BY <1>1, <1>4, <1>5
<1> QED
  BY <1>1, <1>3, <1>6 DEF Batch!Turn

LEMMA SamePlan == ASSUME cmd' = cmd PROVE Plan' = Plan
  BY SameCommand DEF Plan

(* A step that leaves the disk alone leaves what is published alone. *)
LEMMA SamePublished == ASSUME disk' = disk PROVE Published' = Published
  BY DEF Published

(* A file of other content: its path alone is published anew. *)
LEMMA OnePublished ==
    ASSUME IInv, NEW p \in DOMAIN disk, NEW file, disk' = [disk EXCEPT ![p] = file]
    PROVE  Published' = [Published EXCEPT ![p] = WholeOf(file)]
<1>1. disk' = [q \in DOMAIN disk |-> IF q = p THEN file ELSE disk[q]]
  BY DEF IInv, DiskInv
<1> QED
  BY <1>1 DEF Published

(* The end of an input, in the loop's terms and in the batch's. *)
LEMMA AdvanceSettles ==
    ASSUME IInv, InLoop, NEW how \in {"ok", "failed"},
           outcome' = [outcome EXCEPT ![k] = how],
           \/ Advance(IF how = "ok" THEN failed ELSE failed + 1)
           \/ /\ ~Multi /\ how = "failed" /\ Exit("error") /\ cmd' = cmd
    PROVE  Batch!Settle(how)
<1>1. /\ k \in 1 .. N /\ N \in Nat /\ Batch!N = N /\ Batch!Turn = k
      /\ exit = "running" /\ failed \in Nat
  BY TurnIsK DEF InLoop, IInv, ProgressInv, Running
<1>2. outcome' = [i \in 1 .. N |-> IF i = k THEN how ELSE outcome[i]]
  BY DEF IInv, ProgressInv
<1>3. cmd' = cmd
  BY DEF Advance
<1>4. failed = 0 <=> \A i \in 1 .. k - 1 : outcome[i] = "ok"
  BY DEF IInv, LoopInv, InLoop
<1>5. \A i \in 1 .. k - 1 : outcome[i] \in {"ok", "failed"}
  BY <1>1 DEF IInv, LoopInv, ProgressInv, InLoop
<1>6. CASE k < N
  <2>1. exit' = "running"
    BY <1>1, <1>6 DEF Advance, Multi
  <2> QED
    BY <1>1, <1>3, <1>6, <2>1, SamePlan DEF Batch!Settle, Batch!Running, Plan, Out
<1>7. CASE k = N
  <2>1. (\E i \in 1 .. N : outcome'[i] = "failed") <=> failed # 0 \/ how = "failed"
    BY <1>1, <1>2, <1>4, <1>5, <1>7
  <2>2. exit' = IF \E i \in 1 .. N : outcome'[i] = "failed" THEN "error" ELSE "ok"
    BY <1>1, <1>7, <2>1 DEF Advance, Exit
  <2> QED
    BY <1>1, <1>3, <1>7, <2>2, SamePlan DEF Batch!Settle, Batch!Running, Plan, Out
<1> QED
  BY <1>1, <1>6, <1>7

LEMMA FailRefines ==
    ASSUME IInv, InLoop, Fail, disk' = disk
    PROVE  Batch!Fail
<1>1. Batch!Settle("failed")
  BY AdvanceSettles DEF Fail
<1>2. Batch!Pending
  BY TurnIsK DEF InLoop
<1> QED
  BY <1>1, <1>2, SamePublished DEF Batch!Fail, Published

(* The steps that end a run without settling an input. *)
LEMMA StopRefines ==
    ASSUME IInv, NEW how, exit = Running, exit' = how, UNCHANGED <<cmd, disk, outcome>>
    PROVE  Batch!Stop(how)
  BY SamePlan, SamePublished DEF Batch!Stop, Batch!Running, Running, Plan, Published, Out

LEMMA RefuseRefines ==
    ASSUME IInv, pc = "start", exit' = "error", UNCHANGED <<cmd, disk, outcome>>
    PROVE  Batch!Refuse
<1>1. Batch!Fresh
  BY TurnIsK DEF Batch!Fresh, IInv, LoopInv
<1>2. exit = Running
  BY DEF IInv, ProgressInv
<1> QED
  BY <1>1, <1>2, StopRefines DEF Batch!Refuse

LEMMA QuietRefines ==
    ASSUME UNCHANGED <<cmd, disk, outcome, exit>>
    PROVE  UNCHANGED Batch!vars
  BY SamePlan, SamePublished DEF Batch!vars, Plan, Published, Out

LEMMA CreateRefines == ASSUME IInv, Create PROVE Batch!Withdraw
<1>1. k \in 1 .. N /\ Batch!Turn = k /\ Batch!Pending /\ Out(k) \in DOMAIN disk
  BY TurnIsK DEF Create, IInv, LoopInv, DiskInv
<1>2. /\ disk' = [disk EXCEPT ![Out(k)] = Export(cmd.inputs[k], FALSE)]
      /\ UNCHANGED <<cmd, outcome, exit>>
  BY DEF Create, Out, Goto
<1>3. Published' = [Published EXCEPT ![Out(k)] = <<>>]
  <2>1. WholeOf(Export(cmd.inputs[k], FALSE)) = <<>>
    BY DEF WholeOf, Export
  <2> QED
    BY <1>1, <1>2, <2>1, OnePublished
<1>4. Plan[k].out = Out(k) /\ Plan' = Plan
  BY <1>1, <1>2, SamePlan DEF Plan
<1> QED
  BY <1>1, <1>2, <1>3, <1>4 DEF Batch!Withdraw, Batch!Nothing, Plan, Published, Out

LEMMA WriteRefines == ASSUME IInv, Write PROVE Batch!Publish
<1>1. /\ k \in 1 .. N /\ Batch!Turn = k /\ Batch!Pending /\ Out(k) \in DOMAIN disk
      /\ InLoop
  BY TurnIsK DEF Write, IInv, LoopInv, DiskInv, InLoop
<1>2. disk' = [disk EXCEPT ![Out(k)] = Export(cmd.inputs[k], TRUE)]
  BY DEF Write, Out
<1>3. Published' = [Published EXCEPT ![Out(k)] = cmd.inputs[k]]
  BY <1>1, <1>2, OnePublished DEF WholeOf, Export
<1>4. Plan[k].out = Out(k) /\ Plan[k].in = cmd.inputs[k]
  BY <1>1 DEF Plan
<1>5. Batch!Settle("ok")
  BY <1>1, AdvanceSettles DEF Write
<1> QED
  BY <1>1, <1>3, <1>4, <1>5 DEF Batch!Publish, Plan, Published, Out

LEMMA RerunRefines == ASSUME IInv, Rerun PROVE Batch!Again
<1>1. Batch!N = N
  BY PlanLength DEF IInv, ProgressInv
<1> QED
  BY <1>1, SamePlan, SamePublished
  DEF Rerun, Batch!Again, Batch!Running, Running, Plan, Published, Out

(* Every step of the program is one of the batch, or none of its business. *)
LEMMA StepRefines == ASSUME IInv, [Next]_vars PROVE [Batch!Next]_(Batch!vars)
<1> USE DEF Batch!Next, Batch!Progress
<1>1. CASE Validate
  <2>1. CASE Rejected(cmd) /\ Exit("error") /\ UNCHANGED <<cmd, k, failed, outcome, runs>>
    BY <1>1, <2>1, RefuseRefines DEF Validate, Exit
  <2>2. CASE ~Rejected(cmd) /\ Goto("input")
    BY <1>1, <2>2, QuietRefines DEF Validate, Goto
  <2> QED
    BY <1>1, <2>1, <2>2 DEF Validate
<1>2. CASE NoOutDir
  BY <1>2, RefuseRefines DEF NoOutDir, Exit
<1>3. ASSUME Abort, exit = Running PROVE Batch!Panic
  BY <1>3, StopRefines DEF Abort, Exit, Batch!Panic
<1>4. CASE Resolve
  <2>1. pc = "input" /\ InLoop /\ exit = Running
    BY <1>4 DEF Resolve, InLoop, IInv, ProgressInv
  <2> QED
    BY <1>3, <1>4, <2>1, FailRefines, QuietRefines DEF Resolve, Goto
<1>5. CASE Decode
  <2>1. pc = "decode" /\ InLoop /\ exit = Running
    BY <1>5 DEF Decode, InLoop, IInv, ProgressInv
  <2>2. \/ Goto("create") /\ disk' = disk
        \/ Abort
        \/ Fail /\ disk' = disk
    BY <1>5 DEF Decode
  <2> QED
    BY <1>3, <2>1, <2>2, FailRefines, QuietRefines DEF Goto
<1>6. CASE Create
  BY <1>6, CreateRefines
<1>7. CASE Write
  BY <1>7, WriteRefines
<1>8. CASE DiskError
  BY <1>8, FailRefines DEF DiskError, InLoop
<1>9. CASE Kill
  BY <1>9, StopRefines DEF Kill, Batch!Interrupt
<1>10. CASE Rerun
  BY <1>10, RerunRefines
<1>11. CASE UNCHANGED vars
  BY <1>11, QuietRefines DEF vars
<1> QED
  BY <1>1, <1>2, <1>4, <1>5, <1>6, <1>7, <1>8, <1>9, <1>10, <1>11 DEF Next, Step

(* What a run does is what BatchSpec promises of a batch, its progress     *)
(* apart: the inputs settled in order, each published whole or failed, no  *)
(* other output disturbed, and a status that sums them up                  *)
(* (main.rs:219-257).                                                      *)
THEOREM SafelyBatch == Spec => Batch!Safety
<1>1. Init => Batch!Init
  <2> SUFFICES ASSUME Init PROVE Batch!Init
    OBVIOUS
  <2>1. IInv
    BY InitInv
  <2>2. Batch!N = N
    BY <2>1, PlanLength DEF IInv, ProgressInv
  <2> QED
    BY <2>2 DEF Init, Batch!Init, Batch!Fresh, Batch!Running, Running, N
<1> QED
  BY <1>1, Inductive, StepRefines, PTL DEF Spec, Batch!Safety
=============================================================================
