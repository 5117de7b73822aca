----------------------------- MODULE MCConvert ------------------------------
(* Command lines and disks for TLC: two captures of the same stem in two   *)
(* directories, one whose conversion replaces it, earlier exports at the   *)
(* places the outputs go to, and every way a decode can end.               *)
EXTENDS Convert

InA == <<"in", <<"a", "wfm">>>>
InB == <<"more", <<"a", "wfm">>>>
Self == <<"in", <<"b", "csv">>>>     \* a capture named like an export
OutA == <<"in", <<"a", "csv">>>>
OutFlat == <<"out", <<"a", "csv">>>>
OutBare == <<"out", <<"a">>>>
Part1 == <<"in", <<"run", "1", "wfm">>>>
Part2 == <<"in", <<"run", "2", "wfm">>>>
OutRun == <<"out", <<"run", "csv">>>>
OutB == <<"out", <<"b", "csv">>>>

Run(inputs, output, dir, format) ==
    [inputs |-> inputs, output |-> output, dir |-> dir, format |-> format]

CommandsMC ==
    { Run(<<InA>>, OutFlat, NoPath, NoPath),       \* the format from --output
      Run(<<InA>>, OutBare, NoPath, NoPath),       \* no extension to infer
      Run(<<InA>>, OutBare, NoPath, "csv"),
      Run(<<InA>>, NoPath, NoPath, "csv"),         \* refused
      Run(<<InA, InB>>, OutFlat, NoPath, NoPath),  \* refused
      Run(<<InA, InB>>, NoPath, "out", NoPath),    \* every input lacks a format
      Run(<<InA, InB>>, NoPath, "out", "csv"),     \* both to out/a.csv
      Run(<<Self, InA>>, NoPath, "in", "csv"),     \* over itself, then next to it
      Run(<<InA, Self, InB>>, NoPath, "out", "csv") }
CommandsNoDir == { Run(<<InA, InB>>, NoPath, NoPath, "csv") }
CommandsDots == { Run(<<Part1, Part2>>, NoPath, "out", "csv") }

Decodes == {"ok", "fails", "panics"}
OldExport == Export(Part1, TRUE)
Inputs == {InA, InB, Self}
Outputs == {OutA, OutFlat, OutBare, OutB}

DisksMC ==
    { [p \in Inputs \cup Outputs |-> IF p \in Inputs THEN in[p] ELSE out] :
        in \in [Inputs -> {Missing} \cup {Capture(d) : d \in Decodes}],
        out \in {Missing, OldExport} }
DisksDots == { [p \in {Part1, Part2, OutRun} |->
                  IF p = OutRun THEN Missing ELSE Capture("ok")] }
=============================================================================
