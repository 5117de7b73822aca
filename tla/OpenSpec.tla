------------------------------ MODULE OpenSpec ------------------------------
(***************************************************************************)
(* What WfmFile::open promises of one file, without the way it looks at    *)
(* it: after some time an answer, and never a second one. All errors are   *)
(* alike. A file that is described to its end, with a header h, has the    *)
(* one answer OpenFile gives for it as a whole; one of which no more is    *)
(* known than what the detectors look at may belong to any family.         *)
(***************************************************************************)
EXTENDS Opening

VARIABLES file,       \* the file being opened, any file of any family
          answer      \* Pending, Failed, or the handle

openVars == <<file, answer>>

Pending == [tag |-> "pending"]
Failed  == [tag |-> "failed"]
Outcome(r) == IF r.tag = "ok" THEN r ELSE Failed

Outcomes(f) == IF "h" \in DOMAIN f THEN {Outcome(OpenFile(f))}
               ELSE {Failed} \cup {Ok(fam) : fam \in AllFamilies}

Init == answer = Pending

Answer ==
    /\ answer = Pending
    /\ answer' \in Outcomes(file)
    /\ UNCHANGED file

Safety == Init /\ [][Answer]_openVars
Spec   == Safety /\ <>(answer # Pending)
=============================================================================
