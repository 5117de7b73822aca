----------------------------- MODULE MCWriter -------------------------------
(***************************************************************************)
(* Tables without and with time, of one and more channels and no, one and  *)
(* more rows, through a buffer that some calls fill and one overfills; the *)
(* header of the widest table is too long for its length field.            *)
(***************************************************************************)
EXTENDS Writer

MCJobs == [format : {"csv", "npy"}, chans : {<<1>>, <<2, 4>>}, rows : {0, 1, 3},
           timed : BOOLEAN]
          \cup [format : {"npy"}, chans : {<<1, 2, 3, 4>>}, rows : {2}, timed : BOOLEAN]
=============================================================================
