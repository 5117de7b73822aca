------------------------------ MODULE MCRsPair ------------------------------
(***************************************************************************)
(* Sessions of one and of two captures: single- and multi-channel ones     *)
(* that differ in channels, rows or format, so that any two of their files *)
(* can be put together and some of the mixtures fit.                       *)
(***************************************************************************)
EXTENDS RsPair

Capture(multi, slots, source, fmt, hw, rec, lead) ==
    [multi |-> multi, slots |-> [i \in Slots |-> slots[i + 1]], source |-> source,
     fmt |-> fmt, hw |-> hw, rec |-> rec, lead |-> lead]
Single(source, fmt, hw, rec, lead) == Capture(FALSE, <<0, 0, 0, 0>>, source, fmt, hw, rec, lead)
Multi(slots, fmt, hw, rec, lead)   == Capture(TRUE, slots, 1, fmt, hw, rec, lead)

One   == Single(3, "int8", 4, 3, 1)
Two   == Multi(<<4, 0, 2, 0>>, "int16", 3, 2, 1)
Same  == Multi(<<0, 1, 0, 3>>, "int16", 3, 3, 1)        \* fits Two's payload
Many  == Multi(<<2, 1, 4, 3>>, "float32", 2, 2, 0)
Timed == Single(2, "xy", 3, 2, 0)
None4 == Multi(<<0, 0, 0, 0>>, "int8", 2, 2, 0)          \* no channel at all

MCSessions == {<<One>>, <<None4>>, <<One, Two>>, <<Two, Same>>, <<Many, One>>, <<Timed, Two>>}
=============================================================================
