----------------------------- MODULE MCLibrary ------------------------------
(* Finite instances of Library for TLC: the values of the constants a      *)
(* configuration file cannot spell.  The library opens on day 20000, in    *)
(* October 2024, so that dates and clock have their real magnitudes.       *)
EXTENDS Library

CONSTANTS i0, i1

TwoIsbns == {i0, i1}
Opening == 20000
=============================================================================
