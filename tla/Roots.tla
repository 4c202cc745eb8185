------------------------------- MODULE Roots --------------------------------
(***************************************************************************)
(* The square root of every number there is (fixed.go), one after the      *)
(* other.                                                                  *)
(***************************************************************************)
EXTENDS Fixed

VARIABLE raw

RawInit == raw = 0
NextRaw == raw < Largest /\ raw' = raw + 1
RawSpec == RawInit /\ [][NextRaw]_raw
-----------------------------------------------------------------------------
\* The root of a number is the largest that is not too large: bit by bit, the
\* search stops neither early nor late (fixed.go, Sqrt).
SqrtExact ==
  LET r == Sqrt(raw)
  IN  r * r <= raw * One /\ raw * One < (r + 1) * (r + 1)
=============================================================================
