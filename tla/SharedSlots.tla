----------------------------- MODULE SharedSlots -----------------------------
(***************************************************************************)
(* Variables that the parts of a model take turns in.  Parts that share no *)
(* state are explored one at a time: focus says which, the slots are its   *)
(* variables, and the ones it does not need stay 0.                        *)
(***************************************************************************)
EXTENDS Integers

VARIABLES
  focus,
  s1, s2, s3, s4, s5, s6, s7, s8, s9, s10, s11, s12, s13, s14, s15, s16

slotVars == <<focus, s1, s2, s3, s4, s5, s6, s7, s8, s9, s10, s11, s12, s13, s14, s15, s16>>

(* The slots above the n that the part in focus uses. *)
Free(n) ==
  /\ IF n < 2 THEN s2 = 0 ELSE TRUE
  /\ IF n < 3 THEN s3 = 0 ELSE TRUE
  /\ IF n < 4 THEN s4 = 0 ELSE TRUE
  /\ IF n < 5 THEN s5 = 0 ELSE TRUE
  /\ IF n < 6 THEN s6 = 0 ELSE TRUE
  /\ IF n < 7 THEN s7 = 0 ELSE TRUE
  /\ IF n < 8 THEN s8 = 0 ELSE TRUE
  /\ IF n < 9 THEN s9 = 0 ELSE TRUE
  /\ IF n < 10 THEN s10 = 0 ELSE TRUE
  /\ IF n < 11 THEN s11 = 0 ELSE TRUE
  /\ IF n < 12 THEN s12 = 0 ELSE TRUE
  /\ IF n < 13 THEN s13 = 0 ELSE TRUE
  /\ IF n < 14 THEN s14 = 0 ELSE TRUE
  /\ IF n < 15 THEN s15 = 0 ELSE TRUE
  /\ IF n < 16 THEN s16 = 0 ELSE TRUE

Keep(n) ==
  /\ UNCHANGED focus
  /\ IF n < 2 THEN UNCHANGED s2 ELSE TRUE
  /\ IF n < 3 THEN UNCHANGED s3 ELSE TRUE
  /\ IF n < 4 THEN UNCHANGED s4 ELSE TRUE
  /\ IF n < 5 THEN UNCHANGED s5 ELSE TRUE
  /\ IF n < 6 THEN UNCHANGED s6 ELSE TRUE
  /\ IF n < 7 THEN UNCHANGED s7 ELSE TRUE
  /\ IF n < 8 THEN UNCHANGED s8 ELSE TRUE
  /\ IF n < 9 THEN UNCHANGED s9 ELSE TRUE
  /\ IF n < 10 THEN UNCHANGED s10 ELSE TRUE
  /\ IF n < 11 THEN UNCHANGED s11 ELSE TRUE
  /\ IF n < 12 THEN UNCHANGED s12 ELSE TRUE
  /\ IF n < 13 THEN UNCHANGED s13 ELSE TRUE
  /\ IF n < 14 THEN UNCHANGED s14 ELSE TRUE
  /\ IF n < 15 THEN UNCHANGED s15 ELSE TRUE
  /\ IF n < 16 THEN UNCHANGED s16 ELSE TRUE
=============================================================================
