--------------------------- MODULE MCVerification ---------------------------
(* Two slots are enough for a row of one slot to arrive while the next one *)
(* is on screen; three texts are one for each attempt up to the cap.       *)
EXTENDS Verification

CONSTANTS t1, t2, t3

MCTexts == {t1, t2, t3}
=============================================================================
