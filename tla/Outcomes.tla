------------------------------ MODULE Outcomes ------------------------------
(* What a call answers instead of its result.                              *)
CONSTANTS Refused,   \* the Err of a call
          None       \* the None of an option
=============================================================================
