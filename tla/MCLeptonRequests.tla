--------------------------- MODULE MCLeptonRequests ----------------------------
(***************************************************************************)
(* LeptonRequests with one toggle of the three, which have no state in     *)
(* common, and both switches of other kinds.                               *)
(***************************************************************************)
EXTENDS LeptonRequests

MCServed == {"agc", "ffc", "spotmeter"}
================================================================================
