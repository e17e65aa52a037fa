--------------------------- MODULE ResourceQuota ---------------------------
(***************************************************************************)
(* What the resource list promises, whatever the number of threads: at     *)
(* most Limit resources are granted, and none is refused while one is      *)
(* still to be had.                                                        *)
(***************************************************************************)
EXTENDS Naturals

CONSTANT Limit
VARIABLES granted, refused

QuotaInit == granted = 0 /\ refused = 0

Grant == granted < Limit /\ granted' = granted + 1 /\ UNCHANGED refused

Refuse == granted = Limit /\ refused' = refused + 1 /\ UNCHANGED granted

QuotaSpec == QuotaInit /\ [][Grant \/ Refuse]_<<granted, refused>>
=============================================================================
