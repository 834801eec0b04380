------------------------------ MODULE MCSync ------------------------------
(***************************************************************************)
(* Small instances of team sync for TLC.                                   *)
(***************************************************************************)
EXTENDS TeamSync, TLC

CONSTANTS d1, d2, r1, r2, r3, x1, x2

\* Two runs of one device and one of another, or one run on each of two devices.
MCDevTwice == (r1 :> d1) @@ (r2 :> d1) @@ (r3 :> d2)
MCDevPair  == (r1 :> d1) @@ (r2 :> d2)

\* Everybody has accepted everybody; or d2 has not accepted d1 yet.
MCMutual == [d \in Devices |-> Devices \ {d}]
MCOneWay == [d \in Devices |-> IF d = d1 THEN {d2} ELSE {}]

\* Clocks that step back: that of d2 may be behind d1, or both within the limit.
MCBehind == (d1 :> {2}) @@ (d2 :> {1, 2})
MCClose  == [d \in Devices |-> {1, 2}]

\* Rows are alike, and so are the two runs of one device.
Symmetry == Permutations({x1, x2}) \cup Permutations({r1, r2})
=============================================================================
