---------------------------- MODULE MCFederation ----------------------------
(***************************************************************************)
(* Small instances of federation for TLC: the sibling a, whose entry t is  *)
(* about the file of its symbol s.                                         *)
(***************************************************************************)
EXTENDS Federation, TLC

CONSTANTS p1, p2, a, root, former, me, s, t, lib

Processes == Permutations({p1, p2})

OwnerIsA == t :> a
FileIsLib == s :> lib
AboutLib == t :> lib
IsLower == lib :> lib

(* A new database; one in which an older binary linked a under another     *)
(* name, and the repository to itself; and one in which it linked a under  *)
(* both names and imported under both.                                     *)
Upgrades ==
  {[links |-> <<>>, rows |-> {}],
   [links |-> (former :> a) @@ (me :> root), rows |-> {<<former, t>>}],
   [links |-> (former :> a) @@ (a :> a), rows |-> {<<former, t>>, <<a, t>>}]}
=============================================================================
