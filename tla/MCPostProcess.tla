--------------------------- MODULE MCPostProcess ---------------------------
(***************************************************************************)
(* Small instances of PostProcess for TLC: two sessions, the first of      *)
(* which produces more packets than a worker may take in one go.           *)
(***************************************************************************)
EXTENDS PostProcess, TLC

CONSTANTS s1, s2

MCSessions == {s1, s2}

Packets31 == s1 :> 3 @@ s2 :> 1
Packets21 == s1 :> 2 @@ s2 :> 1
=============================================================================
