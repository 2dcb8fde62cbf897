------------------------------ MODULE MCSession ------------------------------
(***************************************************************************)
(* Small instances of Session for TLC.                                     *)
(***************************************************************************)
EXTENDS Session, TLC

CONSTANTS c1, c2

MCCallers == {c1, c2}

MCRoles == {c1 :> "read" @@ c2 :> "read", c1 :> "read" @@ c2 :> "poll",
            c1 :> "write" @@ c2 :> "write"}

MCWriters == {c1 :> "write" @@ c2 :> "write"}

Plays(r) == \E c \in Callers : role[c] = r

(***************************************************************************)
(* Only what some caller can notice happens: without writers the write     *)
(* deadline, the write error and the rate limit change nothing, without    *)
(* readers no data arrives.                                                *)
(***************************************************************************)
Noticed ==
    /\ readDeadline' # readDeadline => Plays("read")
    /\ arrived' # arrived \/ chSocketReadError' # chSocketReadError => ~Plays("write")
    /\ writeDeadline' # writeDeadline \/ chSocketWriteError' # chSocketWriteError
         \/ bucket' # bucket => Plays("write")
=============================================================================
