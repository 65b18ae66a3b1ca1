-------------------------------- MODULE MCMesh --------------------------------
(***************************************************************************)
(* A small instance of Mesh for TLC: one browser is in the room already,   *)
(* any, since nothing tells them apart.                                    *)
(***************************************************************************)
EXTENDS MeshProperties

First == CHOOSE b \in Browser : TRUE

(* Init, after Join(First). *)
Opened ==
    /\ left = {}
    /\ sockets = [b \in Browser |-> IF b = First THEN 1 ELSE 0]
    /\ online = [b \in Browser |-> IF b = First THEN <<b, 1>> ELSE None]
    /\ inbox = [b \in Browser |-> IF b = First THEN <<Welcome({})>> ELSE << >>]
    /\ room = {<<First, 1>>}
    /\ pcs = [b \in Browser |-> << >>]
    /\ connections = [b \in Browser |-> Nobody]
    /\ channels = [b \in Browser |-> Nobody]
    /\ pendingIce = [b \in Browser |-> Nobody]
    /\ awaiting = {}
    /\ overwritten = {}
    /\ deaf = {}
    /\ troubles = 0

SecondJoins == Opened /\ [][Next]_vars /\ Fairness
===============================================================================
