-------------------------------- MODULE MCFiles --------------------------------
(* Instances of Files for TLC: two jobs of every kind, or two requests.    *)
EXTENDS Files, TLC

CONSTANTS b1, b2, w1, w2, g1, g2, p1, p2

MCKindOf == (b1 :> "brief") @@ (b2 :> "brief")
            @@ (w1 :> "wiki") @@ (w2 :> "wiki") @@ (g1 :> "get") @@ (g2 :> "get")
            @@ (p1 :> "put") @@ (p2 :> "put")
MCDeployments == {{"brief"}, {"get"}, {"wiki"}, {"put"}}

MCGets == (g1 :> "get") @@ (g2 :> "get")
=============================================================================
