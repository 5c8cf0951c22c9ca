------------------------------ MODULE MCDocuments ------------------------------
(* Instances of Documents for TLC: of three embeddings, the middle one is  *)
(* similar to both others.                                                 *)
EXTENDS Documents

CONSTANTS p, s, u

MCOrder   == <<p, s>>
MCRowCaps == [place \in {"routine", "filtered", "vault"} |->
                IF place = "filtered" THEN 2 ELSE 1]
MCVectors == {<<4, 1>>, <<3, 3>>, <<1, 4>>}
=============================================================================
