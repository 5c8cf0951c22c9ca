------------------------------- MODULE MCIngest -------------------------------
(* Instances of Ingest for TLC. *)
EXTENDS Ingest, TLC

CONSTANTS x, y, s1, s2, s3, i1, i2, i3, garbled, torn, bad, worse

(* Adapter x has two sources that share an item, y has one that is read    *)
(* newest first, and skips what it cannot parse.                           *)
MCSourcesOf == (x :> <<s1, s2>>) @@ (y :> <<s3>>)
MCMail == (s1 :> <<bad, i1, i2>>) @@ (s2 :> <<garbled, i1>>)
          @@ (s3 :> <<torn, i3, worse>>)

(* A mailbox that cannot be read before one that can.                      *)
MCOutageSources == x :> <<s1, s2>>
MCOutageMail == (s1 :> <<>>) @@ (s2 :> <<i2>>)
=============================================================================
