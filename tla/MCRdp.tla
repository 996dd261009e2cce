-------------------------------- MODULE MCRdp --------------------------------
(* Rdp on small instances: the sequence numbers of the client wrap.           *)
EXTENDS Rdp

MCRand == [e \in Ends |-> [n \in SeqNrs |->
    IF e = "client" THEN IF n = SeqMod - 2 THEN 5 ELSE SeqMod - 2
    ELSE IF n = 1 THEN 8 ELSE 1]]
=============================================================================
