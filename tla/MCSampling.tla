------------------------------ MODULE MCSampling ------------------------------
(* Sampling with Spectrum on small instances: the ADC reads either sign, and   *)
(* the test of the memory begins and ends in the middle of a word.            *)
EXTENDS Spectrum

MCSamples == {-1, 2}
MCHkBytes == [b \in 3 .. 6 |-> 40 * b]
=============================================================================
