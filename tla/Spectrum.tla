------------------------------- MODULE Spectrum -------------------------------
(***************************************************************************)
(* Sampling with the transform itself: the points in the SPI memory from      *)
(* MEM_FFT_BEGIN on, stored in bit-reversed order by decimate_and_store and    *)
(* transformed in place by FFT_calculate, one butterfly after the other, while *)
(* interrupt and cspTask go on.                                              *)
(*                                                                         *)
(* A point is a number modulo Modulus, and Omega stands for the root of unity *)
(* of the table sincos: the program only adds, subtracts and multiplies, so it *)
(* transforms complex numbers if it transforms these.  (The tables are what    *)
(* their names say, for all 512 points.)  Rounding is left out.               *)
(***************************************************************************)
EXTENDS Sampling

CONSTANTS
    Modulus,   \* a prime
    Omega      \* a root of unity of order Points: cos(w) + i sin(w)

PointNrs == 0 .. Points - 1
Values == 0 .. Modulus - 1

(* The tables sincos, by pairs, and bitrev.                                   *)
Power[e \in 0 .. Points] == IF e = 0 THEN 1 ELSE (Power[e - 1] * Omega) % Modulus
BitRev[i \in PointNrs] ==
    IF i = 0 THEN 0 ELSE BitRev[i \div 2] \div 2 + (i % 2) * (Points \div 2)

ASSUME SpectrumAssumption ==
    /\ Modulus \in Nat \ {0, 1} /\ Omega \in Values
    /\ \A d \in 2 .. Points : Points % d = 0 => d % 2 = 0   \* a power of two
    /\ Power[Points \div 2] = Modulus - 1

VARIABLES
    mem,    \* SPI memory from MEM_FFT_BEGIN, by points
    loop    \* the local variables of FFT_calculate; a is the point pointer_A is
            \* at (pointer_B is n behind it), fnk the pair of the table

spectrumVars == <<vars, mem, loop>>

LoopStart == [n |-> 1, k |-> 0, s |-> 0, angf |-> Points \div 2, a |-> 0, fnk |-> 0]

SpectrumInit == Init /\ mem = [i \in PointNrs |-> Unknown % Modulus] /\ loop = LoopStart

-----------------------------------------------------------------------------
(* decimate_and_store, and the start of FFT_calculate.                        *)
Store ==
    /\ Decimate
    /\ mem' = [i \in PointNrs |-> fft'[BitRev[i]] % Modulus]
    /\ loop' = LoopStart

(* Mutant: the table is gone through in steps of one.                         *)
NextDistanceByOne(l) ==
    [l EXCEPT !.k = @ + 1, !.s = 0, !.a = @ + 2 * l.n - (Points - 1), !.fnk = @ + 1]

(* The three loops: groups, distances, iterations.                            *)
NextGroup(l) == [l EXCEPT !.s = @ + 1, !.a = @ + 2 * l.n]
NextDistance(l) ==
    [l EXCEPT !.k = @ + 1, !.s = 0, !.a = @ + 2 * l.n - (Points - 1), !.fnk = @ + l.angf]
NextIteration(l) ==
    [n |-> 2 * l.n, k |-> 0, s |-> 0, angf |-> l.angf \div 2, a |-> 0, fnk |-> 0]
Onward(l) ==
    IF l.s + 1 < l.angf THEN NextGroup(l)
    ELSE IF l.k + 1 < l.n THEN NextDistance(l) ELSE NextIteration(l)

(* One butterfly: two points are read, combined and written back.             *)
Butterfly ==
    /\ pc = "calculate" /\ loop.n < Points
    /\ LET b == loop.a + loop.n
           C == mem[b] * Power[loop.fnk]
       IN mem' = [mem EXCEPT ![loop.a] = (@ + C) % Modulus,
                             ![b] = (mem[loop.a] - C) % Modulus]
    /\ loop' = Onward(loop)
    /\ UNCHANGED vars

(* FFT_calculate returns.                                                    *)
Calculated == loop.n >= Points /\ Calculate /\ UNCHANGED <<mem, loop>>

Other == (MainTask /\ pc \notin {"decimate", "calculate"}) /\ UNCHANGED <<mem, loop>>

SpectrumTask == Store \/ Butterfly \/ Calculated \/ Other

SpectrumNext ==
    \/ SpectrumTask
    \/ (Interrupt \/ CspTask \/ Idle) /\ UNCHANGED <<mem, loop>>

SpectrumSpec ==
    /\ SpectrumInit /\ [][SpectrumNext]_spectrumVars
    /\ WF_vars(Interrupt) /\ WF_spectrumVars(SpectrumTask)

-----------------------------------------------------------------------------
(* The sum of the numbers x[0], x[1], ... x[n - 1].                            *)
Sum(x, n) ==
    LET upTo[k \in 0 .. n] == IF k = 0 THEN 0 ELSE upTo[k - 1] + x[k - 1]
    IN upTo[n]

(* The discrete Fourier transform of n numbers x[0], x[1], ...; its root of    *)
(* unity is Omega to the power of Points / n.                                 *)
Transform(x, n) ==
    [i \in 0 .. n - 1 |->
        Sum([j \in 0 .. n - 1 |-> x[j] * Power[(i * j * (Points \div n)) % Points]], n)
            % Modulus]

(* The loop invariants of FFT_calculate.  The pointers, which are only ever    *)
(* moved by differences, stay inside the area of the transform and the table;  *)
(* and at the beginning of every iteration, and after the last, each block of  *)
(* n points holds the transform of every (Points / n)-th point of the input:   *)
(* the reason why the butterflies, in place, and their order are right.       *)
PointersStay ==
    /\ mem \in [PointNrs -> Values]
    /\ loop.n \in 1 .. Points
    /\ loop.n < Points => loop.a >= 0 /\ loop.a + loop.n < Points
                          /\ loop.fnk \in 0 .. Points \div 2

BlocksAreTransforms ==
    pc = "calculate" /\ loop.k = 0 /\ loop.s = 0 =>
        LET n == loop.n
            part(c) == [j \in 0 .. n - 1 |-> fft[BitRev[c * n] + j * (Points \div n)]]
        IN \A c \in 0 .. (Points \div n) - 1, i \in 0 .. n - 1 :
               mem[c * n + i] = Transform(part(c), n)[i]

LoopInvariant == PointersStay /\ BlocksAreTransforms

(* What sendFFT reads, once there has been a measurement, is the transform of  *)
(* the latest one, decimated and less its mean, whatever came before and in     *)
(* between: count_TCD0 and signal_offset start from zero each time, though only *)
(* the interrupt resets signal_offset.                                       *)
ReadsTransformOfLatest ==
    pc = "readFFT" /\ fftIs # "unknown" =>
        LET word == [i \in Index |-> taken[i + 1]]
        IN mem = Transform(Decimated(word, Quotient(Sum(word, Length), Length)), Points)
=============================================================================
