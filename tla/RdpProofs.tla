------------------------------- MODULE RdpProofs -------------------------------
(***************************************************************************)
(* Theorems about Rdp, for every window, every length of the receive queue,   *)
(* every number of sequence numbers and whatever the network does.            *)
(***************************************************************************)
EXTENDS Rdp, QueueLemmas

Half == SeqMod \div 2

(* Sequence numbers: what is less than a whole turn wraps at most once.       *)
LEMMA ConstantFacts ==
    /\ SeqMod \in Nat \ {0} /\ Half \in Nat /\ SeqMod = 2 * Half
    /\ Window \in Nat \ {0} /\ Half >= 2 * Window + 2
    /\ AckCount \in Nat /\ RxqLen \in Nat \ {0}
    /\ TxqLen \in Nat /\ TxqLen >= Window + 2
    /\ SeqNrs = 0 .. SeqMod - 1
BY RdpAssumption DEF Half, SeqNrs

LEMMA OnceRound ==
    ASSUME NEW M \in Nat \ {0}, NEW x \in -M .. 2 * M - 1
    PROVE  /\ x % M \in 0 .. M - 1
           /\ x < 0 => x % M = x + M
           /\ x >= 0 /\ x < M => x % M = x
           /\ x >= M => x % M = x - M
  OBVIOUS

LEMMA PlusType == \A a, b \in Int : Plus(a, b) \in SeqNrs
BY ConstantFacts DEF Plus

(* How far b is behind a.                                                    *)
Gap(a, b) == (a - b) % SeqMod

LEMMA GapFacts ==
    ASSUME NEW a \in SeqNrs, NEW b \in SeqNrs
    PROVE  /\ Gap(a, b) \in SeqNrs
           /\ Gap(a, b) = IF a >= b THEN a - b ELSE a - b + SeqMod
           /\ Before(a, b) <=> Gap(a, b) >= Half
<1>1. SeqMod \in Nat \ {0} /\ SeqNrs = 0 .. SeqMod - 1
  BY ConstantFacts
<1>2. PICK M \in Nat \ {0}, x \in Int : x \in -M .. 2 * M - 1 /\ M = SeqMod /\ x = a - b
  BY <1>1
<1>3. /\ x % M \in 0 .. M - 1
      /\ x < 0 => x % M = x + M
      /\ x >= 0 /\ x < M => x % M = x
  BY ONLY <1>2, OnceRound
<1> QED
  BY <1>1, <1>2, <1>3 DEF Gap, Before, Half

LEMMA SameGap ==
    ASSUME NEW a \in SeqNrs, NEW b \in SeqNrs, NEW d \in SeqNrs,
           Gap(a, b) = Gap(a, d) \/ Gap(b, a) = Gap(d, a)
    PROVE  b = d
<1>1. /\ Gap(a, b) = IF a >= b THEN a - b ELSE a - b + SeqMod
      /\ Gap(a, d) = IF a >= d THEN a - d ELSE a - d + SeqMod
      /\ Gap(b, a) = IF b >= a THEN b - a ELSE b - a + SeqMod
      /\ Gap(d, a) = IF d >= a THEN d - a ELSE d - a + SeqMod
  BY GapFacts
<1> QED
  BY <1>1, ConstantFacts

LEMMA PlusFacts ==
    ASSUME NEW a \in SeqNrs, NEW k \in 0 .. SeqMod - 1
    PROVE  /\ Plus(a, k) \in SeqNrs
           /\ Plus(a, k) = IF a + k < SeqMod THEN a + k ELSE a + k - SeqMod
<1>1. SeqMod \in Nat \ {0} /\ SeqNrs = 0 .. SeqMod - 1
  BY ConstantFacts
<1>2. PICK M \in Nat \ {0}, x \in Int : x \in -M .. 2 * M - 1 /\ M = SeqMod /\ x = a + k
  BY <1>1
<1>3. /\ x % M \in 0 .. M - 1
      /\ x >= 0 /\ x < M => x % M = x
      /\ x >= M => x % M = x - M
  BY ONLY <1>2, OnceRound
<1> QED
  BY <1>1, <1>2, <1>3 DEF Plus

LEMMA NextNr ==
    ASSUME NEW n \in SeqNrs
    PROVE  /\ Plus(n, 1) \in SeqNrs
           /\ Plus(n, 1) = IF n + 1 < SeqMod THEN n + 1 ELSE n + 1 - SeqMod
<1>1. 1 \in 0 .. SeqMod - 1
  BY ConstantFacts
<1> QED
  BY <1>1, PlusFacts

-----------------------------------------------------------------------------
(* The inductive invariant.                                                  *)

(* How far the packets of tx_queue are behind snd_nxt.                        *)
Span == IF Window = 1 THEN 3 ELSE 2 * Window
Lag(c, q) == Gap(c.nxt, q.seq)

ShapeOK(c) ==
    /\ c \in Connection /\ Len(c.rxq) <= RxqLen
    /\ c.open <=> c.state # "CLOSED"

(* Every packet of tx_queue has a number of its own, and few enough of them    *)
(* fit behind snd_nxt; a user that has been woken finds less than a window.    *)
TxOK(e, c, u) ==
    /\ IsFiniteSet(c.tx) /\ Cardinality(c.tx) <= Window + 2
    /\ \A q \in c.tx : Lag(c, q) \in 1 .. Span
    /\ \A q, r \in c.tx : q.seq = r.seq => q = r
    /\ c.state = "CLOSED" => c.tx = {}
    /\ c.state = "SYN_RCVD" => /\ e = "server" /\ c.nxt = Plus(c.iss, 1)
                               /\ c.tx \subseteq {SynAck(e, c)}
    /\ e = "client" /\ u \in {"open", "window"} => c.state # "SYN_SENT"
    /\ e = "client" /\ u = "window" /\ c.wake =>
         Cardinality(c.tx) < Window /\ \A q \in c.tx : Lag(c, q) < Span

(* What the router leaves behind: tx_queue goes no further back than the       *)
(* packets in flight, even if a reset has moved snd_una beyond snd_nxt.        *)
FlightOK(e, c, u) ==
    c.state = "OPEN" =>
        /\ InFlight(c) <= Window + 1 => \A q \in c.tx : Lag(c, q) <= InFlight(c) + 1
        /\ e = "client" /\ u = "window" /\ c.wake /\ InFlight(c) = SeqMod - 1 => c.tx = {}

HeldOK(c) ==
    /\ c.state \in {"CLOSED", "SYN_SENT", "SYN_RCVD"} => c.held = {}
    /\ c.state = "OPEN" =>
        /\ \A q \in c.held : Gap(q.seq, c.cur) \in 2 .. 2 * Window
        /\ \A q, r \in c.held : q.seq = r.seq => q = r

Sound(e, c, u) == ShapeOK(c) /\ TxOK(e, c, u) /\ HeldOK(c)

EndOK(e) == Sound(e, conn[e], user[e]) /\ FlightOK(e, conn[e], user[e])

WorkOK ==
    /\ user \in [Ends -> {"start", "connecting", "retrying", "open", "window", "closed"}]
    /\ net \subseteq Packet
    /\ turns \in 0 .. MaxWork
    /\ sent \in 0 .. MaxData
    /\ got \in Seq(1 .. MaxData)

Inv == conn \in [Ends -> Connection] /\ (\A e \in Ends : EndOK(e)) /\ WorkOK

-----------------------------------------------------------------------------
LEMMA SpanFacts ==
    /\ Span \in Nat /\ Span >= 2 /\ Span >= Window + 2 /\ Span < Half /\ Span >= 2 * Window
    /\ Window >= 2 => Span = 2 * Window
BY ConstantFacts DEF Span

LEMMA FlightFacts ==
    ASSUME NEW c \in Connection
    PROVE  /\ InFlight(c) \in 0 .. SeqMod - 1
           /\ Gap(c.nxt, c.una) + 1 < SeqMod => InFlight(c) = Gap(c.nxt, c.una) + 1
           /\ Gap(c.nxt, c.una) + 1 = SeqMod => InFlight(c) = 0
<1>1. SeqMod \in Nat \ {0} /\ SeqNrs = 0 .. SeqMod - 1
  BY ConstantFacts
<1>2. PICK a \in SeqNrs, b \in SeqNrs : a = c.nxt /\ b = c.una
  BY DEF Connection
<1>3. Gap(a, b) = IF a >= b THEN a - b ELSE a - b + SeqMod
  BY GapFacts
<1>4. PICK M \in Nat \ {0}, x \in Int : x \in -M .. 2 * M - 1 /\ M = SeqMod /\ x = a - b + 1
  BY <1>1
<1>5. /\ x % M \in 0 .. M - 1
      /\ x < 0 => x % M = x + M
      /\ x >= 0 /\ x < M => x % M = x
      /\ x >= M => x % M = x - M
  BY ONLY <1>4, OnceRound
<1>6. InFlight(c) = x % M /\ Gap(c.nxt, c.una) = Gap(a, b)
  BY <1>2, <1>4 DEF InFlight
<1>7. PICK g \in Int, y \in Int : g = Gap(a, b) /\ y = x % M
  BY <1>1, <1>2, <1>3, <1>4, <1>5
<1>8. /\ y \in 0 .. M - 1 /\ (g + 1 < M => y = g + 1) /\ (g + 1 = M => y = 0)
  <2>1. a \in 0 .. M - 1 /\ b \in 0 .. M - 1
    BY <1>1, <1>4
  <2>2. g = IF a >= b THEN a - b ELSE a - b + M
    BY <1>3, <1>4, <1>7
  <2> QED
    BY <1>4, <1>5, <1>7, <2>1, <2>2
<1> QED
  BY <1>4, <1>6, <1>7, <1>8

(* The packets of a queue in which each lags by another number, of k at most.  *)
LEMMA FewLags ==
    ASSUME NEW c \in Connection, NEW k \in Nat, \A q \in c.tx : Lag(c, q) \in 1 .. k,
           \A q, r \in c.tx : q.seq = r.seq => q = r
    PROVE  IsFiniteSet(c.tx) /\ Cardinality(c.tx) <= k
<1> DEFINE f == [q \in c.tx |-> Lag(c, q)]
<1>1. c.nxt \in SeqNrs /\ \A q \in c.tx : q.seq \in SeqNrs
  BY DEF Connection, Packet
<1>2. \A q, r \in c.tx : Lag(c, q) = Lag(c, r) => q = r
  BY <1>1, SameGap DEF Lag
<1>3. f \in Injection(c.tx, 1 .. k)
  BY <1>2 DEF Injection, IsInjective
<1>4. IsFiniteSet(1 .. k) /\ Cardinality(1 .. k) = k
  BY FS_Interval
<1> QED
  BY <1>3, <1>4, FS_Injection DEF ExistsInjection

LEMMA TxLess ==
    ASSUME NEW e, NEW u, NEW v, NEW c \in Connection, NEW d \in Connection, TxOK(e, c, u),
           d.tx \subseteq c.tx, d.nxt = c.nxt, d.state = "CLOSED" => d.tx = {},
           d.state = "SYN_RCVD" => c.state = "SYN_RCVD" /\ d.iss = c.iss /\ d.irs = c.irs,
           e = "client" /\ v \in {"open", "window"} => d.state # "SYN_SENT",
           e = "client" /\ v = "window" /\ d.wake => u = "window" /\ c.wake
    PROVE  TxOK(e, d, v)
<1>1. PICK S, T : S = c.tx /\ T = d.tx
  OBVIOUS
<1>2. IsFiniteSet(S) /\ Cardinality(S) <= Window + 2 /\ T \in SUBSET S
  BY <1>1 DEF TxOK
<1>3. /\ IsFiniteSet(T) /\ Cardinality(T) <= Cardinality(S)
      /\ Cardinality(S) \in Nat /\ Cardinality(T) \in Nat
  BY ONLY <1>2, FS_Subset, FS_CardinalityType
<1>4. IsFiniteSet(T) /\ Cardinality(T) <= Window + 2
  BY <1>2, <1>3, ConstantFacts
<1>5. /\ \A q \in T : Lag(d, q) \in 1 .. Span
      /\ \A q, r \in T : q.seq = r.seq => q = r
  BY <1>1, <1>2 DEF TxOK, Lag
<1>6. d.state = "SYN_RCVD" => /\ e = "server" /\ d.nxt = Plus(d.iss, 1)
                              /\ T \subseteq {SynAck(e, d)}
  BY <1>1 DEF TxOK, SynAck
<1>7. e = "client" /\ v = "window" /\ d.wake =>
        Cardinality(T) < Window /\ \A q \in T : Lag(d, q) < Span
  <2> SUFFICES ASSUME e = "client", u = "window", c.wake
               PROVE  Cardinality(T) < Window /\ \A q \in T : Lag(d, q) < Span
    OBVIOUS
  <2>1. Cardinality(S) < Window /\ \A q \in S : Lag(c, q) < Span
    BY <1>1 DEF TxOK
  <2> QED
    BY <1>2, <1>3, <2>1, ConstantFacts DEF Lag
<1> QED
  BY <1>1, <1>4, <1>5, <1>6, <1>7 DEF TxOK

LEMMA HeldLess ==
    ASSUME NEW c, NEW d, HeldOK(c), d.held \subseteq c.held, d.cur = c.cur,
           d.state \in {"CLOSED", "SYN_SENT", "SYN_RCVD"} => d.held = {},
           d.state = "OPEN" => c.state \in {"OPEN", "SYN_SENT", "SYN_RCVD"}
    PROVE  HeldOK(d)
BY DEF HeldOK

(* The copies of a SYN/ACK count as well.                                     *)
LEMMA TxSizeFacts ==
    ASSUME NEW c \in Connection, IsFiniteSet(c.tx)
    PROVE  /\ Cardinality(c.tx) \in Nat /\ c.copies \in Nat /\ TxSize(c) \in Nat
           /\ TxSize(c) = Cardinality(c.tx) + c.copies
<1>1. Cardinality(c.tx) \in Nat
  BY FS_CardinalityType
<1>2. c.copies \in Nat
  BY DEF Connection
<1> QED
  BY <1>1, <1>2 DEF TxSize

(* With what has been acknowledged gone, the packets left are in flight.       *)
LEMMA FlightHolds ==
    ASSUME NEW e, NEW u, NEW c \in Connection, TxOK(e, c, u),
           \A q \in c.tx : ~Before(q.seq, c.una)
    PROVE  /\ FlightOK(e, c, u)
           /\ Ready(c) => Cardinality(c.tx) < Window /\ \A q \in c.tx : Lag(c, q) < Span
<1>1. c.nxt \in SeqNrs /\ c.una \in SeqNrs /\ \A q \in c.tx : q.seq \in SeqNrs
  BY DEF Connection, Packet
<1>2. PICK g \in SeqNrs : g = Gap(c.nxt, c.una)
  BY <1>1, GapFacts
<1>3. PICK j \in 0 .. SeqMod - 1 : /\ j = InFlight(c)
                                   /\ g + 1 < SeqMod => j = g + 1
                                   /\ g + 1 = SeqMod => j = 0
  BY <1>2, FlightFacts
<1>4. ASSUME NEW q \in c.tx
      PROVE  \E d \in 1 .. Span : d = Lag(c, q) /\ (d > g => d > g + Half) /\ (d <= g => g - d < Half)
  <2>1. PICK n \in SeqNrs, a \in SeqNrs, s \in SeqNrs : n = c.nxt /\ a = c.una /\ s = q.seq
    BY <1>1
  <2>2. PICK z \in SeqNrs : z = Gap(s, a) /\ z < Half
    <3>1. Gap(s, a) \in SeqNrs /\ ~(Gap(s, a) >= Half)
      BY <1>4, <2>1, GapFacts
    <3> QED
      BY <3>1, ConstantFacts
  <2>3. PICK d \in 1 .. Span : d = Lag(c, q)
    BY DEF TxOK
  <2>4. /\ d = IF n >= s THEN n - s ELSE n - s + SeqMod
        /\ g = IF n >= a THEN n - a ELSE n - a + SeqMod
        /\ z = IF s >= a THEN s - a ELSE s - a + SeqMod
    BY <1>2, <2>1, <2>2, <2>3, GapFacts DEF Lag
  <2>5. PICK M \in Nat, h \in Nat : M = SeqMod /\ h = Half /\ M = 2 * h
    BY ConstantFacts
  <2>6. /\ n \in 0 .. M - 1 /\ a \in 0 .. M - 1 /\ s \in 0 .. M - 1 /\ g \in 0 .. M - 1
        /\ d \in 1 .. M - 1 /\ z < h
    BY <2>2, <2>3, <2>5, ConstantFacts, SpanFacts, SMTT(30)
  <2>7. (d > g => d > g + h) /\ (d <= g => g - d < h)
    BY <2>4, <2>5, <2>6
  <2> QED
    BY <2>3, <2>5, <2>7
<1>5. ASSUME c.state = "OPEN"
      PROVE  /\ j <= Window + 1 => \A q \in c.tx : Lag(c, q) <= j + 1
             /\ e = "client" /\ u = "window" /\ c.wake /\ j = SeqMod - 1 => c.tx = {}
  <2>1. ASSUME NEW q \in c.tx, j <= Window + 1 PROVE Lag(c, q) <= j + 1
    <3>1. PICK d \in 1 .. Span : d = Lag(c, q) /\ (d > g => d > g + Half) /\ (d <= g => g - d < Half)
      BY <1>4
    <3> QED
      BY <1>2, <1>3, <2>1, <3>1, ConstantFacts, SpanFacts
  <2>2. ASSUME e = "client", u = "window", c.wake, j = SeqMod - 1, NEW q \in c.tx PROVE FALSE
    <3>1. PICK d \in 1 .. Span : d = Lag(c, q) /\ (d > g => d > g + Half) /\ (d <= g => g - d < Half)
      BY <1>4
    <3>2. Cardinality(c.tx) < Window /\ IsFiniteSet(c.tx)
      BY <2>2 DEF TxOK
    <3>3. Window >= 2
      <4>1. Cardinality(c.tx) # 0 /\ Cardinality(c.tx) \in Nat
        BY <2>2, <3>2, FS_EmptySet, FS_CardinalityType
      <4> QED
        BY <3>2, <4>1, ConstantFacts
    <3> QED
      BY <1>2, <1>3, <2>2, <3>1, <3>3, ConstantFacts, SpanFacts
  <2> QED
    BY <2>1, <2>2
<1>6. ASSUME Ready(c) PROVE Cardinality(c.tx) < Window /\ \A q \in c.tx : Lag(c, q) < Span
  <2>1. Cardinality(c.tx) < Window /\ Before(c.nxt - c.una, 2 * Window)
    <3>1. TxSize(c) < Window /\ Before(c.nxt - c.una, 2 * Window)
      BY <1>6 DEF Ready
    <3> QED
      BY <3>1, TxSizeFacts, ConstantFacts DEF TxOK
  <2>2. ASSUME NEW q \in c.tx PROVE Lag(c, q) < Span
    <3>1. PICK d \in 1 .. Span : d = Lag(c, q) /\ (d > g => d > g + Half) /\ (d <= g => g - d < Half)
      BY <1>4
    <3>2. Window >= 2
      <4>1. Cardinality(c.tx) # 0 /\ Cardinality(c.tx) \in Nat
        BY FS_EmptySet, FS_CardinalityType DEF TxOK
      <4> QED
        BY <2>1, <4>1, ConstantFacts
    <3>3. g < 2 * Window \/ g >= 2 * Window + Half
      <4>1. PICK M \in Nat \ {0}, x \in Int : M = SeqMod /\ x = c.nxt - c.una - 2 * Window
        <5>1. PICK n \in Int, a \in Int, w \in Int : n = c.nxt /\ a = c.una /\ w = 2 * Window
          BY <1>1, ConstantFacts
        <5>2. n - a - w \in Int /\ SeqMod \in Nat \ {0}
          BY <5>1, ConstantFacts
        <5> QED
          BY <5>1, <5>2
      <4>2. x % M >= Half
        BY <2>1, <4>1 DEF Before, Half
      <4>3. g = IF c.nxt >= c.una THEN c.nxt - c.una ELSE c.nxt - c.una + SeqMod
        BY <1>1, <1>2, GapFacts
      <4>4. x = g - 2 * Window \/ x = g - 2 * Window - SeqMod
        BY <1>1, <4>1, <4>3, ConstantFacts
      <4>5. PICK G \in Int, H \in Nat, W \in Nat :
                   G = g /\ H = Half /\ W = Window /\ M = 2 * H /\ H >= 2 * W + 2 /\ G \in 0 .. M - 1
        BY <1>2, <4>1, ConstantFacts
      <4>6. CASE x \in -M .. 2 * M - 1
        <5>1. /\ x < 0 => x % M = x + M
              /\ x >= 0 /\ x < M => x % M = x
          BY ONLY <4>1, <4>6, OnceRound
        <5> QED
          BY <4>1, <4>2, <4>4, <4>5, <4>6, <5>1
      <4>7. CASE ~(x \in -M .. 2 * M - 1)
        BY <4>1, <4>4, <4>5, <4>7
      <4> QED
        BY <4>6, <4>7
    <3> QED
      BY <1>2, <3>1, <3>2, <3>3, ConstantFacts, SpanFacts
  <2> QED
    BY <2>1, <2>2
<1> QED
  BY <1>3, <1>5, <1>6 DEF FlightOK

-----------------------------------------------------------------------------
(* The packets an end makes.                                                 *)
LEMMA BareFacts ==
    ASSUME NEW e \in Ends, NEW f \in SUBSET Flags, NEW s \in SeqNrs, NEW a \in SeqNrs
    PROVE  Bare(e, f, s, a) \in Packet /\ Bare(e, f, s, a).seq = s
<1>1. 0 \in 0 .. MaxData
  BY RdpAssumption DEF MaxData
<1> QED
  BY <1>1 DEF Bare, Packet, Ends, Peer

LEMMA PacketFacts ==
    ASSUME NEW e \in Ends, NEW c \in Connection
    PROVE  /\ Ack(e, c) \in Packet /\ Eack(e, c) \in Packet /\ Reset(e, c) \in Packet
           /\ Syn(e, c) \in Packet /\ Syn(e, c).seq = c.iss
           /\ SynAck(e, c) \in Packet /\ SynAck(e, c).seq = c.iss
           /\ Bare(e, {"RST"}, c.nxt, c.cur) \in Packet
<1>1. c.nxt \in SeqNrs /\ c.cur \in SeqNrs /\ c.iss \in SeqNrs /\ c.irs \in SeqNrs /\ 0 \in SeqNrs
  BY ConstantFacts DEF Connection
<1>2. /\ Ack(e, c) \in Packet /\ Reset(e, c) \in Packet
      /\ Syn(e, c) \in Packet /\ Syn(e, c).seq = c.iss
      /\ SynAck(e, c) \in Packet /\ SynAck(e, c).seq = c.iss
      /\ Bare(e, {"RST"}, c.nxt, c.cur) \in Packet /\ Bare(e, {"ACK", "EAK"}, c.nxt, c.cur) \in Packet
  BY <1>1, BareFacts DEF Ack, Reset, Syn, SynAck, Flags
<1>3. Eack(e, c) \in Packet
  <2>1. {p.seq : p \in c.held} \in SUBSET SeqNrs
    BY DEF Connection, Packet
  <2> QED
    BY <1>2, <2>1 DEF Eack, Packet
<1> QED
  BY <1>2, <1>3

(* The clone of a SYN/ACK changes nothing but tx_queue.                        *)
LEMMA ClonedFacts ==
    ASSUME NEW e \in Ends, NEW c \in Connection
    PROVE  \E d \in Connection :
             /\ d = Cloned(e, c) /\ d.tx \subseteq c.tx \union {SynAck(e, c)}
             /\ SynAck(e, d) = SynAck(e, c) /\ d.open = c.open /\ d.state = c.state
             /\ d.posted = c.posted /\ d.iss = c.iss /\ d.irs = c.irs /\ d.nxt = c.nxt
             /\ d.una = c.una /\ d.cur = c.cur /\ d.lsa = c.lsa /\ d.held = c.held
             /\ d.rxq = c.rxq /\ d.wake = c.wake
<1>1. PICK s \in Packet : s = SynAck(e, c)
  BY PacketFacts
<1>2. CASE TxSize(c) = TxqLen
  BY <1>2 DEF Cloned
<1>3. CASE TxSize(c) # TxqLen /\ s \in c.tx
  <2>1. PICK d : d = [c EXCEPT !.copies = @ + 1]
    OBVIOUS
  <2>2. /\ d \in Connection /\ d.tx = c.tx /\ d.open = c.open /\ d.state = c.state
        /\ d.posted = c.posted /\ d.iss = c.iss /\ d.irs = c.irs /\ d.nxt = c.nxt
        /\ d.una = c.una /\ d.cur = c.cur /\ d.lsa = c.lsa /\ d.held = c.held
        /\ d.rxq = c.rxq /\ d.wake = c.wake
    BY <2>1 DEF Connection
  <2>3. d = Cloned(e, c)
    BY <1>1, <1>3, <2>1 DEF Cloned
  <2> QED
    BY <2>2, <2>3 DEF SynAck
<1>4. CASE TxSize(c) # TxqLen /\ s \notin c.tx
  <2>1. PICK d : d = [c EXCEPT !.tx = @ \union {s}]
    OBVIOUS
  <2>2. /\ d \in Connection /\ d.tx = c.tx \union {s} /\ d.open = c.open /\ d.state = c.state
        /\ d.posted = c.posted /\ d.iss = c.iss /\ d.irs = c.irs /\ d.nxt = c.nxt
        /\ d.una = c.una /\ d.cur = c.cur /\ d.lsa = c.lsa /\ d.held = c.held
        /\ d.rxq = c.rxq /\ d.wake = c.wake
    BY <2>1 DEF Connection
  <2>3. d = Cloned(e, c)
    BY <1>1, <1>4, <2>1 DEF Cloned
  <2> QED
    BY <1>1, <2>2, <2>3 DEF SynAck
<1> QED
  BY <1>2, <1>3, <1>4

(* Packets acknowledged leave tx_queue.                                       *)
LEMMA UnackedFacts ==
    ASSUME NEW c \in Connection
    PROVE  LET d == Unacked(c)
           IN /\ d \in Connection /\ d.tx = {q \in c.tx : ~Before(q.seq, c.una)}
              /\ d.copies = IF Before(c.iss, c.una) THEN 0 ELSE c.copies
              /\ d.open = c.open /\ d.state = c.state /\ d.posted = c.posted
              /\ d.queued = c.queued /\ d.iss = c.iss /\ d.irs = c.irs /\ d.nxt = c.nxt
              /\ d.una = c.una /\ d.cur = c.cur /\ d.lsa = c.lsa /\ d.held = c.held
              /\ d.rxq = c.rxq /\ d.wake = c.wake
<1>1. PICK k : k = IF Before(c.iss, c.una) THEN 0 ELSE c.copies
  OBVIOUS
<1>2. k \in Nat
  BY <1>1 DEF Connection
<1>3. Unacked(c) = [c EXCEPT !.tx = {q \in @ : ~Before(q.seq, c.una)}, !.copies = k]
  BY <1>1 DEF Unacked, Connection
<1> QED
  BY <1>1, <1>2, <1>3 DEF Connection

(* csp_rdp_check_timeouts leaves a connection in order, and its packets gone   *)
(* that have been acknowledged.                                              *)
LEMMA ServicedOK ==
    ASSUME NEW e \in Ends, NEW u, NEW c \in Connection, Sound(e, c, u), c.state # "CLOSED",
           NEW late, NEW early, NEW out \in SUBSET Packet,
           conn \in [Ends -> Connection], net \subseteq Packet,
           Serviced(e, c, late, early, out)
    PROVE  /\ \E d \in Connection : conn' = [conn EXCEPT ![e] = d] /\ Sound(e, d, u) /\ FlightOK(e, d, u)
           /\ net' \subseteq Packet
<1>1. PICK d : d = Unacked(c)
  OBVIOUS
<1>2. /\ d \in Connection /\ d.tx \subseteq c.tx /\ (\A q \in d.tx : ~Before(q.seq, d.una))
      /\ d.nxt = c.nxt /\ d.state = c.state /\ d.iss = c.iss /\ d.irs = c.irs /\ d.wake = c.wake
      /\ d.held = c.held /\ d.cur = c.cur /\ d.open = c.open /\ d.rxq = c.rxq
  BY <1>1, UnackedFacts
<1>3. TxOK(e, d, u)
  <2>1. TxOK(e, c, u)
    BY DEF Sound
  <2>2. e = "client" /\ u \in {"open", "window"} => d.state # "SYN_SENT"
    BY <1>2, <2>1 DEF TxOK
  <2> QED
    BY <1>2, <2>1, <2>2, TxLess
<1>4. HeldOK(d)
  BY <1>2, HeldLess DEF Sound, HeldOK
<1>5. PICK acks \in BOOLEAN : acks = AckDue(d, early)
  <2>1. AckDue(d, early) \in BOOLEAN
    BY DEF AckDue
  <2> QED
    BY <2>1
<1>6. PICK f : f = Woken(IF acks THEN Acking(d) ELSE d)
  OBVIOUS
<1>7. PICK g : g = IF acks THEN Acking(d) ELSE d
  OBVIOUS
<1>8. /\ g \in Connection /\ g.tx = d.tx /\ g.una = d.una /\ g.nxt = d.nxt /\ g.state = d.state
      /\ g.iss = d.iss /\ g.irs = d.irs /\ g.wake = d.wake /\ g.held = d.held /\ g.cur = d.cur
      /\ g.open = d.open /\ g.rxq = d.rxq
  BY <1>2, <1>7 DEF Acking, Connection
<1>9. /\ f \in Connection /\ f.tx = g.tx /\ f.una = g.una /\ f.nxt = g.nxt /\ f.state = g.state
      /\ f.iss = g.iss /\ f.irs = g.irs /\ f.wake = (g.wake \/ Ready(g)) /\ f.held = g.held
      /\ f.cur = g.cur /\ f.open = g.open /\ f.rxq = g.rxq
  <2>1. PICK w \in BOOLEAN : w = (g.wake \/ Ready(g))
    <3>1. (g.wake \/ Ready(g)) \in BOOLEAN
      BY <1>8 DEF Connection, Ready
    <3> QED
      BY <3>1
  <2>2. f = [g EXCEPT !.wake = w]
    BY <1>6, <1>7, <2>1 DEF Woken
  <2>3. f \in Connection
    BY <1>8, <2>2 DEF Connection
  <2>4. /\ f.tx = g.tx /\ f.una = g.una /\ f.nxt = g.nxt /\ f.state = g.state
        /\ f.iss = g.iss /\ f.irs = g.irs /\ f.wake = w /\ f.held = g.held
        /\ f.cur = g.cur /\ f.open = g.open /\ f.rxq = g.rxq
    BY <1>8, <2>2 DEF Connection
  <2> QED
    BY <2>1, <2>3, <2>4
<1>10. TxOK(e, g, u) /\ HeldOK(g)
  BY <1>3, <1>4, <1>8 DEF TxOK, HeldOK, Lag, SynAck
<1>11. Ready(g) => Cardinality(g.tx) < Window /\ \A q \in g.tx : Lag(g, q) < Span
  BY <1>2, <1>8, <1>10, FlightHolds
<1>12. TxOK(e, f, u)
  BY <1>8, <1>9, <1>10, <1>11 DEF TxOK, Lag, SynAck
<1>13. FlightOK(e, f, u)
  BY <1>2, <1>8, <1>9, <1>12, FlightHolds
<1>14. Sound(e, f, u)
  BY <1>2, <1>8, <1>9, <1>10, <1>12, HeldLess DEF Sound, ShapeOK, HeldOK
<1>15. conn' = [conn EXCEPT ![e] = f]
  BY <1>1, <1>5, <1>6 DEF Serviced, Becomes
<1>16. net' \subseteq Packet
  <2>1. ASSUME NEW q \in d.tx PROVE [q EXCEPT !.ack = d.cur] \in Packet
    <3>1. PICK a \in SeqNrs : a = d.cur
      BY <1>2 DEF Connection
    <3>2. q \in Packet
      BY <1>2, <2>1 DEF Connection
    <3>3. [q EXCEPT !.ack = a] \in Packet
      BY <3>1, <3>2 DEF Packet
    <3> QED
      BY <3>1, <3>3
  <2>2. Ack(e, d) \in Packet
    BY <1>2, PacketFacts
  <2> QED
    BY <1>1, <2>1, <2>2 DEF Serviced, Becomes
<1> QED
  BY <1>9, <1>13, <1>14, <1>15, <1>16

(* The invariant, when one end changes.                                      *)
LEMMA OneEnd ==
    ASSUME Inv, NEW e \in Ends, NEW d \in Connection, conn' = [conn EXCEPT ![e] = d],
           \A o \in Ends \ {e} : user'[o] = user[o],
           Sound(e, d, user'[e]), FlightOK(e, d, user'[e]), WorkOK'
    PROVE  Inv'
<1>1. conn' \in [Ends -> Connection] /\ conn'[e] = d /\ \A o \in Ends \ {e} : conn'[o] = conn[o]
  BY DEF Inv
<1>2. EndOK(e)'
  BY <1>1 DEF EndOK, Sound, ShapeOK, TxOK, HeldOK, FlightOK
<1>3. ASSUME NEW o \in Ends \ {e} PROVE EndOK(o)'
  <2>1. EndOK(o) /\ conn'[o] = conn[o] /\ user'[o] = user[o]
    BY <1>1 DEF Inv
  <2> QED
    BY <2>1 DEF EndOK, Sound, ShapeOK, TxOK, HeldOK, FlightOK
<1> QED
  BY <1>1, <1>2, <1>3 DEF Inv

LEMMA TakeOK ==
    ASSUME Inv, NEW e \in Ends, NEW c \in Connection, NEW out \in SUBSET Packet,
           Sound(e, c, user[e]), Take(e, c, out)
    PROVE  Inv'
<1>1. conn \in [Ends -> Connection] /\ net \subseteq Packet /\ WorkOK
  BY DEF Inv, WorkOK
<1>2. user' = user /\ turns' = turns /\ sent' = sent /\ got' = got
  BY DEF Take
<1>3. \E d \in Connection : /\ conn' = [conn EXCEPT ![e] = d]
                            /\ Sound(e, d, user[e]) /\ FlightOK(e, d, user[e])
                            /\ net' \subseteq Packet
  <2>1. CASE c.open /\ c.state # "CLOSE_WAIT"
    <3>1. Serviced(e, c, {}, FALSE, out) /\ c.state # "CLOSED"
      BY <2>1 DEF Take, Sound, ShapeOK
    <3> QED
      BY <1>1, <3>1, ServicedOK
  <2>2. CASE ~(c.open /\ c.state # "CLOSE_WAIT")
    <3>1. Becomes(e, c, out)
      BY <2>2 DEF Take
    <3>2. FlightOK(e, c, user[e])
      BY <2>2 DEF FlightOK, Sound, ShapeOK
    <3> QED
      BY <1>1, <3>1, <3>2 DEF Becomes
  <2> QED
    BY <2>1, <2>2
<1>4. PICK d \in Connection : /\ conn' = [conn EXCEPT ![e] = d]
                              /\ Sound(e, d, user[e]) /\ FlightOK(e, d, user[e])
                              /\ net' \subseteq Packet
  BY <1>3
<1>5. WorkOK'
  BY <1>1, <1>2, <1>4 DEF WorkOK
<1> QED
  BY <1>2, <1>4, <1>5, OneEnd

-----------------------------------------------------------------------------
(* What a step may do to a connection and leave it in order.                  *)
LEMMA SoundAlike ==
    ASSUME NEW e, NEW u, NEW v, NEW c \in Connection, NEW d \in Connection, Sound(e, c, u),
           d.tx \subseteq c.tx, d.nxt = c.nxt, d.iss = c.iss, d.irs = c.irs,
           d.held \subseteq c.held, d.cur = c.cur, d.open = c.open, Len(d.rxq) <= RxqLen,
           d.wake => c.wake,
           \/ d.state = c.state
           \/ d.state = "OPEN" /\ c.state = "SYN_RCVD"
           \/ d.state = "CLOSE_WAIT" /\ c.state # "CLOSED",
           v = u \/ (e = "client" => v # "window" /\ (d.state = "SYN_SENT" => v # "open"))
    PROVE  Sound(e, d, v)
<1>1. TxOK(e, c, u) /\ HeldOK(c) /\ ShapeOK(c)
  BY DEF Sound
<1>2. TxOK(e, d, v)
  <2>1. d.state = "CLOSED" => d.tx = {}
    BY <1>1 DEF TxOK
  <2>2. d.state = "SYN_RCVD" => c.state = "SYN_RCVD"
    OBVIOUS
  <2>3. e = "client" /\ v \in {"open", "window"} => d.state # "SYN_SENT"
    BY <1>1 DEF TxOK
  <2>4. e = "client" /\ v = "window" /\ d.wake => u = "window" /\ c.wake
    OBVIOUS
  <2> QED
    BY <1>1, <2>1, <2>2, <2>3, <2>4, TxLess
<1>3. HeldOK(d)
  BY <1>1, HeldLess DEF HeldOK
<1>4. ShapeOK(d)
  BY <1>1 DEF ShapeOK
<1> QED
  BY <1>2, <1>3, <1>4 DEF Sound

(* csp_close of a connection that is closing, or closed already.               *)
LEMMA ClearedOK ==
    ASSUME NEW e \in Ends, NEW v, NEW c \in Connection, ~Lingers(c)
    PROVE  Closed(c) \in Connection /\ Sound(e, Closed(c), v) /\ FlightOK(e, Closed(c), v)
<1>1. PICK d : d = Closed(c)
  OBVIOUS
<1>2. /\ d \in Connection /\ d.tx = {} /\ d.held = {} /\ d.open = FALSE /\ d.rxq = <<>>
      /\ d.state = "CLOSED"
  <2>1. <<>> \in Seq(0 .. MaxData)
    BY EmptySeq
  <2>2. d = [c EXCEPT !.open = FALSE, !.state = "CLOSED", !.rxq = <<>>, !.tx = {},
                        !.copies = 0, !.held = {}]
    BY <1>1 DEF Closed
  <2> QED
    BY <2>1, <2>2 DEF Connection, States
<1>3. IsFiniteSet(d.tx) /\ Cardinality(d.tx) = 0
  BY <1>2, FS_EmptySet
<1>4. TxOK(e, d, v)
  <2>1. e = "client" /\ v = "window" /\ d.wake => Cardinality(d.tx) < Window
    BY <1>3, ConstantFacts
  <2>2. Cardinality(d.tx) <= Window + 2
    BY <1>3, ConstantFacts
  <2> QED
    BY <1>2, <1>3, <2>1, <2>2 DEF TxOK
<1>5. HeldOK(d) /\ ShapeOK(d)
  BY <1>2, ConstantFacts DEF HeldOK, ShapeOK
<1> QED
  BY <1>1, <1>2, <1>4, <1>5 DEF Sound, FlightOK

(* csp_close, whatever the state of the connection.                           *)
LEMMA ClosedOK ==
    ASSUME NEW e \in Ends, NEW u, NEW v, NEW c \in Connection,
           c.state = "CLOSED" \/ Sound(e, c, u),
           v = u \/ v # "window"
    PROVE  /\ Closed(c) \in Connection /\ Sound(e, Closed(c), v) /\ FlightOK(e, Closed(c), v)
           /\ ClosePackets(e, c) \in SUBSET Packet
<1>1. ClosePackets(e, c) \in SUBSET Packet
  BY PacketFacts DEF ClosePackets
<1>2. PICK d : d = Closed(c)
  OBVIOUS
<1>3. CASE Lingers(c)
  <2>1. /\ d \in Connection /\ d.tx = c.tx /\ d.nxt = c.nxt /\ d.iss = c.iss /\ d.irs = c.irs
        /\ d.held = c.held /\ d.cur = c.cur /\ d.open = c.open /\ d.rxq = c.rxq
        /\ d.wake = c.wake /\ d.state = "CLOSE_WAIT"
    BY <1>2, <1>3 DEF Closed, Acking, Connection, States
  <2>2. Sound(e, c, u) /\ c.state # "CLOSED"
    BY <1>3 DEF Lingers
  <2>3. Len(d.rxq) <= RxqLen
    BY <2>1, <2>2 DEF Sound, ShapeOK
  <2>4. Sound(e, d, v)
    BY <2>1, <2>2, <2>3, SoundAlike
  <2> QED
    BY <1>1, <1>2, <2>1, <2>4 DEF FlightOK
<1>4. CASE ~Lingers(c)
  BY <1>1, <1>4, ClearedOK
<1> QED
  BY <1>3, <1>4

(* discard_close.                                                            *)
LEMMA DiscardedOK ==
    ASSUME NEW e \in Ends, NEW u, NEW c \in Connection, Sound(e, c, u)
    PROVE  /\ Discarded(c) \in Connection /\ Sound(e, Discarded(c), u)
           /\ DiscardPackets(e, c) \in SUBSET Packet
<1>1. CASE ~c.posted
  BY <1>1, ClosedOK DEF Discarded, DiscardPackets
<1>2. CASE c.posted
  <2>1. PICK d : d = Told(c)
    OBVIOUS
  <2>2. /\ d \in Connection /\ d.tx = c.tx /\ d.nxt = c.nxt /\ d.iss = c.iss /\ d.irs = c.irs
        /\ d.held = c.held /\ d.cur = c.cur /\ d.open = c.open /\ d.wake = c.wake
        /\ d.state = c.state /\ Len(d.rxq) <= RxqLen
    <3>1. PICK q : q = c.rxq /\ q \in Seq(0 .. MaxData) /\ Len(q) <= RxqLen
      BY DEF Sound, ShapeOK, Connection
    <3>2. Null \in 0 .. MaxData
      BY RdpAssumption DEF Null, MaxData
    <3>3. /\ Append(q, Null) \in Seq(0 .. MaxData) /\ Len(Append(q, Null)) = Len(q) + 1
          /\ Len(q) \in Nat
      BY <3>1, <3>2, QueueFacts
    <3>4. CASE Len(q) < RxqLen
      <4>1. d = [c EXCEPT !.rxq = Append(q, Null)]
        BY <2>1, <3>1, <3>4 DEF Told
      <4>2. Len(Append(q, Null)) <= RxqLen
        BY <3>3, <3>4, ConstantFacts
      <4> QED
        BY <3>3, <4>1, <4>2 DEF Connection
    <3>5. CASE ~(Len(q) < RxqLen)
      BY <2>1, <3>1, <3>5 DEF Told
    <3> QED
      BY <3>4, <3>5
  <2>3. Sound(e, d, u)
    BY <2>2, SoundAlike
  <2> QED
    BY <1>2, <2>1, <2>2, <2>3 DEF Discarded, DiscardPackets
<1> QED
  BY <1>1, <1>2

(* The connection a packet belongs to.                                        *)
LEMMA ForFacts ==
    ASSUME Inv, NEW e \in Ends
    PROVE  /\ conn[e] \in Connection /\ For(e) \in Connection
           /\ For(e).state # "CLOSED" => /\ For(e) = conn[e] /\ Sound(e, For(e), user[e])
                                         /\ FlightOK(e, For(e), user[e])
           /\ For(e).state = "CLOSED" /\ For(e).open =>
                /\ e = "server" /\ For(e).tx = {} /\ For(e).held = {} /\ For(e).rxq = <<>>
                /\ ~For(e).posted
<1>1. PICK c : c = conn[e] /\ c \in Connection /\ Sound(e, c, user[e]) /\ FlightOK(e, c, user[e])
  BY DEF Inv, EndOK
<1>2. c.open <=> c.state # "CLOSED"
  BY <1>1 DEF Sound, ShapeOK
<1>3. CASE c.open
  BY <1>1, <1>2, <1>3 DEF For
<1>4. CASE ~c.open
  <2>1. c.state = "CLOSED" /\ c.tx = {} /\ c.held = {}
    BY <1>1, <1>2, <1>4 DEF Sound, TxOK, HeldOK
  <2>2. CASE e = "client"
    BY <1>1, <1>4, <2>1, <2>2 DEF For
  <2>3. CASE e # "client"
    <3>1. For(e) = [c EXCEPT !.open = TRUE, !.posted = FALSE, !.rxq = <<>>]
      BY <1>1, <1>4, <2>3 DEF For
    <3>2. <<>> \in Seq(0 .. MaxData)
      BY EmptySeq
    <3> QED
      BY <1>1, <2>1, <2>3, <3>1, <3>2 DEF Connection, Ends
  <2> QED
    BY <2>2, <2>3
<1> QED
  BY <1>3, <1>4

-----------------------------------------------------------------------------
(* Every packet that may arrive is well typed.                               *)
LEMMA AckedToOK ==
    ASSUME NEW e \in Ends, NEW u, NEW c \in Connection, NEW p \in Packet
    PROVE  /\ AckedTo(c, p) \in Connection /\ AckedTo(c, p).state = c.state
           /\ Sound(e, c, u) => Sound(e, AckedTo(c, p), u)
<1>1. Plus(p.ack, 1) \in SeqNrs
  <2>1. p.ack \in Int
    BY ConstantFacts DEF Packet
  <2> QED
    BY <2>1, PlusType
<1>2. PICK d : d = AckedTo(c, p)
  OBVIOUS
<1>3. /\ d \in Connection /\ d.tx = c.tx /\ d.nxt = c.nxt /\ d.iss = c.iss /\ d.irs = c.irs
      /\ d.held = c.held /\ d.cur = c.cur /\ d.open = c.open /\ d.wake = c.wake
      /\ d.state = c.state /\ d.rxq = c.rxq
  BY <1>1, <1>2 DEF AckedTo, Connection
<1>4. ASSUME Sound(e, c, u) PROVE Sound(e, d, u)
  <2>1. Len(d.rxq) <= RxqLen
    BY <1>3, <1>4 DEF Sound, ShapeOK
  <2> QED
    BY <1>3, <1>4, <2>1, SoundAlike
<1> QED
  BY <1>2, <1>3, <1>4

LEMMA ArrivedFacts ==
    ASSUME Inv, NEW e, NEW p, Arrived(e, p)
    PROVE  p \in Packet /\ For(e).open
BY DEF Inv, WorkOK, Arrived

LEMMA ResetClosingOK ==
    ASSUME Inv, NEW e \in Ends, NEW p, ResetClosing(e, p)
    PROVE  Inv'
<1>1. p \in Packet /\ For(e).open /\ For(e) \in Connection
  BY ArrivedFacts, ForFacts DEF ResetClosing
<1>2. PICK c : c = AckedTo(For(e), p)
  OBVIOUS
<1>3. c \in Connection /\ (c.state = "CLOSED" \/ Sound(e, c, user[e]))
  BY <1>1, <1>2, ForFacts, AckedToOK
<1>4. Closed(c) \in Connection /\ Sound(e, Closed(c), user[e])
  BY <1>3, ClosedOK
<1>5. Take(e, Closed(c), {})
  BY <1>2 DEF ResetClosing
<1> QED
  BY <1>4, <1>5, TakeOK

LEMMA ResetInSequenceOK ==
    ASSUME Inv, NEW e \in Ends, NEW p, ResetInSequence(e, p)
    PROVE  Inv'
<1>1. p \in Packet /\ For(e) \in Connection /\ For(e).state # "CLOSED"
  BY ArrivedFacts, ForFacts DEF ResetInSequence
<1>2. PICK b : b = AckedTo(For(e), p)
  OBVIOUS
<1>3. b \in Connection /\ Sound(e, b, user[e]) /\ b.state # "CLOSED"
  BY <1>1, <1>2, ForFacts, AckedToOK
<1>4. PICK c : c = [Acking(b) EXCEPT !.state = "CLOSE_WAIT"]
  OBVIOUS
<1>5. /\ c \in Connection /\ c.tx = b.tx /\ c.nxt = b.nxt /\ c.iss = b.iss /\ c.irs = b.irs
      /\ c.held = b.held /\ c.cur = b.cur /\ c.open = b.open /\ c.wake = b.wake
      /\ c.state = "CLOSE_WAIT" /\ c.rxq = b.rxq
  BY <1>3, <1>4 DEF Acking, Connection, States
<1>6. Len(c.rxq) <= RxqLen
  BY <1>3, <1>5 DEF Sound, ShapeOK
<1>7. Sound(e, c, user[e])
  BY <1>3, <1>5, <1>6, SoundAlike
<1>8. Discarded(c) \in Connection /\ Sound(e, Discarded(c), user[e]) /\ {Reset(e, c)} \in SUBSET Packet
  BY <1>5, <1>7, DiscardedOK, PacketFacts
<1>9. Take(e, Discarded(c), {Reset(e, c)})
  BY <1>2, <1>4 DEF ResetInSequence
<1> QED
  BY <1>8, <1>9, TakeOK

LEMMA ResetOutOfSequenceOK ==
    ASSUME Inv, NEW e \in Ends, NEW p, ResetOutOfSequence(e, p)
    PROVE  Inv'
<1>1. p \in Packet /\ For(e) \in Connection /\ For(e).state # "CLOSED"
  BY ArrivedFacts, ForFacts DEF ResetOutOfSequence
<1>2. AckedTo(For(e), p) \in Connection /\ Sound(e, AckedTo(For(e), p), user[e])
  BY <1>1, ForFacts, AckedToOK
<1>3. Take(e, AckedTo(For(e), p), {})
  BY DEF ResetOutOfSequence
<1> QED
  BY <1>2, <1>3, TakeOK

LEMMA NotSynOK ==
    ASSUME Inv, NEW e \in Ends, NEW p, NotSyn(e, p)
    PROVE  Inv'
<1>1. For(e).open /\ For(e).state = "CLOSED" /\ For(e) \in Connection
  BY ArrivedFacts, ForFacts DEF NotSyn, In
<1>2. PICK c \in Connection : c = For(e) /\ c.state = "CLOSED" /\ ~c.posted
  BY <1>1, ForFacts
<1>3. Closed(c) \in Connection /\ Sound(e, Closed(c), user[e])
  BY <1>2, ClosedOK
<1>4. {Bare(e, {"RST"}, c.nxt, c.cur)} \in SUBSET Packet
  BY PacketFacts
<1>5. Take(e, Closed(c), {Bare(e, {"RST"}, c.nxt, c.cur)})
  BY <1>2 DEF NotSyn, Discarded
<1> QED
  BY <1>3, <1>4, <1>5, TakeOK

(* What a turn, or a packet of data, may cost.                                *)
LEMMA Costs ==
    ASSUME NEW w \in Nat \ {0}, NEW v \in Nat \ {0}, NEW n \in Nat, NEW k \in Nat, NEW m \in Nat
    PROVE  /\ w * n + v * k <= m => k <= m
           /\ w * n + v * k <= m => n <= m \div w
<1>1. v * k >= k /\ v * k \in Nat /\ w * n \in Nat
  OBVIOUS
<1>2. w * n + v * k <= m => k <= m
  BY <1>1
<1>3. ASSUME w * n + v * k <= m PROVE n <= m \div w
  <2>1. w * n <= m
    BY <1>1, <1>3
  <2>2. PICK q \in Nat : q = m \div w /\ m < w * (q + 1)
    OBVIOUS
  <2>3. w * n < w * (q + 1)
    BY <1>1, <2>1, <2>2
  <2>4. n < q + 1
    BY <2>3
  <2> QED
    BY <2>2, <2>4
<1> QED
  BY <1>2, <1>3

LEMMA TurnOK ==
    ASSUME Turn, WorkOK
    PROVE  turns' \in 0 .. MaxWork
<1>1. turns' = turns + 1 /\ SendWork * sent + TurnWork * (turns + 1) <= MaxWork
  BY DEF Turn
<1>2. MaxData \in Nat
  BY RdpAssumption DEF MaxData
<1>3. sent \in Nat /\ turns + 1 \in Nat
  BY <1>2, RdpAssumption DEF WorkOK
<1> QED
  BY <1>1, <1>3, Costs, RdpAssumption

(* A packet alone in tx_queue, if it is there: the last one numbered.          *)
LEMMA OneSent ==
    ASSUME NEW c \in Connection, NEW q \in Packet, c.tx \subseteq {q}, c.nxt = Plus(q.seq, 1)
    PROVE  /\ IsFiniteSet(c.tx) /\ Cardinality(c.tx) \in 0 .. 1
           /\ \A r \in c.tx : Lag(c, r) = 1
<1>1. IsFiniteSet(c.tx) /\ Cardinality(c.tx) \in 0 .. 1
  <2>1. c.tx = {} \/ c.tx = {q}
    OBVIOUS
  <2>2. IsFiniteSet({}) /\ Cardinality({}) = 0 /\ IsFiniteSet({q}) /\ Cardinality({q}) = 1
    BY FS_EmptySet, FS_Singleton
  <2> QED
    BY <2>1, <2>2
<1>2. q.seq \in SeqNrs
  BY DEF Packet
<1>3. PICK s \in SeqNrs, n \in SeqNrs : s = q.seq /\ n = Plus(s, 1) /\ n = c.nxt
  BY <1>2 DEF Connection
<1>4. n = IF s + 1 < SeqMod THEN s + 1 ELSE s + 1 - SeqMod
  BY <1>3, NextNr
<1>5. Gap(n, s) = IF n >= s THEN n - s ELSE n - s + SeqMod
  BY GapFacts
<1>6. Gap(n, s) = 1
  BY <1>3, <1>4, <1>5, ConstantFacts
<1> QED
  BY <1>1, <1>3, <1>6 DEF Lag

LEMMA SynReceivedOK ==
    ASSUME Inv, NEW e \in Ends, NEW p, SynReceived(e, p)
    PROVE  Inv'
<1>1. p \in Packet /\ For(e).open /\ For(e).state = "CLOSED"
  BY ArrivedFacts DEF SynReceived, In
<1>2. PICK b \in Connection : /\ b = For(e) /\ b.open /\ b.tx = {} /\ b.held = {} /\ b.rxq = <<>>
                              /\ e = "server"
  BY <1>1, ForFacts
<1>3. PICK iss \in SeqNrs : iss = Rand[e][b.iss]
  BY <1>2, RdpAssumption DEF Connection
<1>4. PICK c : c = [b EXCEPT !.state = "SYN_RCVD", !.iss = iss, !.nxt = Plus(iss, 1),
                             !.una = iss, !.cur = p.seq, !.irs = p.seq, !.lsa = p.seq]
  OBVIOUS
<1>5. Plus(iss, 1) \in SeqNrs /\ p.seq \in SeqNrs
  BY <1>1, NextNr DEF Packet
<1>6. /\ c \in Connection /\ c.tx = {} /\ c.held = {} /\ c.open /\ c.rxq = <<>>
      /\ c.state = "SYN_RCVD" /\ c.nxt = Plus(iss, 1) /\ c.iss = iss
  BY <1>2, <1>4, <1>5 DEF Connection, States
<1>7. PICK s \in Packet : s = SynAck(e, c) /\ s.seq = iss
  BY <1>6, PacketFacts
<1>8. PICK d \in Connection : /\ d = Cloned(e, c) /\ d.tx \subseteq {s} /\ s = SynAck(e, d)
                              /\ d.held = {} /\ d.open /\ d.rxq = <<>>
                              /\ d.state = "SYN_RCVD" /\ d.nxt = Plus(iss, 1)
                              /\ d.iss = iss /\ d.irs = c.irs
  BY <1>6, <1>7, ClonedFacts
<1>9. /\ d \in Connection /\ d.tx \subseteq {s} /\ d.held = {} /\ d.open /\ d.rxq = <<>>
      /\ d.state = "SYN_RCVD" /\ d.nxt = Plus(iss, 1) /\ d.iss = iss /\ d.irs = c.irs
  BY <1>8
<1>10. s = SynAck(e, d)
  BY <1>8
<1>11. IsFiniteSet(d.tx) /\ Cardinality(d.tx) \in 0 .. 1 /\ \A r \in d.tx : Lag(d, r) = 1
  BY <1>7, <1>9, OneSent
<1>12. TxOK(e, d, user[e])
  BY <1>2, <1>9, <1>10, <1>11, ConstantFacts, SpanFacts DEF TxOK
<1>13. Sound(e, d, user[e]) /\ FlightOK(e, d, user[e])
  BY <1>9, <1>12, ConstantFacts DEF Sound, ShapeOK, HeldOK, FlightOK
<1>14. conn' = [conn EXCEPT ![e] = d] /\ net' = net \union {s} /\ UNCHANGED <<user, sent>> /\ got' = <<>>
  BY <1>2, <1>3, <1>4, <1>7, <1>8 DEF SynReceived, Becomes
<1>15. WorkOK'
  <2>1. WorkOK
    BY DEF Inv
  <2>2. turns' \in 0 .. MaxWork
    BY <2>1, TurnOK DEF SynReceived, WorkOK
  <2> QED
    BY <1>7, <1>14, <2>1, <2>2 DEF WorkOK
<1> QED
  BY <1>9, <1>13, <1>14, <1>15, OneEnd

-----------------------------------------------------------------------------
(* The answer to a SYN.                                                      *)
LEMMA SynSentOK ==
    ASSUME Inv, NEW e \in Ends, NEW d \in Connection, NEW out \in SUBSET Packet,
           For(e).state = "SYN_SENT", Take(e, d, out),
           d.tx = For(e).tx, d.nxt = For(e).nxt, d.held = For(e).held, d.open = For(e).open,
           d.rxq = For(e).rxq, d.state \in {"SYN_SENT", "OPEN"}
    PROVE  Inv'
<1>1. PICK c \in Connection : c = For(e) /\ Sound(e, c, user[e])
  BY ForFacts
<1>2. e = "client" => user[e] \notin {"open", "window"}
  BY <1>1 DEF Sound, TxOK
<1>3. TxOK(e, d, user[e])
  BY <1>1, <1>2, TxLess DEF Sound
<1>4. HeldOK(d) /\ ShapeOK(d)
  BY <1>1 DEF Sound, HeldOK, ShapeOK
<1> QED
  BY <1>3, <1>4, TakeOK DEF Sound

LEMMA SynAckedOK ==
    ASSUME Inv, NEW e \in Ends, NEW p, SynAcked(e, p)
    PROVE  Inv'
<1>1. p \in Packet /\ For(e) \in Connection /\ For(e).state = "SYN_SENT"
  BY ArrivedFacts, ForFacts DEF SynAcked, In
<1>2. PICK c \in Connection : c = For(e)
  BY <1>1
<1>3. p.seq \in SeqNrs /\ Plus(p.seq, -1) \in SeqNrs /\ Plus(p.ack, 1) \in SeqNrs
  <2>1. p.seq \in SeqNrs /\ p.seq \in Int /\ p.ack \in Int
    BY <1>1, ConstantFacts DEF Packet
  <2> QED
    BY <2>1, PlusType
<1>4. PICK d : d = [c EXCEPT !.state = "OPEN", !.cur = p.seq, !.irs = p.seq,
                     !.lsa = Plus(p.seq, -1), !.una = Plus(p.ack, 1), !.wake = TRUE]
  OBVIOUS
<1>5. /\ d \in Connection /\ d.tx = c.tx /\ d.nxt = c.nxt /\ d.held = c.held /\ d.open = c.open
      /\ d.rxq = c.rxq /\ d.state = "OPEN"
  BY <1>3, <1>4 DEF Connection, States
<1>6. Take(e, d, {})
  BY <1>2, <1>4 DEF SynAcked
<1> QED
  BY <1>1, <1>2, <1>5, <1>6, SynSentOK

LEMMA HalfOpenOK ==
    ASSUME Inv, NEW e \in Ends, NEW p, HalfOpen(e, p)
    PROVE  Inv'
<1>1. For(e) \in Connection /\ For(e).state = "SYN_SENT"
  BY ForFacts DEF HalfOpen, In
<1>2. PICK c \in Connection : c = For(e)
  BY <1>1
<1>3. PICK d : d = [c EXCEPT !.wake = TRUE]
  OBVIOUS
<1>4. /\ d \in Connection /\ d.tx = c.tx /\ d.nxt = c.nxt /\ d.held = c.held /\ d.open = c.open
      /\ d.rxq = c.rxq /\ d.state = c.state
  BY <1>3 DEF Connection
<1>5. {Bare(e, {"RST"}, c.nxt, c.cur)} \in SUBSET Packet
  BY PacketFacts
<1>6. Take(e, d, {Bare(e, {"RST"}, c.nxt, c.cur)})
  BY <1>2, <1>3 DEF HalfOpen
<1> QED
  BY <1>1, <1>2, <1>4, <1>5, <1>6, SynSentOK

(* States SYN_RCVD and OPEN.                                                 *)
LEMMA InFacts ==
    ASSUME Inv, NEW e \in Ends, NEW p, NEW states, In(e, p, states), "CLOSED" \notin states
    PROVE  /\ p \in Packet /\ For(e) \in Connection /\ For(e).state \in states
           /\ Sound(e, For(e), user[e])
BY ArrivedFacts, ForFacts DEF In

LEMMA InvalidSynOK ==
    ASSUME Inv, NEW e \in Ends, NEW p, InvalidSyn(e, p)
    PROVE  Inv'
<1>1. PICK c \in Connection : c = For(e) /\ Sound(e, c, user[e])
  BY InFacts DEF InvalidSyn
<1>2. CASE p.seq = c.irs
  <2>1. Take(e, c, {})
    BY <1>1, <1>2 DEF InvalidSyn
  <2> QED
    BY <1>1, <2>1, TakeOK
<1>3. CASE p.seq # c.irs
  <2>1. Take(e, Discarded(c), DiscardPackets(e, c))
    BY <1>1, <1>3 DEF InvalidSyn
  <2> QED
    BY <1>1, <2>1, DiscardedOK, TakeOK
<1> QED
  BY <1>2, <1>3

LEMMA OutOfWindowOK ==
    ASSUME Inv, NEW e \in Ends, NEW p, OutOfWindow(e, p)
    PROVE  Inv'
<1>1. PICK c \in Connection :
           c = For(e) /\ Sound(e, c, user[e]) /\ c.state \in {"SYN_RCVD", "OPEN"}
  BY InFacts DEF OutOfWindow
<1>2. Len(c.rxq) <= RxqLen
  BY <1>1 DEF Sound, ShapeOK
<1>3. CASE c.state = "OPEN"
  <2>1. PICK d : d = Acking(c)
    OBVIOUS
  <2>2. /\ d \in Connection /\ d.tx = c.tx /\ d.nxt = c.nxt /\ d.iss = c.iss /\ d.irs = c.irs
        /\ d.held = c.held /\ d.cur = c.cur /\ d.open = c.open /\ d.wake = c.wake
        /\ d.state = c.state /\ d.rxq = c.rxq
    BY <2>1 DEF Acking, Connection
  <2>3. Sound(e, d, user[e])
    BY <1>1, <1>2, <2>2, SoundAlike
  <2>4. Take(e, d, {Eack(e, c)}) /\ {Eack(e, c)} \in SUBSET Packet
    BY <1>1, <1>3, <2>1, PacketFacts DEF OutOfWindow
  <2> QED
    BY <2>2, <2>3, <2>4, TakeOK
<1>4. CASE c.state = "SYN_RCVD"
  <2>1. TxOK(e, c, user[e]) /\ HeldOK(c) /\ ShapeOK(c)
    BY <1>1 DEF Sound
  <2>2. e = "server" /\ c.nxt = Plus(c.iss, 1) /\ c.tx \subseteq {SynAck(e, c)} /\ c.held = {}
    BY <1>4, <2>1 DEF TxOK, HeldOK
  <2>3. PICK s \in Packet : s = SynAck(e, c) /\ s.seq = c.iss
    BY PacketFacts
  <2>4a. PICK b \in Connection :
              /\ b = Cloned(e, c) /\ b.tx \subseteq {s} /\ b.nxt = c.nxt /\ b.iss = c.iss
              /\ b.irs = c.irs /\ b.held = c.held /\ b.open = c.open /\ b.state = c.state
              /\ b.rxq = c.rxq
    BY <2>2, <2>3, ClonedFacts
  <2>4. PICK d : d = [b EXCEPT !.lsa = c.irs]
    OBVIOUS
  <2>5. /\ d \in Connection /\ d.tx \subseteq {s} /\ d.nxt = c.nxt /\ d.iss = c.iss
        /\ d.irs = c.irs /\ d.held = c.held /\ d.open = c.open /\ d.state = c.state
        /\ d.rxq = c.rxq
    BY <2>4a, <2>4 DEF Connection
  <2>6. s = SynAck(e, d)
    BY <2>3, <2>5 DEF SynAck
  <2>7. IsFiniteSet(d.tx) /\ Cardinality(d.tx) \in 0 .. 1 /\ \A r \in d.tx : Lag(d, r) = 1
    BY <2>2, <2>3, <2>5, OneSent
  <2>8. TxOK(e, d, user[e])
    BY <1>4, <2>2, <2>5, <2>6, <2>7, ConstantFacts, SpanFacts DEF TxOK
  <2>9. Sound(e, d, user[e])
    BY <1>4, <2>1, <2>2, <2>5, <2>8 DEF Sound, ShapeOK, HeldOK
  <2>10. Take(e, d, {s})
    BY <1>1, <1>4, <2>3, <2>4a, <2>4 DEF OutOfWindow
  <2> QED
    BY <2>3, <2>5, <2>9, <2>10, TakeOK
<1> QED
  BY <1>1, <1>3, <1>4

LEMMA InvalidAckOK ==
    ASSUME Inv, NEW e \in Ends, NEW p, InvalidAck(e, p)
    PROVE  Inv'
<1>1. For(e) \in Connection /\ Sound(e, For(e), user[e])
  BY InFacts DEF InvalidAck
<1>2. Take(e, For(e), {})
  BY DEF InvalidAck
<1> QED
  BY <1>1, <1>2, TakeOK

LEMMA WrongAckOK ==
    ASSUME Inv, NEW e \in Ends, NEW p, WrongAck(e, p)
    PROVE  Inv'
<1>1. PICK c \in Connection : c = For(e) /\ Sound(e, c, user[e])
  BY InFacts DEF WrongAck
<1>2. Take(e, Discarded(c), DiscardPackets(e, c))
  BY <1>1 DEF WrongAck
<1> QED
  BY <1>1, <1>2, DiscardedOK, TakeOK

LEMMA ValidFacts ==
    ASSUME Inv, NEW e \in Ends, NEW p, Valid(e, p)
    PROVE  /\ p \in Packet /\ For(e) \in Connection /\ Accepted(e, p) \in Connection
           /\ Sound(e, Accepted(e, p), user[e]) /\ Accepted(e, p).state = "OPEN"
           /\ Accepted(e, p).cur = For(e).cur /\ Accepted(e, p).rxq = For(e).rxq
           /\ InWindow(Accepted(e, p), p)
<1>1. p \in Packet
  BY InFacts DEF Valid
<1>2. PICK c \in Connection :
           c = For(e) /\ Sound(e, c, user[e]) /\ c.state \in {"SYN_RCVD", "OPEN"}
  BY InFacts DEF Valid
<1>3. Plus(p.ack, 1) \in SeqNrs
  <2>1. p.ack \in Int
    BY <1>1, ConstantFacts DEF Packet
  <2> QED
    BY <2>1, PlusType
<1>4. PICK d : d = Accepted(e, p)
  OBVIOUS
<1>5. /\ d \in Connection /\ d.tx = c.tx /\ d.nxt = c.nxt /\ d.iss = c.iss /\ d.irs = c.irs
      /\ d.held = c.held /\ d.cur = c.cur /\ d.open = c.open /\ d.wake = c.wake
      /\ d.state = "OPEN" /\ d.rxq = c.rxq
  BY <1>2, <1>3, <1>4 DEF Accepted, Connection, States
<1>6. Len(d.rxq) <= RxqLen
  BY <1>2, <1>5 DEF Sound, ShapeOK
<1>7. Sound(e, d, user[e])
  BY <1>2, <1>5, <1>6, SoundAlike
<1>8. InWindow(d, p)
  BY <1>2, <1>5 DEF Valid, InWindow
<1> QED
  BY <1>1, <1>2, <1>4, <1>5, <1>7, <1>8

LEMMA NoDataOK ==
    ASSUME Inv, NEW e \in Ends, NEW p, NoData(e, p)
    PROVE  Inv'
<1>1. PICK c \in Connection : c = Accepted(e, p) /\ Sound(e, c, user[e])
  BY ValidFacts DEF NoData
<1>2. PICK d : d = [c EXCEPT !.tx = {q \in @ : q.seq \notin p.list}]
  OBVIOUS
<1>3. /\ d \in Connection /\ d.tx \subseteq c.tx /\ d.nxt = c.nxt /\ d.iss = c.iss /\ d.irs = c.irs
      /\ d.held = c.held /\ d.cur = c.cur /\ d.open = c.open /\ d.wake = c.wake
      /\ d.state = c.state /\ d.rxq = c.rxq
  BY <1>2 DEF Connection
<1>4. Len(d.rxq) <= RxqLen
  BY <1>1, <1>3 DEF Sound, ShapeOK
<1>5. Sound(e, d, user[e])
  BY <1>1, <1>3, <1>4, SoundAlike
<1>6. Take(e, d, {})
  BY <1>1, <1>2 DEF NoData
<1> QED
  BY <1>3, <1>5, <1>6, TakeOK

LEMMA CloseWaitOK ==
    ASSUME Inv, NEW e \in Ends, NEW p, CloseWait(e, p)
    PROVE  Inv'
<1>1. p \in Packet
  BY InFacts DEF CloseWait
<1>2. PICK b \in Connection : b = For(e) /\ Sound(e, b, user[e])
  BY InFacts DEF CloseWait
<1>3. Plus(p.ack, 1) \in SeqNrs
  <2>1. p.ack \in Int
    BY <1>1, ConstantFacts DEF Packet
  <2> QED
    BY <2>1, PlusType
<1>4. PICK c : c = [Acking(b) EXCEPT !.una = Plus(p.ack, 1)]
  OBVIOUS
<1>5. /\ c \in Connection /\ c.tx = b.tx /\ c.nxt = b.nxt /\ c.iss = b.iss /\ c.irs = b.irs
      /\ c.held = b.held /\ c.cur = b.cur /\ c.open = b.open /\ c.wake = b.wake
      /\ c.state = b.state /\ c.rxq = b.rxq
  BY <1>3, <1>4 DEF Acking, Connection
<1>6. Len(c.rxq) <= RxqLen
  BY <1>2, <1>5 DEF Sound, ShapeOK
<1>7. Sound(e, c, user[e])
  BY <1>2, <1>5, <1>6, SoundAlike
<1>8. Reset(e, c) \in Packet
  BY <1>5, PacketFacts
<1>9. Take(e, c, {Reset(e, c)}) \/ Take(e, b, {})
  BY <1>2, <1>4 DEF CloseWait
<1> QED
  BY <1>2, <1>5, <1>7, <1>8, <1>9, TakeOK

-----------------------------------------------------------------------------
(* Windows of sequence numbers.                                              *)
LEMMA GapPlus ==
    ASSUME NEW a \in SeqNrs, NEW k \in 0 .. SeqMod - 1
    PROVE  Gap(Plus(a, k), a) = k
<1>1. PICK n \in SeqNrs : n = Plus(a, k) /\ n = IF a + k < SeqMod THEN a + k ELSE a + k - SeqMod
  BY PlusFacts
<1>2. Gap(n, a) = IF n >= a THEN n - a ELSE n - a + SeqMod
  BY GapFacts
<1> QED
  BY <1>1, <1>2, ConstantFacts

LEMMA GapShift ==
    ASSUME NEW s \in SeqNrs, NEW a \in SeqNrs, NEW k \in 0 .. SeqMod - 1
    PROVE  Gap(s, Plus(a, k)) = IF Gap(s, a) >= k THEN Gap(s, a) - k ELSE Gap(s, a) - k + SeqMod
<1>1. PICK n \in SeqNrs : n = Plus(a, k) /\ n = IF a + k < SeqMod THEN a + k ELSE a + k - SeqMod
  BY PlusFacts
<1>2. PICK g : g = Gap(s, a) /\ g = IF s >= a THEN s - a ELSE s - a + SeqMod
  BY GapFacts
<1>3. PICK h : h = Gap(s, n) /\ h = IF s >= n THEN s - n ELSE s - n + SeqMod
  BY GapFacts
<1>4. h = IF g >= k THEN g - k ELSE g - k + SeqMod
  BY <1>1, <1>2, <1>3, ConstantFacts
<1> QED
  BY <1>1, <1>2, <1>3, <1>4

LEMMA InRange ==
    ASSUME NEW s \in SeqNrs, NEW a \in SeqNrs, NEW i \in 0 .. SeqMod - 1, NEW j \in i .. SeqMod - 1
    PROVE  Between(s, Plus(a, i), Plus(a, j)) <=> Gap(s, a) \in i .. j
<1>1. j \in 0 .. SeqMod - 1 /\ i <= j /\ i \in Nat /\ j \in Nat
  BY ConstantFacts
<1>2. PICK m \in SeqNrs, n \in SeqNrs : m = Plus(a, i) /\ n = Plus(a, j)
  BY <1>1, PlusFacts
<1>3. Between(s, m, n) <=> Gap(n, m) >= Gap(s, m)
  BY DEF Between, Gap
<1>4. Gap(n, a) = j
  BY <1>1, <1>2, GapPlus
<1>5. Gap(n, m) = j - i
  BY <1>1, <1>2, <1>4, GapShift
<1>6. PICK g \in SeqNrs : g = Gap(s, a) /\ Gap(s, m) = IF g >= i THEN g - i ELSE g - i + SeqMod
  <2>1. Gap(s, a) \in SeqNrs
    BY GapFacts
  <2>2. Gap(s, Plus(a, i)) = IF Gap(s, a) >= i THEN Gap(s, a) - i ELSE Gap(s, a) - i + SeqMod
    BY GapShift
  <2> QED
    BY <1>2, <2>1, <2>2
<1>7. j - i >= (IF g >= i THEN g - i ELSE g - i + SeqMod) <=> g \in i .. j
  BY <1>1, ConstantFacts
<1> QED
  BY <1>2, <1>3, <1>5, <1>6, <1>7

LEMMA WindowFacts ==
    ASSUME NEW c \in Connection, NEW p \in Packet
    PROVE  /\ InWindow(c, p) => Gap(p.seq, c.cur) \in 1 .. 2 * Window
           /\ p.seq # Plus(c.cur, 1) => Gap(p.seq, c.cur) # 1
           /\ Gap(p.seq, c.cur) \in Nat
<1>1. PICK s \in SeqNrs, a \in SeqNrs : s = p.seq /\ a = c.cur
  BY DEF Connection, Packet
<1>2. 1 \in 0 .. SeqMod - 1 /\ 2 * Window \in 1 .. SeqMod - 1
  BY ConstantFacts
<1>3. Gap(s, a) \in SeqNrs
  BY GapFacts
<1>4. ASSUME Gap(s, a) = 1 PROVE s = Plus(a, 1)
  <2>1. PICK t \in SeqNrs : t = Plus(a, 1) /\ Gap(t, a) = 1
    BY <1>2, PlusFacts, GapPlus
  <2> QED
    BY <1>4, <2>1, SameGap
<1> QED
  BY <1>1, <1>2, <1>3, <1>4, InRange, ConstantFacts DEF InWindow

LEMMA OutOfOrderOK ==
    ASSUME Inv, NEW e \in Ends, NEW p, OutOfOrder(e, p)
    PROVE  Inv'
<1>1. p \in Packet /\ p.seq # Plus(For(e).cur, 1)
  BY ValidFacts DEF OutOfOrder
<1>2. PICK c \in Connection : /\ c = Accepted(e, p) /\ Sound(e, c, user[e]) /\ c.state = "OPEN"
                              /\ c.cur = For(e).cur /\ InWindow(c, p)
  BY ValidFacts DEF OutOfOrder
<1>3. CASE \E q \in c.held : q.seq = p.seq
  <2>1. Take(e, c, {})
    BY <1>2, <1>3 DEF OutOfOrder
  <2> QED
    BY <1>2, <2>1, TakeOK
<1>4. CASE ~\E q \in c.held : q.seq = p.seq
  <2>1. PICK m : m = [c EXCEPT !.held = @ \union {p}]
    OBVIOUS
  <2>2. /\ m \in Connection /\ m.tx = c.tx /\ m.nxt = c.nxt /\ m.iss = c.iss /\ m.irs = c.irs
        /\ m.held = c.held \union {p} /\ m.cur = c.cur /\ m.open = c.open /\ m.wake = c.wake
        /\ m.state = c.state /\ m.rxq = c.rxq
    BY <1>1, <2>1 DEF Connection
  <2>3. PICK d : d = Acking(m)
    OBVIOUS
  <2>4. /\ d \in Connection /\ d.tx = m.tx /\ d.nxt = m.nxt /\ d.iss = m.iss /\ d.irs = m.irs
        /\ d.held = m.held /\ d.cur = m.cur /\ d.open = m.open /\ d.wake = m.wake
        /\ d.state = m.state /\ d.rxq = m.rxq
    BY <2>2, <2>3 DEF Acking, Connection
  <2>5. TxOK(e, d, user[e])
    BY <1>2, <2>2, <2>4 DEF Sound, TxOK, Lag, SynAck
  <2>6. HeldOK(d)
    <3>1. HeldOK(c)
      BY <1>2 DEF Sound
    <3>2. Gap(p.seq, c.cur) \in 1 .. 2 * Window /\ Gap(p.seq, c.cur) # 1
      BY <1>1, <1>2, WindowFacts
    <3>3. Gap(p.seq, c.cur) \in 2 .. 2 * Window
      BY <3>2, ConstantFacts
    <3> QED
      BY <1>2, <1>4, <2>2, <2>4, <3>1, <3>3 DEF HeldOK
  <2>7. Sound(e, d, user[e])
    BY <1>2, <2>2, <2>4, <2>5, <2>6 DEF Sound, ShapeOK
  <2>8. Take(e, d, {Eack(e, m)})
    BY <1>2, <1>4, <2>1, <2>3 DEF OutOfOrder
  <2>9. {Eack(e, m)} \in SUBSET Packet
    BY <2>2, PacketFacts
  <2> QED
    BY <2>4, <2>7, <2>8, <2>9, TakeOK
<1> QED
  BY <1>3, <1>4

(* csp_rdp_rx_queue_flush: there is a first gap in what is held, and what lies  *)
(* behind it stays.                                                          *)
LEMMA RunFacts ==
    ASSUME NEW c \in Connection, \A q \in c.held : Gap(q.seq, c.cur) \in 1 .. 2 * Window - 1
    PROVE  /\ Run(c) \in 0 .. 2 * Window
           /\ \A i \in 1 .. Run(c) : \E q \in c.held : q.seq = Plus(c.cur, i)
           /\ \A q \in c.held : q.seq # Plus(c.cur, Run(c) + 1)
<1> DEFINE T == {n \in 0 .. 2 * Window : \A q \in c.held : q.seq # Plus(c.cur, n + 1)}
<1>1. 2 * Window \in T
  <2>1. 2 * Window + 1 \in 0 .. SeqMod - 1 /\ c.cur \in SeqNrs
    BY ConstantFacts DEF Connection
  <2>2. Gap(Plus(c.cur, 2 * Window + 1), c.cur) = 2 * Window + 1
    BY <2>1, GapPlus
  <2>3. \A q \in c.held : q.seq # Plus(c.cur, 2 * Window + 1)
    BY <2>2, ConstantFacts
  <2>4. 2 * Window \in 0 .. 2 * Window
    BY ConstantFacts
  <2> QED
    BY <2>3, <2>4
<1>2. T \subseteq Nat /\ T # {}
  <2>1. T \subseteq 0 .. 2 * Window /\ 0 .. 2 * Window \subseteq Nat
    BY ConstantFacts
  <2> QED
    BY <1>1, <2>1
<1>3. PICK x \in T : \A y \in T : x <= y
  <2> HIDE DEF T
  <2> QED
    BY <1>2, LeastNumber
<1>4. ASSUME NEW i \in 1 .. x PROVE \E q \in c.held : q.seq = Plus(c.cur, i)
  <2>1. PICK n \in 0 .. 2 * Window : n = i - 1 /\ n < x /\ n + 1 = i
    BY <1>3, ConstantFacts
  <2>2. n \notin T
    BY <1>2, <1>3, <2>1
  <2> QED
    BY <2>1, <2>2
<1>5. \E n \in 0 .. 2 * Window :
        /\ \A i \in 1 .. n : \E q \in c.held : q.seq = Plus(c.cur, i)
        /\ \A q \in c.held : q.seq # Plus(c.cur, n + 1)
  BY <1>3, <1>4
<1> QED
  BY <1>5 DEF Run

LEMMA FlushedOK ==
    ASSUME NEW c \in Connection, \A q \in c.held : Gap(q.seq, c.cur) \in 1 .. 2 * Window - 1,
           Len(c.rxq) <= RxqLen
    PROVE  \E d \in Connection :
               /\ d = Flushed(c) /\ Len(d.rxq) <= RxqLen /\ d.held \subseteq c.held
               /\ \A q \in d.held : Gap(q.seq, d.cur) \in 2 .. 2 * Window
               /\ d.tx = c.tx /\ d.nxt = c.nxt /\ d.iss = c.iss /\ d.irs = c.irs
               /\ d.open = c.open /\ d.wake = c.wake /\ d.state = c.state
               /\ d.una = c.una /\ d.copies = c.copies
<1>1. PICK n \in 0 .. 2 * Window :
           /\ n = Run(c)
           /\ \A i \in 1 .. n : \E q \in c.held : q.seq = Plus(c.cur, i)
           /\ \A q \in c.held : q.seq # Plus(c.cur, n + 1)
  BY RunFacts
<1>2. PICK r : r = c.rxq /\ r \in Seq(0 .. MaxData) /\ Len(r) \in 0 .. RxqLen
  <2>1. c.rxq \in Seq(0 .. MaxData) /\ Len(c.rxq) \in Nat
    BY LenProperties DEF Connection
  <2>2. Len(c.rxq) \in 0 .. RxqLen
    BY <2>1, ConstantFacts
  <2> QED
    BY <2>1, <2>2
<1>3. PICK k \in 0 .. n : k = (IF RxqLen - Len(r) < n THEN RxqLen - Len(r) ELSE n) /\ k <= RxqLen - Len(r)
  BY <1>1, <1>2, ConstantFacts
<1>4. PICK s : s = [i \in 1 .. k |-> DataAt(c, i)]
  OBVIOUS
<1>5. s \in Seq(0 .. MaxData) /\ Len(s) = k
  <2>1. ASSUME NEW i \in 1 .. k PROVE DataAt(c, i) \in 0 .. MaxData
    <3>1. i \in 1 .. n
      BY <1>1, <1>3
    <3>2. \E q \in c.held : q.seq = Plus(c.cur, i)
      BY <1>1, <3>1
    <3> QED
      BY <3>2 DEF DataAt, Connection, Packet
  <2>2. k \in Nat
    BY <1>1, <1>3
  <2> QED
    BY <1>4, <2>1, <2>2, SeqDef, LenProperties
<1>6. r \o s \in Seq(0 .. MaxData) /\ Len(r \o s) = Len(r) + Len(s)
  BY <1>2, <1>5, ConcatFacts
<1>7. Plus(c.cur, n) \in SeqNrs /\ c.cur \in SeqNrs /\ n \in 0 .. SeqMod - 1
  <2>1. c.cur \in SeqNrs /\ n \in 0 .. SeqMod - 1
    BY ConstantFacts DEF Connection
  <2> QED
    BY <2>1, PlusFacts
<1>8. PICK H : H = {q \in c.held : \A i \in 1 .. n : q.seq # Plus(c.cur, i)}
  OBVIOUS
<1>9. PICK d : d = [c EXCEPT !.rxq = r \o s, !.held = H, !.cur = Plus(c.cur, n)]
  OBVIOUS
<1>10. d = Flushed(c)
  BY <1>1, <1>2, <1>3, <1>4, <1>8, <1>9 DEF Flushed
<1>11. /\ d \in Connection /\ d.rxq = r \o s /\ d.held = H /\ d.cur = Plus(c.cur, n)
       /\ d.tx = c.tx /\ d.nxt = c.nxt /\ d.iss = c.iss /\ d.irs = c.irs
       /\ d.open = c.open /\ d.wake = c.wake /\ d.state = c.state
       /\ d.una = c.una /\ d.copies = c.copies
  BY <1>6, <1>7, <1>8, <1>9 DEF Connection
<1>12. Len(d.rxq) <= RxqLen
  BY <1>2, <1>3, <1>5, <1>6, <1>11, ConstantFacts
<1>13. ASSUME NEW q \in H PROVE Gap(q.seq, d.cur) \in 2 .. 2 * Window
  <2>1. q \in c.held /\ q.seq \in SeqNrs /\ \A i \in 1 .. n : q.seq # Plus(c.cur, i)
    BY <1>8 DEF Connection, Packet
  <2>2. PICK g \in 1 .. 2 * Window - 1 : g = Gap(q.seq, c.cur)
    BY <2>1
  <2>3. g \in 0 .. SeqMod - 1 /\ Plus(c.cur, g) \in SeqNrs
    <3>1. g \in 0 .. SeqMod - 1
      BY <2>2, ConstantFacts
    <3> QED
      BY <1>7, <3>1, PlusFacts
  <2>4. q.seq = Plus(c.cur, g)
    <3>1. Gap(Plus(c.cur, g), c.cur) = g
      BY <1>7, <2>3, GapPlus
    <3> QED
      BY <1>7, <2>1, <2>2, <2>3, <3>1, SameGap
  <2>5. g \notin 1 .. n /\ g # n + 1
    BY <1>1, <2>1, <2>4
  <2>6. g >= n + 2
    BY <1>1, <2>2, <2>5, ConstantFacts
  <2>7. Gap(q.seq, Plus(c.cur, n)) = g - n
    BY <1>1, <1>7, <2>1, <2>2, <2>6, GapShift
  <2> QED
    BY <1>1, <1>11, <2>2, <2>6, <2>7, ConstantFacts
<1>14. H \subseteq c.held
  BY <1>8
<1> QED
  BY <1>10, <1>11, <1>12, <1>13, <1>14

LEMMA InOrderTakes ==
    ASSUME Inv, NEW e \in Ends, NEW p, NEW early \in BOOLEAN, InOrder(e, p, early)
    PROVE  \E d \in Connection, out \in SUBSET Packet :
             /\ Take(e, d, out) /\ Sound(e, d, user[e])
             /\ LET a == Accepted(e, p)
                IN /\ d.tx = a.tx /\ d.iss = a.iss /\ d.una = a.una /\ d.open = a.open
                   /\ d.state = "OPEN" /\ d.copies = a.copies
<1>1. p \in Packet /\ p.seq = Plus(For(e).cur, 1)
  BY ValidFacts DEF InOrder
<1>2. PICK a \in Connection : /\ a = Accepted(e, p) /\ Sound(e, a, user[e]) /\ a.state = "OPEN"
                              /\ a.cur = For(e).cur /\ a.rxq = For(e).rxq
  BY ValidFacts DEF InOrder
<1>3. TxOK(e, a, user[e]) /\ HeldOK(a) /\ ShapeOK(a)
  BY <1>2 DEF Sound
<1>4. PICK b : b = Posted(a)
  OBVIOUS
<1>5. /\ b \in Connection /\ b.tx = a.tx /\ b.nxt = a.nxt /\ b.iss = a.iss /\ b.irs = a.irs
      /\ b.held = a.held /\ b.cur = a.cur /\ b.open = a.open /\ b.wake = a.wake
      /\ b.state = a.state /\ b.rxq = a.rxq /\ b.una = a.una /\ b.copies = a.copies
  <2>1. a.queued + 1 \in Nat
    BY DEF Connection
  <2> QED
    BY <1>4, <2>1 DEF Posted, Connection
<1>6. CASE Len(For(e).rxq) = RxqLen
  <2>1. Take(e, b, {})
    BY <1>2, <1>4, <1>6 DEF InOrder
  <2>2. Len(b.rxq) <= RxqLen
    BY <1>3, <1>5 DEF ShapeOK
  <2>3. Sound(e, b, user[e])
    BY <1>2, <1>5, <2>2, SoundAlike
  <2> QED
    BY <1>2, <1>5, <2>1, <2>3
<1>7. CASE Len(For(e).rxq) # RxqLen
  <2>1. PICK r : r = a.rxq /\ r \in Seq(0 .. MaxData) /\ Len(r) < RxqLen /\ Len(r) \in Nat
    <3>1. a.rxq \in Seq(0 .. MaxData) /\ Len(a.rxq) \in Nat
      BY LenProperties DEF Connection
    <3> QED
      BY <1>2, <1>3, <1>7, <3>1, ConstantFacts DEF ShapeOK
  <2>2. p.data \in 0 .. MaxData /\ p.seq \in SeqNrs
    BY <1>1 DEF Packet
  <2>3. Append(r, p.data) \in Seq(0 .. MaxData) /\ Len(Append(r, p.data)) <= RxqLen
    <3>1. Append(r, p.data) \in Seq(0 .. MaxData) /\ Len(Append(r, p.data)) = Len(r) + 1
      BY <2>1, <2>2, QueueFacts
    <3> QED
      BY <2>1, <3>1, ConstantFacts
  <2>4. PICK c : c = Received(a, p)
    OBVIOUS
  <2>5. /\ c \in Connection /\ c.tx = a.tx /\ c.nxt = a.nxt /\ c.iss = a.iss /\ c.irs = a.irs
        /\ c.held = a.held /\ c.cur = p.seq /\ c.open = a.open /\ c.wake = a.wake
        /\ c.state = "OPEN" /\ c.rxq = Append(r, p.data) /\ c.una = a.una
        /\ c.copies = a.copies
    <3>1. c = [b EXCEPT !.rxq = Append(r, p.data), !.cur = p.seq]
      BY <1>4, <1>5, <2>1, <2>4 DEF Received
    <3> QED
      BY <1>2, <1>5, <2>2, <2>3, <3>1 DEF Connection
  <2>6. PICK acks \in BOOLEAN : acks = (Len(c.rxq) + Window <= RxqLen /\ (early \/ Overdue(c)))
    OBVIOUS
  <2>7. PICK f : f = IF acks THEN Acking(c) ELSE c
    OBVIOUS
  <2>8. /\ f \in Connection /\ f.tx = a.tx /\ f.nxt = a.nxt /\ f.iss = a.iss /\ f.irs = a.irs
        /\ f.held = a.held /\ f.cur = p.seq /\ f.open = a.open /\ f.wake = a.wake
        /\ f.state = "OPEN" /\ f.rxq = Append(r, p.data) /\ f.una = a.una
        /\ f.copies = a.copies
    BY <2>5, <2>7 DEF Acking, Connection
  <2>9. ASSUME NEW q \in f.held PROVE Gap(q.seq, f.cur) \in 1 .. 2 * Window - 1
    <3>1. PICK g \in 2 .. 2 * Window : g = Gap(q.seq, a.cur)
      BY <1>2, <1>3, <2>8, <2>9 DEF HeldOK
    <3>2. q.seq \in SeqNrs /\ a.cur \in SeqNrs /\ 1 \in 0 .. SeqMod - 1
      <4>1. 1 \in 0 .. SeqMod - 1
        BY ConstantFacts
      <4>2. q \in Packet
        BY <2>8, <2>9 DEF Connection
      <4> QED
        BY <1>2, <4>1, <4>2 DEF Connection, Packet
    <3>3. Gap(q.seq, Plus(a.cur, 1)) = g - 1
      BY <3>1, <3>2, GapShift, ConstantFacts
    <3> QED
      BY <1>1, <1>2, <2>8, <3>1, <3>3, ConstantFacts
  <2>10. PICK d \in Connection :
               /\ d = Flushed(f) /\ Len(d.rxq) <= RxqLen /\ d.held \subseteq f.held
               /\ \A q \in d.held : Gap(q.seq, d.cur) \in 2 .. 2 * Window
               /\ d.tx = f.tx /\ d.nxt = f.nxt /\ d.iss = f.iss /\ d.irs = f.irs
               /\ d.open = f.open /\ d.wake = f.wake /\ d.state = f.state
               /\ d.una = f.una /\ d.copies = f.copies
    <3>1. Len(f.rxq) <= RxqLen
      BY <2>3, <2>8
    <3> QED
      BY <2>8, <2>9, <3>1, FlushedOK
  <2>11. TxOK(e, d, user[e])
    <3>1. d.tx = a.tx /\ d.nxt = a.nxt /\ d.state = "OPEN" /\ d.wake = a.wake
      BY <2>8, <2>10
    <3> QED
      BY <1>3, <3>1, TxLess
  <2>12. HeldOK(d)
    <3>1. \A q, s \in d.held : q.seq = s.seq => q = s
      BY <1>2, <1>3, <2>8, <2>10 DEF HeldOK
    <3> QED
      BY <2>8, <2>10, <3>1 DEF HeldOK
  <2>13. Sound(e, d, user[e])
    BY <1>2, <1>3, <2>8, <2>10, <2>11, <2>12 DEF Sound, ShapeOK
  <2>14. Take(e, d, IF acks THEN {Ack(e, c)} ELSE {})
    BY <1>2, <1>7, <2>4, <2>6, <2>7, <2>10 DEF InOrder
  <2>15. (IF acks THEN {Ack(e, c)} ELSE {}) \in SUBSET Packet
    BY <2>5, PacketFacts
  <2>16. /\ d.tx = a.tx /\ d.iss = a.iss /\ d.una = a.una /\ d.open = a.open
         /\ d.state = "OPEN" /\ d.copies = a.copies
    BY <2>8, <2>10
  <2> QED
    BY <1>2, <2>13, <2>14, <2>15, <2>16
<1> QED
  BY <1>6, <1>7

LEMMA InOrderOK ==
    ASSUME Inv, NEW e \in Ends, NEW p, NEW early \in BOOLEAN, InOrder(e, p, early)
    PROVE  Inv'
<1>1. PICK d \in Connection, out \in SUBSET Packet : Take(e, d, out) /\ Sound(e, d, user[e])
  BY InOrderTakes
<1> QED
  BY <1>1, TakeOK

LEMMA NewPacketOK ==
    ASSUME Inv, NEW e \in Ends, NEW p, NewPacket(e, p)
    PROVE  Inv'
<1>1. CASE ResetClosing(e, p) \/ ResetInSequence(e, p) \/ ResetOutOfSequence(e, p)
  BY <1>1, ResetClosingOK, ResetInSequenceOK, ResetOutOfSequenceOK
<1>2. CASE NotSyn(e, p) \/ SynReceived(e, p) \/ SynAcked(e, p) \/ HalfOpen(e, p)
  BY <1>2, NotSynOK, SynReceivedOK, SynAckedOK, HalfOpenOK
<1>3. CASE InvalidSyn(e, p) \/ OutOfWindow(e, p) \/ InvalidAck(e, p) \/ WrongAck(e, p)
  BY <1>3, InvalidSynOK, OutOfWindowOK, InvalidAckOK, WrongAckOK
<1>4. CASE NoData(e, p) \/ OutOfOrder(e, p) \/ CloseWait(e, p)
  BY <1>4, NoDataOK, OutOfOrderOK, CloseWaitOK
<1>5. CASE \E early \in BOOLEAN : InOrder(e, p, early)
  BY <1>5, InOrderOK
<1> QED
  BY <1>1, <1>2, <1>3, <1>4, <1>5 DEF NewPacket

-----------------------------------------------------------------------------
(* csp_rdp_check_timeouts.                                                   *)
LEMMA ExpireOK ==
    ASSUME Inv, NEW e \in Ends, Expire(e)
    PROVE  Inv'
<1>1. PICK c \in Connection : c = conn[e] /\ Sound(e, c, user[e])
  BY DEF Inv, EndOK
<1>2. /\ Closed(c) \in Connection /\ Sound(e, Closed(c), user[e]) /\ FlightOK(e, Closed(c), user[e])
      /\ ClosePackets(e, c) \in SUBSET Packet
  BY <1>1, ClosedOK
<1>3. /\ conn' = [conn EXCEPT ![e] = Closed(c)] /\ net' = net \union ClosePackets(e, c)
      /\ user' = user /\ sent' = sent /\ got' = got /\ Turn
  BY <1>1 DEF Expire, Becomes
<1>4. WorkOK'
  <2>1. WorkOK
    BY DEF Inv
  <2>2. turns' \in 0 .. MaxWork
    BY <1>3, <2>1, TurnOK
  <2> QED
    BY <1>2, <1>3, <2>1, <2>2 DEF WorkOK
<1> QED
  BY <1>2, <1>3, <1>4, OneEnd

LEMMA MaintainOK ==
    ASSUME Inv, NEW e \in Ends, NEW late, NEW early, Maintain(e, late, early)
    PROVE  Inv'
<1>1. PICK c \in Connection : c = conn[e] /\ Sound(e, c, user[e]) /\ c.state # "CLOSED"
  BY DEF Inv, EndOK, Sound, ShapeOK, Maintain
<1>2. conn \in [Ends -> Connection] /\ net \subseteq Packet /\ WorkOK
  BY DEF Inv, WorkOK
<1>3. Serviced(e, c, late, early, {}) /\ UNCHANGED <<user, turns, sent, got>>
  BY <1>1 DEF Maintain
<1>4. /\ \E d \in Connection : conn' = [conn EXCEPT ![e] = d] /\ Sound(e, d, user[e]) /\ FlightOK(e, d, user[e])
      /\ net' \subseteq Packet
  BY <1>1, <1>2, <1>3, ServicedOK
<1>5. WorkOK'
  BY <1>2, <1>3, <1>4 DEF WorkOK
<1> QED
  BY <1>3, <1>4, <1>5, OneEnd

-----------------------------------------------------------------------------
(* The user tasks.                                                           *)
LEMMA UserOK ==
    ASSUME Inv, NEW e \in Ends, NEW d \in Connection, NEW out \in SUBSET Packet,
           NEW next \in {"start", "connecting", "retrying", "open", "window", "closed"},
           UserStep(e, d, out, next), Sound(e, d, next), FlightOK(e, d, next),
           turns' \in 0 .. MaxWork, sent' \in 0 .. MaxData, got' \in Seq(1 .. MaxData)
    PROVE  Inv'
<1>1. /\ user' = [user EXCEPT ![e] = next] /\ conn' = [conn EXCEPT ![e] = d]
      /\ net' = net \union out
  BY DEF UserStep, Becomes
<1>2. WorkOK
  BY DEF Inv
<1>3. user'[e] = next /\ \A o \in Ends \ {e} : user'[o] = user[o]
  BY <1>1, <1>2 DEF WorkOK
<1>4. WorkOK'
  BY <1>1, <1>2 DEF WorkOK
<1> QED
  BY <1>1, <1>3, <1>4, OneEnd

LEMMA EndFacts ==
    ASSUME Inv, NEW e \in Ends
    PROVE  /\ conn[e] \in Connection /\ Sound(e, conn[e], user[e]) /\ FlightOK(e, conn[e], user[e])
           /\ Len(conn[e].rxq) <= RxqLen
           /\ turns \in 0 .. MaxWork /\ sent \in 0 .. MaxData /\ got \in Seq(1 .. MaxData)
BY DEF Inv, EndOK, Sound, ShapeOK, WorkOK

LEMMA ConnectingOK ==
    ASSUME Inv, NEW next \in {"connecting", "retrying"},
           LET c == Connecting(conn["client"]) IN UserStep("client", c, c.tx, next),
           UNCHANGED <<turns, sent, got>>
    PROVE  Inv'
<1>1. PICK b \in Connection : b = conn["client"] /\ Len(b.rxq) <= RxqLen
  BY EndFacts DEF Ends
<1>2. PICK iss \in SeqNrs : iss = Rand["client"][b.iss]
  BY RdpAssumption DEF Connection, Ends
<1>3. PICK c : c = [b EXCEPT !.open = TRUE, !.posted = TRUE, !.state = "SYN_SENT", !.iss = iss,
                      !.nxt = Plus(iss, 1), !.una = iss, !.wake = FALSE, !.held = {}]
  OBVIOUS
<1>4. Plus(iss, 1) \in SeqNrs
  BY NextNr
<1>5. /\ c \in Connection /\ c.held = {} /\ c.open /\ c.rxq = b.rxq /\ c.wake = FALSE
      /\ c.state = "SYN_SENT" /\ c.nxt = Plus(iss, 1) /\ c.iss = iss
  BY <1>3, <1>4 DEF Connection, States
<1>6. PICK s \in Packet : s = Syn("client", c) /\ s.seq = iss
  BY <1>5, PacketFacts DEF Ends
<1>7. PICK d : d = [c EXCEPT !.tx = {s}]
  OBVIOUS
<1>8. /\ d \in Connection /\ d.tx = {s} /\ d.held = {} /\ d.open /\ d.rxq = b.rxq
      /\ d.state = "SYN_SENT" /\ d.nxt = Plus(iss, 1) /\ d.wake = FALSE
  BY <1>5, <1>6, <1>7 DEF Connection
<1>9. d = Connecting(b)
  BY <1>2, <1>3, <1>6, <1>7 DEF Connecting
<1>10. IsFiniteSet(d.tx) /\ Cardinality(d.tx) \in 0 .. 1 /\ \A r \in d.tx : Lag(d, r) = 1
  BY <1>6, <1>8, OneSent
<1>11. TxOK("client", d, next)
  BY <1>8, <1>10, ConstantFacts, SpanFacts DEF TxOK
<1>12. Sound("client", d, next) /\ FlightOK("client", d, next)
  BY <1>1, <1>8, <1>11 DEF Sound, ShapeOK, HeldOK, FlightOK
<1>13. UserStep("client", d, {s}, next)
  BY <1>1, <1>8, <1>9
<1> QED
  BY <1>6, <1>8, <1>12, <1>13, UserOK, EndFacts DEF Ends

LEMMA ConnectOK ==
    ASSUME Inv, Connect
    PROVE  Inv'
BY ConnectingOK DEF Connect

LEMMA ConnectAgainOK ==
    ASSUME Inv, ConnectAgain
    PROVE  Inv'
BY ConnectingOK DEF ConnectAgain

(* The user of the client goes on, with the semaphore taken.                  *)
LEMMA GoesOn ==
    ASSUME Inv, NEW next \in {"open", "window"},
           UserStep("client", [conn["client"] EXCEPT !.wake = FALSE], {}, next),
           conn["client"].state = "OPEN" \/ user["client"] \in {"open", "window"},
           UNCHANGED <<turns, sent, got>>
    PROVE  Inv'
<1>1. "client" \in Ends
  BY DEF Ends
<1>2. PICK c \in Connection : /\ c = conn["client"] /\ Len(c.rxq) <= RxqLen
                              /\ Sound("client", c, user["client"])
                              /\ FlightOK("client", c, user["client"])
  BY <1>1, EndFacts
<1>3. PICK d : d = [c EXCEPT !.wake = FALSE]
  OBVIOUS
<1>4. /\ d \in Connection /\ d.tx = c.tx /\ d.nxt = c.nxt /\ d.iss = c.iss /\ d.irs = c.irs
      /\ d.held = c.held /\ d.cur = c.cur /\ d.open = c.open /\ d.wake = FALSE
      /\ d.state = c.state /\ d.rxq = c.rxq /\ d.una = c.una
  BY <1>3 DEF Connection
<1>5. c.state # "SYN_SENT"
  BY <1>2 DEF Sound, TxOK
<1>6. TxOK("client", d, next)
  BY <1>2, <1>4, <1>5 DEF Sound, TxOK, Lag, SynAck
<1>7. HeldOK(d) /\ ShapeOK(d)
  BY <1>2, <1>4 DEF Sound, HeldOK, ShapeOK
<1>8. FlightOK("client", d, next)
  <2>1. InFlight(d) = InFlight(c) /\ \A q : Lag(d, q) = Lag(c, q)
    BY <1>4 DEF InFlight, Lag
  <2> QED
    BY <1>2, <1>4, <2>1 DEF FlightOK
<1>9. UserStep("client", d, {}, next)
  BY <1>2, <1>3
<1> QED
  BY <1>1, <1>4, <1>6, <1>7, <1>8, <1>9, UserOK, EndFacts DEF Sound

LEMMA ConnectedOK ==
    ASSUME Inv, Connected
    PROVE  Inv'
BY GoesOn DEF Connected

LEMMA WaitForWindowOK ==
    ASSUME Inv, WaitForWindow
    PROVE  Inv'
BY GoesOn DEF WaitForWindow

LEMMA SendFailsOK ==
    ASSUME Inv, SendFails
    PROVE  Inv'
BY GoesOn DEF SendFails

LEMMA ConnectFailedOK ==
    ASSUME Inv, ConnectFailed
    PROVE  Inv'
<1>1. "client" \in Ends
  BY DEF Ends
<1>2. PICK b \in Connection : b = conn["client"] /\ Sound("client", b, user["client"])
  BY <1>1, EndFacts
<1>3. PICK c : c = [b EXCEPT !.state = "CLOSE_WAIT", !.wake = FALSE]
  OBVIOUS
<1>4. c \in Connection /\ c.state = "CLOSE_WAIT"
  BY <1>3 DEF Connection, States
<1>5. PICK d : d = Closed(c)
  OBVIOUS
<1>6. d \in Connection /\ Sound("client", d, "closed") /\ FlightOK("client", d, "closed")
  <2>1. ~Lingers(c)
    BY <1>4 DEF Lingers
  <2> QED
    BY <1>1, <1>4, <1>5, <2>1, ClearedOK
<1>7. UserStep("client", d, {}, "closed") /\ Turn /\ UNCHANGED <<sent, got>>
  BY <1>2, <1>3, <1>5 DEF ConnectFailed
<1>8. turns' \in 0 .. MaxWork
  BY <1>7, TurnOK DEF Inv
<1> QED
  BY <1>1, <1>6, <1>7, <1>8, UserOK, EndFacts

(* csp_rdp_send: the packet takes the number snd_nxt.  A user that found room   *)
(* in the window at once relies on snd_una, one that has been woken on the      *)
(* length of tx_queue.                                                       *)
LEMMA SendQueue ==
    ASSUME NEW u, NEW c \in Connection, NEW d \in Connection, NEW p \in Packet,
           TxOK("client", c, u), FlightOK("client", c, u), c.state = "OPEN",
           \/ u = "open" /\ InFlight(c) <= Window
           \/ u = "window" /\ c.wake,
           p.seq = c.nxt, d.tx = c.tx \union {p}, d.nxt = Plus(c.nxt, 1), d.una = c.una,
           d.state = "OPEN"
    PROVE  TxOK("client", d, "open") /\ FlightOK("client", d, "open")
<1>1. PICK j \in 0 .. SeqMod - 1 :
           /\ j = InFlight(c)
           /\ j <= Window + 1 => \A q \in c.tx : Lag(c, q) <= j + 1
           /\ u = "window" /\ j = SeqMod - 1 => c.tx = {}
  <2>1. InFlight(c) \in 0 .. SeqMod - 1
    BY FlightFacts
  <2> QED
    BY <2>1 DEF FlightOK
<1>2. c.nxt \in SeqNrs /\ c.una \in SeqNrs /\ 1 \in 0 .. SeqMod - 1 /\ \A q \in d.tx : q.seq \in SeqNrs
  <2>1. 1 \in 0 .. SeqMod - 1
    BY ConstantFacts
  <2> QED
    BY <2>1 DEF Connection, Packet
<1>3. Lag(d, p) = 1
  BY <1>2, GapPlus DEF Lag
<1>4. ASSUME NEW q \in c.tx PROVE Lag(c, q) \in 1 .. Span /\ Lag(d, q) = Lag(c, q) + 1
  <2>1. PICK k \in 1 .. Span : k = Lag(c, q)
    BY DEF TxOK
  <2>2. PICK n \in SeqNrs, s \in SeqNrs, m \in SeqNrs : n = c.nxt /\ s = q.seq /\ m = Plus(n, 1)
    BY <1>2, <1>4, NextNr
  <2>3. /\ m = IF n + 1 < SeqMod THEN n + 1 ELSE n + 1 - SeqMod
        /\ Gap(n, s) = IF n >= s THEN n - s ELSE n - s + SeqMod
        /\ Gap(m, s) = IF m >= s THEN m - s ELSE m - s + SeqMod
    BY <2>2, NextNr, GapFacts
  <2>4. k = Gap(n, s) /\ Lag(d, q) = Gap(m, s)
    BY <2>1, <2>2 DEF Lag
  <2>5. PICK g \in Int : g = Gap(m, s)
    BY <2>2, GapFacts, ConstantFacts
  <2>6. g = k + 1
    <3>1. PICK M \in Nat, K \in Nat : M = SeqMod /\ K = Span /\ K < M - 1
      BY ConstantFacts, SpanFacts
    <3>2. n \in 0 .. M - 1 /\ s \in 0 .. M - 1 /\ k \in 1 .. K
      BY <2>1, <2>2, <3>1, ConstantFacts
    <3>3. /\ m = IF n + 1 < M THEN n + 1 ELSE n + 1 - M
          /\ k = IF n >= s THEN n - s ELSE n - s + M
          /\ g = IF m >= s THEN m - s ELSE m - s + M
      BY <2>3, <2>4, <2>5, <3>1
    <3> QED
      BY ONLY <3>1, <3>2, <3>3
  <2> QED
    BY <2>1, <2>4, <2>5, <2>6
<1>5. \A q \in c.tx : Lag(c, q) < Span
  <2>1. CASE u = "open"
    BY <1>1, <1>4, <2>1, SpanFacts, ConstantFacts
  <2>2. CASE u = "window" /\ c.wake
    BY <2>2 DEF TxOK
  <2> QED
    BY <2>1, <2>2
<1>6. IsFiniteSet(c.tx) /\ Cardinality(c.tx) \in Nat /\ Cardinality(c.tx) <= Window + 1
  <2>1. IsFiniteSet(c.tx) /\ Cardinality(c.tx) \in Nat
    BY FS_CardinalityType DEF TxOK
  <2>2. CASE u = "open"
    <3>1. \A q \in c.tx : Lag(c, q) \in 1 .. Window + 1
      BY <1>1, <1>4, <2>2, SpanFacts, ConstantFacts
    <3>2. Window + 1 \in Nat /\ \A q, r \in c.tx : q.seq = r.seq => q = r
      BY ConstantFacts DEF TxOK
    <3> QED
      BY <2>1, <3>1, <3>2, FewLags
  <2>3. CASE u = "window" /\ c.wake
    BY <2>1, <2>3, ConstantFacts DEF TxOK
  <2> QED
    BY <2>1, <2>2, <2>3
<1>7. p \notin c.tx /\ \A q \in c.tx : q.seq # p.seq
  <2> SUFFICES ASSUME NEW q \in c.tx, q.seq = p.seq PROVE FALSE
    OBVIOUS
  <2>1. Lag(c, q) = 0
    <3>1. PICK n \in SeqNrs : n = c.nxt /\ n = q.seq /\ n \in Int
      BY <1>2, ConstantFacts
    <3>2. Gap(n, n) = IF n >= n THEN n - n ELSE n - n + SeqMod
      BY GapFacts
    <3> QED
      BY <3>1, <3>2 DEF Lag
  <2> QED
    BY <1>4, <2>1, SpanFacts
<1>8. IsFiniteSet(d.tx) /\ Cardinality(d.tx) <= Window + 2
  <2>1. IsFiniteSet(d.tx) /\ Cardinality(d.tx) = Cardinality(c.tx) + 1
    BY <1>6, <1>7, FS_AddElement
  <2> QED
    BY <1>6, <2>1, ConstantFacts
<1>9. /\ \A q \in d.tx : Lag(d, q) \in 1 .. Span
      /\ \A q, r \in d.tx : q.seq = r.seq => q = r
  <2>1. ASSUME NEW q \in d.tx PROVE Lag(d, q) \in 1 .. Span
    <3>1. CASE q = p
      BY <1>3, <3>1, SpanFacts
    <3>2. CASE q \in c.tx
      BY <1>4, <1>5, <3>2, SpanFacts
    <3> QED
      BY <3>1, <3>2
  <2>2. \A q, r \in c.tx : q.seq = r.seq => q = r
    BY DEF TxOK
  <2> QED
    BY <1>7, <2>1, <2>2
<1>10. FlightOK("client", d, "open")
  <2>1. PICK i \in 0 .. SeqMod - 1 : /\ i = InFlight(d)
                                     /\ j + 1 < SeqMod => i = j + 1
                                     /\ j + 1 = SeqMod => i = 0
    <3>1. PICK n \in SeqNrs, a \in SeqNrs, m \in SeqNrs : n = c.nxt /\ a = c.una /\ m = Plus(n, 1) /\ m = d.nxt
      BY <1>2 DEF Connection
    <3>2. /\ m = IF n + 1 < SeqMod THEN n + 1 ELSE n + 1 - SeqMod
          /\ Gap(n, a) = IF n >= a THEN n - a ELSE n - a + SeqMod
          /\ Gap(m, a) = IF m >= a THEN m - a ELSE m - a + SeqMod
      BY <3>1, NextNr, GapFacts
    <3>3. PICK i \in 0 .. SeqMod - 1 : i = InFlight(d)
      BY FlightFacts
    <3>4. PICK g \in SeqNrs, h \in SeqNrs : g = Gap(n, a) /\ h = Gap(m, a)
      BY <3>1, GapFacts
    <3>5. /\ g + 1 < SeqMod => j = g + 1
          /\ g + 1 = SeqMod => j = 0
          /\ h + 1 < SeqMod => i = h + 1
          /\ h + 1 = SeqMod => i = 0
      BY <1>1, <3>1, <3>3, <3>4, FlightFacts
    <3>6. h = IF g + 1 < SeqMod THEN g + 1 ELSE 0
      <4>1. PICK M \in Nat : M = SeqMod
        BY ConstantFacts
      <4>2. n \in 0 .. M - 1 /\ a \in 0 .. M - 1 /\ g \in 0 .. M - 1 /\ h \in 0 .. M - 1
        BY <3>1, <3>4, <4>1, ConstantFacts
      <4>3. /\ m = IF n + 1 < M THEN n + 1 ELSE n + 1 - M
            /\ g = IF n >= a THEN n - a ELSE n - a + M
            /\ h = IF m >= a THEN m - a ELSE m - a + M
        BY <3>2, <3>4, <4>1
      <4>4. h = IF g + 1 < M THEN g + 1 ELSE 0
        BY ONLY <4>1, <4>2, <4>3
      <4> QED
        BY <4>1, <4>4
    <3> QED
      BY <3>3, <3>4, <3>5, <3>6, ConstantFacts
  <2>2. ASSUME i <= Window + 1, NEW q \in d.tx PROVE Lag(d, q) <= i + 1
    <3>1. CASE q = p
      BY <1>3, <2>1, <3>1, ConstantFacts
    <3>2. CASE q \in c.tx
      <4>1. j + 1 < SeqMod
        <5> SUFFICES ASSUME j + 1 = SeqMod PROVE FALSE
          BY <1>1, ConstantFacts
        <5>1. c.tx # {} /\ j > Window
          BY <3>2, <1>1, ConstantFacts
        <5>2. j = SeqMod - 1
          BY <1>1, ConstantFacts
        <5> QED
          BY <1>1, <5>1, <5>2, ConstantFacts
      <4>2. i = j + 1 /\ Lag(c, q) <= j + 1
        BY <1>1, <2>1, <2>2, <3>2, <4>1, ConstantFacts
      <4>3. PICK k \in 1 .. Span : k = Lag(c, q) /\ Lag(d, q) = k + 1
        BY <1>4, <3>2
      <4> QED
        BY <1>1, <4>2, <4>3
    <3> QED
      BY <3>1, <3>2
  <2> QED
    BY <2>1, <2>2 DEF FlightOK
<1> QED
  BY <1>8, <1>9, <1>10 DEF TxOK

LEMMA SendOK ==
    ASSUME Inv, Send
    PROVE  Inv'
<1>1. "client" \in Ends
  BY DEF Ends
<1>2. PICK u : u = user["client"]
  OBVIOUS
<1>2a. PICK c \in Connection : /\ c = conn["client"] /\ Len(c.rxq) <= RxqLen
                               /\ Sound("client", c, u) /\ FlightOK("client", c, u)
  BY <1>1, <1>2, EndFacts
<1>3. sent' = sent + 1 /\ sent + 1 \in 0 .. MaxData /\ sent \in Nat
  <2>1. sent \in 0 .. MaxData /\ turns \in 0 .. MaxWork
    BY <1>1, EndFacts
  <2>2. MaxData \in Nat
    BY RdpAssumption DEF MaxData
  <2>3. sent + 1 \in Nat /\ turns \in Nat /\ sent' = sent + 1
    BY <2>1, <2>2, RdpAssumption DEF Send
  <2>4. SendWork * (sent + 1) + TurnWork * turns <= MaxWork
    BY DEF Send, CanSend
  <2>5. sent + 1 <= MaxWork \div SendWork
    BY <2>3, <2>4, Costs, RdpAssumption
  <2> QED
    BY <2>1, <2>2, <2>3, <2>5 DEF MaxData
<1>4. PICK b \in Packet : b = Bare("client", {"ACK"}, c.nxt, c.cur) /\ b.seq = c.nxt
  <2>1. c.nxt \in SeqNrs /\ c.cur \in SeqNrs /\ {"ACK"} \in SUBSET Flags
    BY DEF Connection, Flags
  <2> QED
    BY <1>1, <2>1, BareFacts
<1>5. PICK p : p = [b EXCEPT !.data = sent + 1]
  OBVIOUS
<1>6. p \in Packet /\ p.seq = c.nxt
  BY <1>3, <1>4, <1>5 DEF Packet
<1>7. PICK w \in BOOLEAN : w = (u = "open" /\ c.wake)
  <2>1. (u = "open" /\ c.wake) \in BOOLEAN
    BY DEF Connection
  <2> QED
    BY <2>1
<1>8. PICK d : d = [c EXCEPT !.tx = @ \union {p}, !.nxt = Plus(@, 1), !.wake = w]
  OBVIOUS
<1>9. Plus(c.nxt, 1) \in SeqNrs
  <2>1. c.nxt \in SeqNrs /\ 1 \in 0 .. SeqMod - 1
    BY ConstantFacts DEF Connection
  <2> QED
    BY <2>1, PlusFacts
<1>10. c.state = "OPEN"
  BY <1>2, <1>2a DEF Send
<1>11. /\ d \in Connection /\ d.tx = c.tx \union {p} /\ d.nxt = Plus(c.nxt, 1) /\ d.una = c.una
       /\ d.state = "OPEN" /\ d.held = c.held /\ d.cur = c.cur /\ d.open = c.open /\ d.rxq = c.rxq
  BY <1>6, <1>7, <1>8, <1>9, <1>10 DEF Connection
<1>12. \/ u = "open" /\ InFlight(c) <= Window
       \/ u = "window" /\ c.wake
  BY <1>2, <1>2a DEF Send
<1>13. TxOK("client", d, "open") /\ FlightOK("client", d, "open")
  BY <1>2, <1>2a, <1>6, <1>10, <1>11, <1>12, SendQueue DEF Sound
<1>14. Sound("client", d, "open")
  BY <1>2, <1>2a, <1>10, <1>11, <1>13 DEF Sound, ShapeOK, HeldOK
<1>15. UserStep("client", d, {p}, "open") /\ UNCHANGED <<turns, got>>
  BY <1>2, <1>2a, <1>4, <1>5, <1>7, <1>8 DEF Send
<1> QED
  BY <1>1, <1>3, <1>6, <1>11, <1>13, <1>14, <1>15, UserOK, EndFacts

(* The user of the server.                                                   *)
LEMMA AcceptOK ==
    ASSUME Inv, Accept
    PROVE  Inv'
<1>1. "server" \in Ends
  BY DEF Ends
<1>2. PICK c \in Connection : /\ c = conn["server"] /\ Len(c.rxq) <= RxqLen
                              /\ Sound("server", c, user["server"])
                              /\ FlightOK("server", c, user["server"])
  BY <1>1, EndFacts
<1>3. PICK d : d = [c EXCEPT !.queued = @ - 1]
  OBVIOUS
<1>4. c.queued - 1 \in Nat
  BY <1>2 DEF Accept, Connection
<1>5. /\ d \in Connection /\ d.tx = c.tx /\ d.nxt = c.nxt /\ d.iss = c.iss /\ d.irs = c.irs
      /\ d.held = c.held /\ d.cur = c.cur /\ d.open = c.open /\ d.wake = c.wake
      /\ d.state = c.state /\ d.rxq = c.rxq /\ d.una = c.una
  BY <1>3, <1>4 DEF Connection
<1>6. Sound("server", d, "open")
  BY <1>2, <1>5, SoundAlike
<1>7. FlightOK("server", d, "open")
  BY <1>2, <1>5 DEF FlightOK, InFlight, Lag
<1>8. UserStep("server", d, {}, "open") /\ UNCHANGED <<turns, sent, got>>
  BY <1>2, <1>3 DEF Accept
<1> QED
  BY <1>1, <1>5, <1>6, <1>7, <1>8, UserOK, EndFacts

LEMMA ReadOK ==
    ASSUME Inv, NEW early \in BOOLEAN, Read(early)
    PROVE  Inv'
<1>1. "server" \in Ends
  BY DEF Ends
<1>2. PICK b \in Connection : /\ b = conn["server"] /\ Len(b.rxq) <= RxqLen
                              /\ Sound("server", b, user["server"])
                              /\ FlightOK("server", b, user["server"])
  BY <1>1, EndFacts
<1>3. PICK q : /\ q = b.rxq /\ q # <<>> /\ Len(q) <= RxqLen /\ Head(q) # 0
               /\ q \in Seq(0 .. MaxData)
  BY <1>2 DEF Read, Null, Connection
<1>4. /\ Tail(q) \in Seq(0 .. MaxData) /\ Len(Tail(q)) <= RxqLen
      /\ Head(q) \in 1 .. MaxData
  <2>1. /\ Head(q) \in 0 .. MaxData /\ Tail(q) \in Seq(0 .. MaxData)
        /\ Len(Tail(q)) = Len(q) - 1 /\ Len(q) \in Nat
    BY <1>3, QueueFacts
  <2> QED
    BY <1>3, <2>1, ConstantFacts
<1>5. PICK c : c = [b EXCEPT !.rxq = Tail(@)]
  OBVIOUS
<1>6. PICK acks \in BOOLEAN : acks = AckDue(c, early)
  <2>1. AckDue(c, early) \in BOOLEAN
    BY DEF AckDue
  <2> QED
    BY <2>1
<1>7. /\ c \in Connection /\ c.tx = b.tx /\ c.nxt = b.nxt /\ c.iss = b.iss /\ c.irs = b.irs
      /\ c.held = b.held /\ c.cur = b.cur /\ c.open = b.open /\ c.wake = b.wake
      /\ c.state = b.state /\ c.rxq = Tail(q) /\ c.una = b.una
  BY <1>3, <1>4, <1>5 DEF Connection
<1>8. PICK d : d = IF acks THEN Acking(c) ELSE c
  OBVIOUS
<1>9. /\ d \in Connection /\ d.tx = b.tx /\ d.nxt = b.nxt /\ d.iss = b.iss /\ d.irs = b.irs
      /\ d.held = b.held /\ d.cur = b.cur /\ d.open = b.open /\ d.wake = b.wake
      /\ d.state = b.state /\ d.rxq = Tail(q) /\ d.una = b.una
  BY <1>7, <1>8 DEF Acking, Connection
<1>10. Sound("server", d, "open")
  BY <1>2, <1>4, <1>9, SoundAlike
<1>11. FlightOK("server", d, "open")
  BY <1>2, <1>9 DEF FlightOK, InFlight, Lag
<1>12. PICK out \in SUBSET Packet : out = IF acks THEN {Ack("server", c)} ELSE {}
  BY <1>1, <1>7, PacketFacts
<1>13. UserStep("server", d, out, "open") /\ UNCHANGED <<turns, sent>>
  BY <1>2, <1>5, <1>6, <1>8, <1>12 DEF Read
<1>14. got' \in Seq(1 .. MaxData)
  <2>1. got \in Seq(1 .. MaxData)
    BY <1>1, EndFacts
  <2>2. got' = Append(got, Head(q))
    BY <1>2, <1>3 DEF Read
  <2> QED
    BY <1>4, <2>1, <2>2, QueueFacts
<1> QED
  BY <1>1, <1>9, <1>10, <1>11, <1>13, <1>14, UserOK, EndFacts

LEMMA CloseAtWillOK ==
    ASSUME Inv, NEW e \in Ends, CloseAtWill(e)
    PROVE  Inv'
<1>1. PICK c \in Connection : c = conn[e] /\ Sound(e, c, user[e])
  BY EndFacts
<1>2. /\ Closed(c) \in Connection /\ Sound(e, Closed(c), "closed") /\ FlightOK(e, Closed(c), "closed")
      /\ ClosePackets(e, c) \in SUBSET Packet
  BY <1>1, ClosedOK
<1>3. UserStep(e, Closed(c), ClosePackets(e, c), "closed") /\ Turn /\ UNCHANGED <<sent, got>>
  BY <1>1 DEF CloseAtWill
<1>4. turns' \in 0 .. MaxWork
  BY <1>3, TurnOK DEF Inv
<1> QED
  BY <1>2, <1>3, <1>4, UserOK, EndFacts

LEMMA CloseAfterErrorOK ==
    ASSUME Inv, NEW e \in Ends, CloseAfterError(e)
    PROVE  Inv'
<1>1. PICK c \in Connection : c = conn[e] /\ Sound(e, c, user[e])
  BY EndFacts
<1>2. UNCHANGED <<turns, sent, got>>
  BY DEF CloseAfterError
<1>3. CASE c.open
  <2>1. /\ Closed(c) \in Connection /\ Sound(e, Closed(c), "closed") /\ FlightOK(e, Closed(c), "closed")
        /\ ClosePackets(e, c) \in SUBSET Packet
    BY <1>1, ClosedOK
  <2>2. UserStep(e, Closed(c), ClosePackets(e, c), "closed")
    BY <1>1, <1>3 DEF CloseAfterError
  <2> QED
    BY <1>2, <2>1, <2>2, UserOK, EndFacts
<1>4. CASE ~c.open
  <2>1. c.state = "CLOSED"
    BY <1>1, <1>4 DEF Sound, ShapeOK
  <2>2. Sound(e, c, "closed")
    <3>1. Len(c.rxq) <= RxqLen
      BY <1>1 DEF Sound, ShapeOK
    <3> QED
      BY <1>1, <2>1, <3>1, SoundAlike
  <2>3. FlightOK(e, c, "closed")
    BY <2>1 DEF FlightOK
  <2>4. UserStep(e, c, {}, "closed")
    BY <1>1, <1>4 DEF CloseAfterError
  <2> QED
    BY <1>2, <2>2, <2>3, <2>4, UserOK, EndFacts
<1> QED
  BY <1>3, <1>4

-----------------------------------------------------------------------------
(* The start, and a reset of the client's board.                              *)
LEMMA FreshOK ==
    ASSUME NEW e \in Ends, NEW n \in SeqNrs
    PROVE  LET d == [Fresh EXCEPT !.iss = n]
           IN d \in Connection /\ Sound(e, d, "start") /\ FlightOK(e, d, "start")
<1>1. PICK d : d = [Fresh EXCEPT !.iss = n]
  OBVIOUS
<1>2. <<>> \in Seq(0 .. MaxData) /\ Len(<<>>) = 0 /\ 0 \in SeqNrs /\ 0 \in Nat
  BY EmptySeq, ConstantFacts
<1>3. /\ d \in Connection /\ d.tx = {} /\ d.held = {} /\ d.open = FALSE /\ d.rxq = <<>>
      /\ d.state = "CLOSED" /\ d.wake = FALSE
  BY <1>1, <1>2 DEF Fresh, Connection, States
<1>4. IsFiniteSet(d.tx) /\ Cardinality(d.tx) = 0
  BY <1>3, FS_EmptySet
<1>5. Cardinality(d.tx) <= Window + 2 /\ Len(d.rxq) <= RxqLen
  BY <1>2, <1>3, <1>4, ConstantFacts
<1> QED
  BY <1>1, <1>3, <1>4, <1>5 DEF Sound, ShapeOK, TxOK, HeldOK, FlightOK

LEMMA InitOK == Init => Inv
<1> SUFFICES ASSUME Init PROVE Inv
  OBVIOUS
<1>1. 0 \in SeqNrs /\ [Fresh EXCEPT !.iss = 0] = Fresh
  BY ConstantFacts DEF Fresh
<1>2. ASSUME NEW e \in Ends
      PROVE  Fresh \in Connection /\ Sound(e, Fresh, "start") /\ FlightOK(e, Fresh, "start")
  BY <1>1, FreshOK
<1>3. conn \in [Ends -> Connection] /\ \A e \in Ends : EndOK(e)
  BY <1>2 DEF Init, EndOK
<1>4. WorkOK
  <2>1. <<>> \in Seq(1 .. MaxData)
    BY EmptySeq
  <2>2. MaxData \in Nat /\ MaxWork \in Nat
    BY RdpAssumption DEF MaxData
  <2> QED
    BY <2>1, <2>2 DEF WorkOK, Init
<1> QED
  BY <1>3, <1>4 DEF Inv

LEMMA RestartOK ==
    ASSUME Inv, Restart
    PROVE  Inv'
<1>1. "client" \in Ends
  BY DEF Ends
<1>2. PICK n \in SeqNrs : n = conn["client"].iss
  BY <1>1, EndFacts DEF Connection
<1>3. PICK d \in Connection : /\ d = [Fresh EXCEPT !.iss = n]
                              /\ Sound("client", d, "start") /\ FlightOK("client", d, "start")
  BY <1>1, FreshOK
<1>4. conn' = [conn EXCEPT !["client"] = d] /\ user' = [user EXCEPT !["client"] = "start"]
  BY <1>2, <1>3 DEF Restart
<1>5. WorkOK
  BY DEF Inv
<1>6. user'["client"] = "start" /\ \A o \in Ends \ {"client"} : user'[o] = user[o]
  BY <1>1, <1>4, <1>5 DEF WorkOK
<1>7. WorkOK'
  <2>1. turns' \in 0 .. MaxWork
    BY <1>5, TurnOK DEF Restart
  <2>2. net' = {} /\ sent' = 0 /\ got' = got
    BY DEF Restart
  <2>3. 0 \in 0 .. MaxData
    BY RdpAssumption DEF MaxData
  <2> QED
    BY <1>4, <1>5, <2>1, <2>2, <2>3 DEF WorkOK
<1> QED
  BY <1>1, <1>3, <1>4, <1>6, <1>7, OneEnd

LEMMA InvStep == Inv /\ [Next]_vars => Inv'
<1> SUFFICES ASSUME Inv, [Next]_vars PROVE Inv'
  OBVIOUS
<1>1. CASE \E p \in net : NewPacket(p.to, p)
  <2>1. PICK p \in net : NewPacket(p.to, p)
    BY <1>1
  <2>2. p.to \in Ends
    BY DEF Inv, WorkOK, Packet
  <2> QED
    BY <2>1, <2>2, NewPacketOK
<1>2. CASE \E e \in Ends : Timeouts(e)
  BY <1>2, ExpireOK, MaintainOK DEF Timeouts
<1>3. CASE Connect \/ ConnectAgain \/ Connected \/ ConnectFailed
  BY <1>3, ConnectOK, ConnectAgainOK, ConnectedOK, ConnectFailedOK
<1>4. CASE WaitForWindow \/ SendFails \/ Send \/ Accept
  BY <1>4, WaitForWindowOK, SendFailsOK, SendOK, AcceptOK
<1>5. CASE \E early \in BOOLEAN : Read(early)
  BY <1>5, ReadOK
<1>6. CASE \E e \in Ends : CloseAtWill(e) \/ CloseAfterError(e)
  BY <1>6, CloseAtWillOK, CloseAfterErrorOK
<1>7. CASE Restart
  BY <1>7, RestartOK
<1>8. CASE UNCHANGED vars
  BY <1>8 DEF vars, Inv, EndOK, WorkOK, Sound, ShapeOK, TxOK, HeldOK, FlightOK
<1> QED
  BY <1>1, <1>2, <1>3, <1>4, <1>5, <1>6, <1>7, <1>8 DEF Next, User

-----------------------------------------------------------------------------
(* The copies of the SYN/ACK: only the server has them, before it is open or   *)
(* when it never will be, and as many as tx_queue has room for.               *)
CopiesOK(e, c) ==
    c.copies # 0 =>
        e = "server" /\ c.state \in {"SYN_RCVD", "CLOSE_WAIT"} /\ TxSize(c) <= TxqLen
Copies == \A e \in Ends : CopiesOK(e, conn[e])

(* What the router may find when it looks after the connection.               *)
CopiesMay(e, c) ==
    c.copies # 0 =>
        /\ e = "server" /\ TxSize(c) <= TxqLen /\ IsFiniteSet(c.tx)
        /\ \/ c.state \in {"SYN_RCVD", "CLOSE_WAIT"}
           \/ c.open /\ c.state = "OPEN" /\ Before(c.iss, c.una)

Keeps(c, d) ==
    d.copies # 0 =>
        d.copies = c.copies /\ d.tx \subseteq c.tx /\ d.state \in {c.state, "CLOSE_WAIT"}

LEMMA CopiesFewer ==
    ASSUME NEW c \in Connection, NEW d \in Connection, IsFiniteSet(c.tx), d.tx \subseteq c.tx,
           d.copies = c.copies, TxSize(c) <= TxqLen
    PROVE  IsFiniteSet(d.tx) /\ TxSize(d) <= TxqLen
<1>1. PICK S, T : S = c.tx /\ T = d.tx /\ T \in SUBSET S
  OBVIOUS
<1>2. IsFiniteSet(T) /\ Cardinality(T) <= Cardinality(S)
  BY <1>1, FS_Subset
<1>3. /\ Cardinality(S) \in Nat /\ c.copies \in Nat /\ TxSize(c) = Cardinality(S) + c.copies
      /\ Cardinality(T) \in Nat /\ TxSize(d) = Cardinality(T) + c.copies
  BY <1>1, <1>2, TxSizeFacts
<1> QED
  BY <1>1, <1>2, <1>3, ConstantFacts

LEMMA CopiesEnd ==
    ASSUME Inv, Copies, NEW e \in Ends, NEW d \in Connection, conn' = [conn EXCEPT ![e] = d],
           CopiesOK(e, d)
    PROVE  Copies'
<1>1. conn'[e] = d /\ \A o \in Ends \ {e} : conn'[o] = conn[o]
  BY DEF Inv
<1>2. ASSUME NEW o \in Ends PROVE CopiesOK(o, conn'[o])
  BY <1>1 DEF Copies
<1> QED
  BY <1>2 DEF Copies, CopiesOK, TxSize

LEMMA CopiesServiced ==
    ASSUME Inv, Copies, NEW e \in Ends, NEW c \in Connection, NEW late, NEW early, NEW out,
           CopiesMay(e, c), Serviced(e, c, late, early, out)
    PROVE  Copies'
<1>1. PICK d \in Connection : /\ d = Unacked(c) /\ d.tx \subseteq c.tx /\ d.state = c.state
                              /\ d.copies = IF Before(c.iss, c.una) THEN 0 ELSE c.copies
  BY UnackedFacts
<1>2. CopiesOK(e, d)
  <2> SUFFICES ASSUME d.copies # 0
               PROVE  e = "server" /\ d.state \in {"SYN_RCVD", "CLOSE_WAIT"} /\ TxSize(d) <= TxqLen
    BY DEF CopiesOK
  <2>1. d.copies = c.copies /\ c.copies # 0 /\ ~Before(c.iss, c.una)
    BY <1>1
  <2>2. /\ e = "server" /\ TxSize(c) <= TxqLen /\ IsFiniteSet(c.tx)
        /\ c.state \in {"SYN_RCVD", "CLOSE_WAIT"}
    BY <2>1 DEF CopiesMay
  <2> QED
    BY <1>1, <2>1, <2>2, CopiesFewer
<1>3. PICK acks \in BOOLEAN : acks = AckDue(d, early)
  <2>1. AckDue(d, early) \in BOOLEAN
    BY DEF AckDue
  <2> QED
    BY <2>1
<1>4. PICK g : g = IF acks THEN Acking(d) ELSE d
  OBVIOUS
<1>5. g \in Connection /\ g.tx = d.tx /\ g.copies = d.copies /\ g.state = d.state
  BY <1>1, <1>4 DEF Acking, Connection
<1>6. PICK w \in BOOLEAN : w = (g.wake \/ Ready(g))
  <2>1. (g.wake \/ Ready(g)) \in BOOLEAN
    BY <1>5 DEF Connection, Ready
  <2> QED
    BY <2>1
<1>7. PICK f : f = [g EXCEPT !.wake = w]
  OBVIOUS
<1>8. f \in Connection /\ f.tx = d.tx /\ f.copies = d.copies /\ f.state = d.state
  BY <1>5, <1>7 DEF Connection
<1>9. CopiesOK(e, f)
  BY <1>2, <1>8 DEF CopiesOK, TxSize
<1>10. conn' = [conn EXCEPT ![e] = f]
  BY <1>1, <1>3, <1>4, <1>6, <1>7 DEF Serviced, Becomes, Woken
<1> QED
  BY <1>8, <1>9, <1>10, CopiesEnd

LEMMA CopiesTake ==
    ASSUME Inv, Copies, NEW e \in Ends, NEW c \in Connection, NEW out, CopiesMay(e, c),
           Take(e, c, out)
    PROVE  Copies'
<1>1. CASE c.open /\ c.state # "CLOSE_WAIT"
  <2>1. Serviced(e, c, {}, FALSE, out)
    BY <1>1 DEF Take
  <2> QED
    BY <2>1, CopiesServiced
<1>2. CASE ~(c.open /\ c.state # "CLOSE_WAIT")
  <2>1. conn' = [conn EXCEPT ![e] = c]
    BY <1>2 DEF Take, Becomes
  <2>2. CopiesOK(e, c)
    BY <1>2 DEF CopiesMay, CopiesOK
  <2> QED
    BY <2>1, <2>2, CopiesEnd
<1> QED
  BY <1>1, <1>2

(* Most steps leave the copies alone or empty tx_queue.                       *)
LEMMA CopiesFor ==
    ASSUME Inv, Copies, NEW e \in Ends
    PROVE  /\ For(e) \in Connection /\ conn[e] \in Connection
           /\ IsFiniteSet(For(e).tx) /\ CopiesOK(e, For(e))
           /\ IsFiniteSet(conn[e].tx) /\ CopiesOK(e, conn[e])
<1>1. PICK c : c = conn[e] /\ c \in Connection /\ TxOK(e, c, user[e])
  BY EndFacts DEF Sound
<1>2. IsFiniteSet(c.tx) /\ CopiesOK(e, c)
  BY <1>1 DEF TxOK, Copies
<1>3. For(e) \in Connection
  BY ForFacts
<1>4. For(e).tx = c.tx /\ For(e).copies = c.copies /\ For(e).state = c.state
  BY <1>1 DEF For, Connection
<1> QED
  BY <1>1, <1>2, <1>3, <1>4 DEF CopiesOK, TxSize

LEMMA KeepsOK ==
    ASSUME NEW e, NEW c \in Connection, NEW d \in Connection, IsFiniteSet(c.tx), CopiesOK(e, c),
           Keeps(c, d)
    PROVE  CopiesOK(e, d) /\ CopiesMay(e, d)
<1> SUFFICES ASSUME d.copies # 0
             PROVE  /\ e = "server" /\ d.state \in {"SYN_RCVD", "CLOSE_WAIT"}
                    /\ TxSize(d) <= TxqLen /\ IsFiniteSet(d.tx)
  BY DEF CopiesOK, CopiesMay
<1>1. d.copies = c.copies /\ d.tx \subseteq c.tx /\ d.state \in {c.state, "CLOSE_WAIT"}
  BY DEF Keeps
<1>2. e = "server" /\ c.state \in {"SYN_RCVD", "CLOSE_WAIT"} /\ TxSize(c) <= TxqLen
  BY <1>1 DEF CopiesOK
<1> QED
  BY <1>1, <1>2, CopiesFewer

LEMMA CopiesKept ==
    ASSUME Inv, Copies, NEW e \in Ends, NEW d \in Connection, NEW out, Keeps(For(e), d),
           Take(e, d, out)
    PROVE  Copies'
BY CopiesFor, KeepsOK, CopiesTake

LEMMA KeepsClosed ==
    ASSUME NEW c \in Connection
    PROVE  Closed(c) \in Connection /\ Keeps(c, Closed(c))
<1>1. PICK d : d = Closed(c)
  OBVIOUS
<1>2. CASE Lingers(c)
  <2>1. d = [Acking(c) EXCEPT !.state = "CLOSE_WAIT"]
    BY <1>1, <1>2 DEF Closed
  <2>2. d \in Connection /\ d.copies = c.copies /\ d.tx = c.tx /\ d.state = "CLOSE_WAIT"
    BY <2>1 DEF Acking, Connection, States
  <2> QED
    BY <1>1, <2>2 DEF Keeps
<1>3. CASE ~Lingers(c)
  <2>1. d = [c EXCEPT !.open = FALSE, !.state = "CLOSED", !.rxq = <<>>, !.tx = {},
                      !.copies = 0, !.held = {}]
    BY <1>1, <1>3 DEF Closed
  <2>2. <<>> \in Seq(0 .. MaxData) /\ 0 \in Nat
    BY EmptySeq
  <2>3. d \in Connection /\ d.copies = 0
    BY <2>1, <2>2 DEF Connection, States
  <2> QED
    BY <1>1, <2>3 DEF Keeps
<1> QED
  BY <1>2, <1>3

LEMMA KeepsDiscarded ==
    ASSUME NEW c \in Connection
    PROVE  Discarded(c) \in Connection /\ Keeps(c, Discarded(c))
<1>1. CASE ~c.posted
  BY <1>1, KeepsClosed DEF Discarded
<1>2. CASE c.posted
  <2>1. PICK d : d = Told(c)
    OBVIOUS
  <2>2. PICK q : q = Append(c.rxq, Null) /\ q \in Seq(0 .. MaxData)
    <3>1. Null \in 0 .. MaxData
      BY RdpAssumption DEF Null, MaxData
    <3>2. c.rxq \in Seq(0 .. MaxData)
      BY DEF Connection
    <3> QED
      BY <3>1, <3>2, QueueFacts
  <2>3. d = [c EXCEPT !.rxq = q] \/ d = c
    BY <2>1, <2>2 DEF Told
  <2>4. d \in Connection /\ d.copies = c.copies /\ d.tx = c.tx /\ d.state = c.state
    BY <2>2, <2>3 DEF Connection
  <2> QED
    BY <1>2, <2>1, <2>4 DEF Discarded, Keeps
<1> QED
  BY <1>1, <1>2

LEMMA KeepsAckedTo ==
    ASSUME NEW c \in Connection, NEW p \in Packet
    PROVE  LET d == AckedTo(c, p)
           IN /\ d \in Connection /\ d.copies = c.copies /\ d.tx = c.tx /\ d.state = c.state
              /\ Keeps(c, d)
<1>1. Plus(p.ack, 1) \in SeqNrs
  <2>1. p.ack \in Int
    BY ConstantFacts DEF Packet
  <2> QED
    BY <2>1, PlusType
<1>2. PICK d : d = AckedTo(c, p)
  OBVIOUS
<1>3. d \in Connection /\ d.copies = c.copies /\ d.tx = c.tx /\ d.state = c.state
  BY <1>1, <1>2 DEF AckedTo, Connection
<1> QED
  BY <1>2, <1>3 DEF Keeps

-----------------------------------------------------------------------------
(* The copies, step by step.                                                 *)
LEMMA CopiesReset ==
    ASSUME Inv, Copies, NEW e \in Ends, NEW p,
           ResetClosing(e, p) \/ ResetInSequence(e, p) \/ ResetOutOfSequence(e, p)
    PROVE  Copies'
<1>1. p \in Packet /\ For(e) \in Connection
  BY ArrivedFacts, ForFacts DEF ResetClosing, ResetInSequence, ResetOutOfSequence
<1>2. PICK b \in Connection : /\ b = AckedTo(For(e), p) /\ b.copies = For(e).copies
                              /\ b.tx = For(e).tx /\ b.state = For(e).state /\ Keeps(For(e), b)
  BY <1>1, KeepsAckedTo
<1>3. CASE ResetClosing(e, p)
  <2>1. Take(e, Closed(b), {})
    BY <1>2, <1>3 DEF ResetClosing
  <2>2. Closed(b) \in Connection /\ Keeps(For(e), Closed(b))
    BY <1>2, KeepsClosed DEF Keeps
  <2> QED
    BY <2>1, <2>2, CopiesKept
<1>4. CASE ResetInSequence(e, p)
  <2>1. PICK c : c = [Acking(b) EXCEPT !.state = "CLOSE_WAIT"]
    OBVIOUS
  <2>2. c \in Connection /\ c.copies = b.copies /\ c.tx = b.tx /\ c.state = "CLOSE_WAIT"
    BY <2>1 DEF Acking, Connection, States
  <2>3. Take(e, Discarded(c), {Reset(e, c)})
    BY <1>2, <1>4, <2>1 DEF ResetInSequence
  <2>4. Discarded(c) \in Connection /\ Keeps(For(e), Discarded(c))
    BY <1>2, <2>2, KeepsDiscarded DEF Keeps
  <2> QED
    BY <2>3, <2>4, CopiesKept
<1>5. CASE ResetOutOfSequence(e, p)
  <2>1. Take(e, b, {})
    BY <1>2, <1>5 DEF ResetOutOfSequence
  <2> QED
    BY <1>2, <2>1, CopiesKept
<1> QED
  BY <1>3, <1>4, <1>5

LEMMA CopiesClosed ==
    ASSUME Inv, Copies, NEW e \in Ends, NEW p, NotSyn(e, p) \/ InvalidSyn(e, p) \/ WrongAck(e, p)
    PROVE  Copies'
<1>1. PICK c \in Connection : c = For(e) /\ Discarded(c) \in Connection /\ Keeps(c, Discarded(c))
  BY ForFacts, KeepsDiscarded
<1>2. \/ \E out : Take(e, Discarded(c), out)
      \/ Take(e, c, {})
  BY <1>1 DEF NotSyn, InvalidSyn, WrongAck
<1>3. Keeps(c, c)
  BY DEF Keeps
<1> QED
  BY <1>1, <1>2, <1>3, CopiesKept

LEMMA CopiesCloned ==
    ASSUME NEW e, NEW c \in Connection, e = "server", IsFiniteSet(c.tx),
           TxSize(c) <= TxqLen, c.state = "SYN_RCVD",
           NEW d \in Connection, d = Cloned(e, c)
    PROVE  IsFiniteSet(d.tx) /\ TxSize(d) <= TxqLen
<1>1. /\ Cardinality(c.tx) \in Nat /\ c.copies \in Nat /\ TxSize(c) \in Nat
      /\ TxSize(c) = Cardinality(c.tx) + c.copies
  BY TxSizeFacts
<1>2. PICK s \in Packet : s = SynAck(e, c)
  BY PacketFacts DEF Ends
<1>3. CASE TxSize(c) = TxqLen
  BY <1>3 DEF Cloned
<1>4. CASE TxSize(c) # TxqLen /\ s \in c.tx
  <2>1. d = [c EXCEPT !.copies = @ + 1]
    BY <1>2, <1>4 DEF Cloned
  <2>2. d.tx = c.tx /\ d.copies = c.copies + 1
    BY <2>1 DEF Connection
  <2>3. TxSize(d) = Cardinality(c.tx) + (c.copies + 1)
    BY <2>2 DEF TxSize
  <2> QED
    BY <1>1, <1>4, <2>2, <2>3, ConstantFacts
<1>5. CASE TxSize(c) # TxqLen /\ s \notin c.tx
  <2>1. d = [c EXCEPT !.tx = @ \union {s}]
    BY <1>2, <1>5 DEF Cloned
  <2>2. d.tx = c.tx \union {s} /\ d.copies = c.copies
    BY <2>1 DEF Connection
  <2>3. IsFiniteSet(c.tx \union {s}) /\ Cardinality(c.tx \union {s}) = Cardinality(c.tx) + 1
    BY <1>5, FS_AddElement
  <2>4. TxSize(d) = (Cardinality(c.tx) + 1) + c.copies
    BY <2>2, <2>3 DEF TxSize
  <2>5. TxSize(d) <= TxqLen
    <3>1. PICK k \in Nat, n \in Nat : k = Cardinality(c.tx) /\ n = c.copies
      BY <1>1
    <3>2. k + n <= TxqLen /\ k + n # TxqLen /\ TxSize(d) = (k + 1) + n
      BY <1>1, <1>5, <2>4, <3>1
    <3> QED
      BY <3>1, <3>2, ConstantFacts
  <2> QED
    BY <2>2, <2>3, <2>5
<1> QED
  BY <1>3, <1>4, <1>5

LEMMA CopiesSynReceived ==
    ASSUME Inv, Copies, NEW e \in Ends, NEW p, SynReceived(e, p)
    PROVE  Copies'
<1>1. p \in Packet /\ For(e).open /\ For(e).state = "CLOSED"
  BY ArrivedFacts DEF SynReceived, In
<1>2. PICK b \in Connection : b = For(e) /\ b.tx = {} /\ b.state = "CLOSED" /\ e = "server"
  BY <1>1, ForFacts
<1>3. b.copies = 0
  BY <1>2, CopiesFor DEF CopiesOK
<1>4. PICK iss \in SeqNrs : iss = Rand[e][b.iss]
  BY <1>2, RdpAssumption DEF Connection
<1>5. PICK c : c = [b EXCEPT !.state = "SYN_RCVD", !.iss = iss, !.nxt = Plus(iss, 1),
                             !.una = iss, !.cur = p.seq, !.irs = p.seq, !.lsa = p.seq]
  OBVIOUS
<1>6. Plus(iss, 1) \in SeqNrs /\ p.seq \in SeqNrs
  BY <1>1, NextNr DEF Packet
<1>7. c \in Connection /\ c.tx = {} /\ c.copies = 0 /\ c.state = "SYN_RCVD"
  BY <1>2, <1>3, <1>5, <1>6 DEF Connection, States
<1>8. PICK d \in Connection : d = Cloned(e, c) /\ d.state = "SYN_RCVD"
  BY <1>7, ClonedFacts
<1>9. IsFiniteSet(c.tx) /\ TxSize(c) = 0
  BY <1>7, FS_EmptySet DEF TxSize
<1>10. TxSize(c) <= TxqLen
  BY <1>9, ConstantFacts
<1>11. TxSize(d) <= TxqLen
  BY <1>2, <1>7, <1>8, <1>9, <1>10, CopiesCloned
<1>12. conn' = [conn EXCEPT ![e] = d]
  BY <1>2, <1>4, <1>5, <1>8 DEF SynReceived, Becomes
<1> QED
  BY <1>2, <1>8, <1>11, <1>12, CopiesEnd DEF CopiesOK

LEMMA CopiesSynSent ==
    ASSUME Inv, Copies, NEW e \in Ends, NEW p, SynAcked(e, p) \/ HalfOpen(e, p)
    PROVE  Copies'
<1>1. p \in Packet /\ For(e).state = "SYN_SENT"
  BY ArrivedFacts DEF SynAcked, HalfOpen, In
<1>2. PICK c \in Connection : c = For(e) /\ c.copies = 0
  BY <1>1, CopiesFor DEF CopiesOK
<1>3. p.seq \in SeqNrs /\ Plus(p.seq, -1) \in SeqNrs /\ Plus(p.ack, 1) \in SeqNrs
  <2>1. p.seq \in SeqNrs /\ p.seq \in Int /\ p.ack \in Int
    BY <1>1, ConstantFacts DEF Packet
  <2> QED
    BY <2>1, PlusType
<1>4. PICK d, f : /\ d = [c EXCEPT !.state = "OPEN", !.cur = p.seq, !.irs = p.seq,
                            !.lsa = Plus(p.seq, -1), !.una = Plus(p.ack, 1), !.wake = TRUE]
                  /\ f = [c EXCEPT !.wake = TRUE]
  OBVIOUS
<1>5. d \in Connection /\ d.copies = 0
  BY <1>2, <1>3, <1>4 DEF Connection, States
<1>6. f \in Connection /\ f.copies = 0
  BY <1>2, <1>4 DEF Connection
<1>7. \E out : Take(e, d, out) \/ Take(e, f, out)
  BY <1>2, <1>4 DEF SynAcked, HalfOpen
<1>8. Keeps(For(e), d) /\ Keeps(For(e), f)
  BY <1>5, <1>6 DEF Keeps
<1> QED
  BY <1>5, <1>6, <1>7, <1>8, CopiesKept

LEMMA CopiesOutOfWindow ==
    ASSUME Inv, Copies, NEW e \in Ends, NEW p, OutOfWindow(e, p)
    PROVE  Copies'
<1>1. PICK c \in Connection :
           /\ c = For(e) /\ TxOK(e, c, user[e]) /\ c.state \in {"SYN_RCVD", "OPEN"}
           /\ CopiesOK(e, c)
  BY InFacts, CopiesFor DEF OutOfWindow, Sound
<1>2. CASE c.state = "OPEN"
  <2>1. Acking(c) \in Connection /\ Keeps(c, Acking(c))
    BY DEF Acking, Connection, Keeps
  <2>2. Take(e, Acking(c), {Eack(e, c)})
    BY <1>1, <1>2 DEF OutOfWindow
  <2> QED
    BY <1>1, <2>1, <2>2, CopiesKept
<1>3. CASE c.state = "SYN_RCVD"
  <2>1. e = "server" /\ IsFiniteSet(c.tx) /\ Cardinality(c.tx) <= Window + 2
    BY <1>1, <1>3 DEF TxOK
  <2>2. TxSize(c) <= TxqLen
    <3>1. CASE c.copies # 0
      BY <1>1, <3>1 DEF CopiesOK
    <3>2. CASE c.copies = 0
      BY <2>1, <3>2, TxSizeFacts, ConstantFacts
    <3> QED
      BY <3>1, <3>2
  <2>3. PICK b \in Connection : b = Cloned(e, c) /\ b.state = "SYN_RCVD"
    BY <1>3, ClonedFacts
  <2>4. IsFiniteSet(b.tx) /\ TxSize(b) <= TxqLen
    BY <1>3, <2>1, <2>2, <2>3, CopiesCloned
  <2>5. PICK d : d = [b EXCEPT !.lsa = c.irs]
    OBVIOUS
  <2>6. d \in Connection /\ d.tx = b.tx /\ d.copies = b.copies /\ d.state = "SYN_RCVD"
    BY <2>3, <2>5 DEF Connection
  <2>7. CopiesMay(e, d)
    BY <2>1, <2>4, <2>6 DEF CopiesMay, TxSize
  <2>8. Take(e, d, {SynAck(e, c)})
    BY <1>1, <1>3, <2>3, <2>5 DEF OutOfWindow
  <2> QED
    BY <2>6, <2>7, <2>8, CopiesTake
<1> QED
  BY <1>1, <1>2, <1>3

(* The connection opens: the SYN/ACK has been acknowledged, and with it go its  *)
(* copies.                                                                   *)
LEMMA BeforeNext ==
    ASSUME NEW n \in SeqNrs
    PROVE  Before(n, Plus(n, 1))
<1>1. /\ Plus(n, 1) \in SeqNrs
      /\ Plus(n, 1) = IF n + 1 < SeqMod THEN n + 1 ELSE n + 1 - SeqMod
  BY NextNr
<1>2. PICK m \in SeqNrs : m = Plus(n, 1)
  BY <1>1
<1>3. /\ Gap(n, m) = IF n >= m THEN n - m ELSE n - m + SeqMod
      /\ Before(n, m) <=> Gap(n, m) >= Half
  BY GapFacts
<1> QED
  BY <1>1, <1>2, <1>3, ConstantFacts

LEMMA CopiesAccepted ==
    ASSUME Inv, Copies, NEW e \in Ends, NEW p, Valid(e, p), NEW d \in Connection, NEW out,
           Take(e, d, out),
           LET a == Accepted(e, p)
           IN /\ d.tx \subseteq a.tx /\ d.iss = a.iss /\ d.una = a.una /\ d.open = a.open
              /\ d.state = "OPEN" /\ d.copies = a.copies
    PROVE  Copies'
<1>1. PICK c \in Connection :
           /\ c = For(e) /\ Sound(e, c, user[e]) /\ c.state \in {"SYN_RCVD", "OPEN"}
           /\ IsFiniteSet(c.tx) /\ CopiesOK(e, c)
  BY InFacts, CopiesFor DEF Valid
<1>2. /\ d.tx \subseteq c.tx /\ d.iss = c.iss /\ d.una = Plus(p.ack, 1) /\ d.open = c.open
      /\ d.copies = c.copies
  BY <1>1 DEF Accepted, Connection
<1>3. CopiesMay(e, d)
  <2> SUFFICES ASSUME d.copies # 0
               PROVE  /\ e = "server" /\ TxSize(d) <= TxqLen /\ IsFiniteSet(d.tx)
                      /\ d.open /\ Before(d.iss, d.una)
    BY DEF CopiesMay
  <2>1. e = "server" /\ c.state = "SYN_RCVD" /\ TxSize(c) <= TxqLen
    BY <1>1, <1>2 DEF CopiesOK
  <2>2. IsFiniteSet(d.tx) /\ TxSize(d) <= TxqLen
    BY <1>1, <1>2, <2>1, CopiesFewer
  <2>3. p.ack = c.iss /\ c.open
    BY <1>1, <2>1 DEF Valid, Sound, ShapeOK
  <2>4. Before(d.iss, d.una)
    BY <1>2, <2>3, BeforeNext DEF Connection
  <2> QED
    BY <1>2, <2>1, <2>2, <2>3, <2>4
<1> QED
  BY <1>3, CopiesTake

LEMMA CopiesValid ==
    ASSUME Inv, Copies, NEW e \in Ends, NEW p, NoData(e, p) \/ OutOfOrder(e, p)
    PROVE  Copies'
<1>1. Valid(e, p) /\ p \in Packet
  BY ValidFacts DEF NoData, OutOfOrder
<1>2. PICK a \in Connection : a = Accepted(e, p) /\ a.state = "OPEN"
  BY <1>1, ValidFacts
<1>3. CASE NoData(e, p)
  <2>1. PICK d : d = [a EXCEPT !.tx = {q \in @ : q.seq \notin p.list}]
    OBVIOUS
  <2>2. /\ d \in Connection /\ d.tx \subseteq a.tx /\ d.iss = a.iss /\ d.una = a.una
        /\ d.open = a.open /\ d.state = "OPEN" /\ d.copies = a.copies
    BY <1>2, <2>1 DEF Connection
  <2>3. Take(e, d, {})
    BY <1>2, <1>3, <2>1 DEF NoData
  <2> QED
    BY <1>1, <1>2, <2>2, <2>3, CopiesAccepted
<1>4. CASE OutOfOrder(e, p)
  <2>1. PICK m : m = [a EXCEPT !.held = @ \union {p}]
    OBVIOUS
  <2>2. /\ m \in Connection /\ m.tx = a.tx /\ m.iss = a.iss /\ m.una = a.una
        /\ m.open = a.open /\ m.state = "OPEN" /\ m.copies = a.copies
    BY <1>1, <1>2, <2>1 DEF Connection
  <2>3. PICK d : d = Acking(m)
    OBVIOUS
  <2>4. /\ d \in Connection /\ d.tx = a.tx /\ d.iss = a.iss /\ d.una = a.una
        /\ d.open = a.open /\ d.state = "OPEN" /\ d.copies = a.copies
    BY <2>2, <2>3 DEF Acking, Connection
  <2>5. Take(e, d, {Eack(e, m)}) \/ Take(e, a, {})
    BY <1>2, <1>4, <2>1, <2>3 DEF OutOfOrder
  <2>6. CASE Take(e, d, {Eack(e, m)})
    BY <1>1, <1>2, <2>4, <2>6, CopiesAccepted
  <2>7. CASE Take(e, a, {})
    BY <1>1, <1>2, <2>7, CopiesAccepted
  <2> QED
    BY <2>5, <2>6, <2>7
<1> QED
  BY <1>3, <1>4

LEMMA CopiesInOrder ==
    ASSUME Inv, Copies, NEW e \in Ends, NEW p, NEW early \in BOOLEAN, InOrder(e, p, early)
    PROVE  Copies'
<1>1. Valid(e, p)
  BY DEF InOrder
<1>2. PICK a : a = Accepted(e, p)
  OBVIOUS
<1>3. PICK d \in Connection, out \in SUBSET Packet :
           /\ Take(e, d, out) /\ d.tx = a.tx /\ d.iss = a.iss /\ d.una = a.una
           /\ d.open = a.open /\ d.state = "OPEN" /\ d.copies = a.copies
  BY <1>2, InOrderTakes
<1> QED
  BY <1>1, <1>2, <1>3, CopiesAccepted

LEMMA CopiesCloseWait ==
    ASSUME Inv, Copies, NEW e \in Ends, NEW p, CloseWait(e, p) \/ InvalidAck(e, p)
    PROVE  Copies'
<1>1. p \in Packet /\ For(e) \in Connection
  BY InFacts DEF CloseWait, InvalidAck
<1>2. PICK b \in Connection : b = For(e)
  BY <1>1
<1>3. Plus(p.ack, 1) \in SeqNrs
  <2>1. p.ack \in Int
    BY <1>1, ConstantFacts DEF Packet
  <2> QED
    BY <2>1, PlusType
<1>4. PICK c : c = [Acking(b) EXCEPT !.una = Plus(p.ack, 1)]
  OBVIOUS
<1>5. c \in Connection /\ c.tx = b.tx /\ c.copies = b.copies /\ c.state = b.state
  BY <1>3, <1>4 DEF Acking, Connection
<1>6. \E out : Take(e, c, out) \/ Take(e, b, out)
  BY <1>2, <1>4 DEF CloseWait, InvalidAck
<1>7. Keeps(b, b) /\ Keeps(b, c)
  BY <1>5 DEF Keeps
<1> QED
  BY <1>2, <1>5, <1>6, <1>7, CopiesKept

LEMMA CopiesTimeouts ==
    ASSUME Inv, Copies, NEW e \in Ends, Timeouts(e)
    PROVE  Copies'
<1>1. PICK c \in Connection : c = conn[e] /\ IsFiniteSet(c.tx) /\ CopiesOK(e, c)
  BY CopiesFor
<1>2. CASE Expire(e)
  <2>1. conn' = [conn EXCEPT ![e] = Closed(c)]
    BY <1>1, <1>2 DEF Expire, Becomes
  <2> QED
    BY <1>1, <2>1, KeepsClosed, KeepsOK, CopiesEnd
<1>3. CASE \E late \in SUBSET conn[e].tx, early \in BOOLEAN : Maintain(e, late, early)
  <2>1. PICK late, early : Serviced(e, c, late, early, {})
    BY <1>1, <1>3 DEF Maintain
  <2>2. CopiesMay(e, c)
    BY <1>1 DEF CopiesOK, CopiesMay
  <2> QED
    BY <1>1, <2>1, <2>2, CopiesServiced
<1> QED
  BY <1>2, <1>3 DEF Timeouts

(* The user tasks: the client has no copies, and makes none.                   *)
LEMMA CopiesClient ==
    ASSUME Inv, Copies,
           \/ Connect \/ ConnectAgain \/ Connected \/ ConnectFailed
           \/ WaitForWindow \/ SendFails \/ Send
    PROVE  Copies'
<1>1. PICK c \in Connection : c = conn["client"] /\ CopiesOK("client", c) /\ "client" \in Ends
  BY CopiesFor DEF Ends
<1>2. c.copies = 0
  BY <1>1 DEF CopiesOK
<1>3. Inv'
  BY ConnectOK, ConnectAgainOK, ConnectedOK, ConnectFailedOK, WaitForWindowOK, SendFailsOK, SendOK
<1>4. \E d : conn' = [conn EXCEPT !["client"] = d] /\ d.copies = 0
  <2>1. CASE Connect \/ ConnectAgain
    <3>1. PICK d : d = Connecting(c)
      OBVIOUS
    <3>2. d.copies = 0
      BY <1>2, <3>1 DEF Connecting, Connection
    <3>3. conn' = [conn EXCEPT !["client"] = d]
      BY <1>1, <2>1, <3>1 DEF Connect, ConnectAgain, UserStep, Becomes
    <3> QED
      BY <3>2, <3>3
  <2>2. CASE Connected \/ WaitForWindow \/ SendFails
    <3>1. PICK d : d = [c EXCEPT !.wake = FALSE]
      OBVIOUS
    <3>2. d.copies = 0
      BY <1>2, <3>1 DEF Connection
    <3>3. conn' = [conn EXCEPT !["client"] = d]
      BY <1>1, <2>2, <3>1 DEF Connected, WaitForWindow, SendFails, UserStep, Becomes
    <3> QED
      BY <3>2, <3>3
  <2>3. CASE ConnectFailed
    <3>1. PICK b : b = [c EXCEPT !.state = "CLOSE_WAIT", !.wake = FALSE]
      OBVIOUS
    <3>2. b \in Connection /\ b.state = "CLOSE_WAIT"
      BY <3>1 DEF Connection, States
    <3>3. PICK d : d = [b EXCEPT !.open = FALSE, !.state = "CLOSED", !.rxq = <<>>, !.tx = {},
                                 !.copies = 0, !.held = {}]
      OBVIOUS
    <3>4. d = Closed(b) /\ d.copies = 0
      BY <3>2, <3>3 DEF Closed, Lingers, Connection
    <3>5. conn' = [conn EXCEPT !["client"] = d]
      BY <1>1, <2>3, <3>1, <3>4 DEF ConnectFailed, UserStep, Becomes
    <3> QED
      BY <3>4, <3>5
  <2>4. CASE Send
    <3>1. PICK p, woken, d :
               /\ d = [c EXCEPT !.tx = @ \union {p}, !.nxt = Plus(@, 1), !.wake = woken]
               /\ conn' = [conn EXCEPT !["client"] = d]
      BY <1>1, <2>4 DEF Send, UserStep, Becomes
    <3>2. d.copies = 0
      BY <1>2, <3>1 DEF Connection
    <3> QED
      BY <3>1, <3>2
  <2> QED
    BY <2>1, <2>2, <2>3, <2>4
<1>5. PICK d : conn' = [conn EXCEPT !["client"] = d] /\ d.copies = 0
  BY <1>4
<1>6. d \in Connection
  BY <1>1, <1>3, <1>5 DEF Inv
<1> QED
  BY <1>1, <1>5, <1>6, CopiesEnd DEF CopiesOK

LEMMA CopiesServer ==
    ASSUME Inv, Copies, Accept \/ \E early \in BOOLEAN : Read(early)
    PROVE  Copies'
<1>1. PICK c \in Connection : /\ c = conn["server"] /\ "server" \in Ends
                              /\ IsFiniteSet(c.tx) /\ CopiesOK("server", c)
  BY CopiesFor DEF Ends
<1>2. Inv'
  BY AcceptOK, ReadOK
<1>3. \E d : conn' = [conn EXCEPT !["server"] = d] /\ Keeps(c, d)
  <2>1. CASE Accept
    <3>1. PICK d : d = [c EXCEPT !.queued = @ - 1]
      OBVIOUS
    <3>2. d.tx = c.tx /\ d.copies = c.copies /\ d.state = c.state
      BY <3>1 DEF Connection
    <3>3. conn' = [conn EXCEPT !["server"] = d]
      BY <1>1, <2>1, <3>1 DEF Accept, UserStep, Becomes
    <3> QED
      BY <3>2, <3>3 DEF Keeps
  <2>2. CASE \E early \in BOOLEAN : Read(early)
    <3>1. PICK early \in BOOLEAN : Read(early)
      BY <2>2
    <3>2. PICK b : b = [c EXCEPT !.rxq = Tail(@)]
      OBVIOUS
    <3>3. PICK d : d = IF AckDue(b, early) THEN Acking(b) ELSE b
      OBVIOUS
    <3>4. d.tx = c.tx /\ d.copies = c.copies /\ d.state = c.state
      BY <3>2, <3>3 DEF Acking, Connection
    <3>5. conn' = [conn EXCEPT !["server"] = d]
      BY <1>1, <3>1, <3>2, <3>3 DEF Read, UserStep, Becomes
    <3> QED
      BY <3>4, <3>5 DEF Keeps
  <2> QED
    BY <2>1, <2>2
<1>4. PICK d : conn' = [conn EXCEPT !["server"] = d] /\ Keeps(c, d)
  BY <1>3
<1>5. d \in Connection
  BY <1>1, <1>2, <1>4 DEF Inv
<1> QED
  BY <1>1, <1>4, <1>5, KeepsOK, CopiesEnd

LEMMA CopiesUserCloses ==
    ASSUME Inv, Copies, NEW e \in Ends, CloseAtWill(e) \/ CloseAfterError(e)
    PROVE  Copies'
<1>1. PICK c \in Connection : c = conn[e] /\ IsFiniteSet(c.tx) /\ CopiesOK(e, c)
  BY CopiesFor
<1>2. conn' = [conn EXCEPT ![e] = Closed(c)] \/ conn' = [conn EXCEPT ![e] = c]
  BY <1>1 DEF CloseAtWill, CloseAfterError, UserStep, Becomes
<1> QED
  BY <1>1, <1>2, KeepsClosed, KeepsOK, CopiesEnd

LEMMA CopiesInit == Init => Copies
<1> SUFFICES ASSUME Init, NEW e \in Ends PROVE CopiesOK(e, conn[e])
  BY DEF Copies
<1>1. conn[e] = Fresh /\ Fresh.copies = 0
  BY DEF Init, Fresh
<1> QED
  BY <1>1 DEF CopiesOK

LEMMA CopiesStep == Inv /\ Copies /\ [Next]_vars => Copies'
<1> SUFFICES ASSUME Inv, Copies, [Next]_vars PROVE Copies'
  OBVIOUS
<1>1. CASE \E p \in net : NewPacket(p.to, p)
  <2>1. PICK p \in net : NewPacket(p.to, p)
    BY <1>1
  <2>2. p.to \in Ends
    BY DEF Inv, WorkOK, Packet
  <2> QED
    BY <2>1, <2>2, CopiesReset, CopiesClosed, CopiesSynReceived, CopiesSynSent,
       CopiesOutOfWindow, CopiesValid, CopiesInOrder, CopiesCloseWait DEF NewPacket
<1>2. CASE \E e \in Ends : Timeouts(e)
  BY <1>2, CopiesTimeouts
<1>3. CASE User
  BY <1>3, CopiesClient, CopiesServer, CopiesUserCloses DEF User
<1>4. CASE Restart
  <2>1. PICK d : d = [Fresh EXCEPT !.iss = conn["client"].iss]
    OBVIOUS
  <2>2. d.copies = 0 /\ conn' = [conn EXCEPT !["client"] = d] /\ "client" \in Ends
    BY <1>4, <2>1 DEF Restart, Fresh, Ends
  <2>3. d \in Connection
    BY <1>4, <2>2, RestartOK DEF Inv
  <2> QED
    BY <2>2, <2>3, CopiesEnd DEF CopiesOK
<1>5. CASE UNCHANGED vars
  BY <1>5 DEF vars, Copies, CopiesOK, TxSize
<1> QED
  BY <1>1, <1>2, <1>3, <1>4, <1>5 DEF Next

(* Everything is well typed, and no queue holds more than it has room for,      *)
(* whatever is lost, repeated or reordered and whenever the client is reset.    *)
(* The copies of its SYN/ACK that a server queues for every packet out of its    *)
(* window are gone when it opens: an open end has a window and two packets in    *)
(* tx_queue at most, so that csp_rdp_send finds room in it.  What the server    *)
(* holds lies ahead of what it has passed on, within two windows, nothing       *)
(* twice: csp_rdp_rx_queue_flush leaves nothing behind.                        *)
THEOREM QueuesAreOK == Spec => []QueuesOK
<1>1. Inv /\ Copies => QueuesOK
  <2> SUFFICES ASSUME Inv, Copies PROVE QueuesOK
    OBVIOUS
  <2>1. ASSUME NEW e \in Ends
        PROVE  /\ TxSize(conn[e]) <= TxqLen
               /\ conn[e].state = "OPEN" => TxSize(conn[e]) <= Window + 2
    <3>1. PICK c \in Connection : /\ c = conn[e] /\ IsFiniteSet(c.tx) /\ CopiesOK(e, c)
                                  /\ Cardinality(c.tx) <= Window + 2
      BY EndFacts, CopiesFor DEF Sound, TxOK
    <3>2. c.copies = 0 => TxSize(c) <= Window + 2
      BY <3>1, TxSizeFacts, ConstantFacts
    <3>3. TxSize(c) \in Nat
      BY <3>1, TxSizeFacts
    <3>4. c.copies # 0 => c.state # "OPEN" /\ TxSize(c) <= TxqLen
      BY <3>1 DEF CopiesOK
    <3> QED
      BY <3>1, <3>2, <3>3, <3>4, ConstantFacts
  <2>2. TypeOK
    <3>1. \A e \in Ends : TxSize(conn[e]) <= TxqLen /\ Len(conn[e].rxq) <= RxqLen
      BY <2>1, EndFacts
    <3> QED
      BY <3>1 DEF Inv, WorkOK, TypeOK
  <2>3. HeldAhead
    <3>1. PICK c \in Connection : c = conn["server"] /\ HeldOK(c)
      BY EndFacts DEF Ends, Sound
    <3>2. ASSUME NEW q \in c.held, c.state = "OPEN"
          PROVE  Between(q.seq, Plus(c.cur, 2), Plus(c.cur, 2 * Window))
      <4>1. Gap(q.seq, c.cur) \in 2 .. 2 * Window
        BY <3>1, <3>2 DEF HeldOK
      <4>2. q.seq \in SeqNrs /\ c.cur \in SeqNrs
        BY <3>2 DEF Connection, Packet
      <4>3. 2 \in 0 .. SeqMod - 1 /\ 2 * Window \in 2 .. SeqMod - 1
        BY ConstantFacts
      <4> QED
        BY <4>1, <4>2, <4>3, InRange
    <3> QED
      BY <3>1, <3>2 DEF HeldAhead, HeldOK
  <2> QED
    BY <2>1, <2>2, <2>3 DEF QueuesOK, TxBounded
<1>2. Init => Inv /\ Copies
  BY InitOK, CopiesInit
<1>3. Inv /\ Copies /\ [Next]_vars => Inv' /\ Copies'
  BY InvStep, CopiesStep
<1> QED
  BY <1>1, <1>2, <1>3, PTL DEF Spec

-----------------------------------------------------------------------------
(* What is Data of a queue, and of one that is longer.                        *)
LEMMA DataBy ==
    ASSUME NEW T, NEW q \in Seq(T)
    PROVE  \E f \in [0 .. Len(q) -> Seq(T)] :
              /\ f[0] = <<>> /\ Data(q) = f[Len(q)]
              /\ \A i \in 1 .. Len(q) : f[i] = IF q[i] = Null THEN f[i - 1] ELSE Append(f[i - 1], q[i])
<1>1. Len(q) \in Nat /\ \A i \in 1 .. Len(q) : q[i] \in T
  BY LenProperties, ElementOfSeq
<1> DEFINE F == [i \in 1 .. Len(q) |-> [x \in Seq(T) |-> IF q[i] = Null THEN x ELSE Append(x, q[i])]]
           first == CHOOSE f : f = [n \in 0 .. Len(q) |->
                          IF n = 0 THEN <<>>
                          ELSE IF q[n] = Null THEN f[n - 1] ELSE Append(f[n - 1], q[n])]
<1>2. PICK f \in [0 .. Len(q) -> Seq(T)] : f[0] = <<>> /\ \A i \in 1 .. Len(q) : f[i] = F[i][f[i - 1]]
  <2> DEFINE Q == Seq(T)
             z == <<>>
             m == Len(q)
  <2>1. F \in [1 .. m -> [Q -> Q]] /\ z \in Q /\ m \in Nat
    BY <1>1, AppendProperties, EmptySeq
  <2> HIDE DEF F, Q, z, m
  <2>2. \E f \in [0 .. m -> Q] : f[0] = z /\ \A i \in 1 .. m : f[i] = F[i][f[i - 1]]
    BY <2>1, RecursionExists
  <2> QED
    BY <2>2 DEF Q, z, m
<1>3. ASSUME NEW i \in 1 .. Len(q)
      PROVE  f[i] = IF q[i] = Null THEN f[i - 1] ELSE Append(f[i - 1], q[i])
  <2>1. i - 1 \in 0 .. Len(q)
    BY <1>1
  <2>2. f[i - 1] \in Seq(T)
    BY <2>1
  <2> QED
    BY <1>2, <2>2
<1>4. f = [n \in 0 .. Len(q) |->
             IF n = 0 THEN <<>>
             ELSE IF q[n] = Null THEN f[n - 1] ELSE Append(f[n - 1], q[n])]
  <2>1. ASSUME NEW n \in 0 .. Len(q)
        PROVE  f[n] = IF n = 0 THEN <<>>
                      ELSE IF q[n] = Null THEN f[n - 1] ELSE Append(f[n - 1], q[n])
    <3>1. n = 0 \/ n \in 1 .. Len(q)
      BY <1>1
    <3> QED
      BY <1>2, <1>3, <3>1
  <2> QED
    BY <2>1
<1>5. first = [n \in 0 .. Len(q) |->
                 IF n = 0 THEN <<>>
                 ELSE IF q[n] = Null THEN first[n - 1] ELSE Append(first[n - 1], q[n])]
  BY <1>4
<1>6. Data(q) = first[Len(q)]
  BY DEF Data
<1> HIDE DEF first
<1>7. first[0] = <<>>
  <2>1. 0 \in 0 .. Len(q)
    BY <1>1
  <2> QED
    BY <1>5, <2>1
<1>8. ASSUME NEW i \in 1 .. Len(q)
      PROVE  first[i] = IF q[i] = Null THEN first[i - 1] ELSE Append(first[i - 1], q[i])
  <2>1. i \in 0 .. Len(q) /\ i # 0
    BY <1>1
  <2> QED
    BY <1>5, <2>1
<1>9. first \in [0 .. Len(q) -> Seq(T)]
  <2> DEFINE U == {k \in Nat : k <= Len(q) => first[k] \in Seq(T)}
  <2>1. 0 \in U
    BY <1>7, EmptySeq
  <2>2. ASSUME NEW k \in Nat, k \in U PROVE k + 1 \in U
    <3> SUFFICES ASSUME k + 1 <= Len(q) PROVE first[k + 1] \in Seq(T)
      OBVIOUS
    <3>1. k + 1 \in 1 .. Len(q) /\ (k + 1) - 1 = k /\ k <= Len(q)
      BY <1>1
    <3>2. first[k] \in Seq(T) /\ q[k + 1] \in T
      BY <1>1, <2>2, <3>1
    <3>3. first[k + 1] = IF q[k + 1] = Null THEN first[k] ELSE Append(first[k], q[k + 1])
      BY <1>8, <3>1
    <3> QED
      BY <3>2, <3>3, AppendProperties
  <2> HIDE DEF U
  <2>3. Nat \subseteq U
    BY <2>1, <2>2, SetInduction
  <2>4. ASSUME NEW k \in 0 .. Len(q) PROVE first[k] \in Seq(T)
    <3>1. k \in Nat /\ k <= Len(q)
      BY <1>1
    <3> QED
      BY <2>3, <3>1 DEF U
  <2> QED
    BY <1>5, <2>4
<1> QED
  BY <1>6, <1>7, <1>8, <1>9

(* One packet more; and a whole queue behind another.                         *)
LEMMA DataFacts ==
    ASSUME NEW T, NEW q \in Seq(T)
    PROVE  /\ Data(q) \in Seq(T)
           /\ q = <<>> => Data(q) = <<>>
           /\ \A x \in T : Data(Append(q, x)) = IF x = Null THEN Data(q) ELSE Append(Data(q), x)
<1>1. Len(q) \in Nat /\ \A i \in 1 .. Len(q) : q[i] \in T
  BY LenProperties, ElementOfSeq
<1>2. PICK f \in [0 .. Len(q) -> Seq(T)] :
         /\ f[0] = <<>> /\ Data(q) = f[Len(q)]
         /\ \A i \in 1 .. Len(q) : f[i] = IF q[i] = Null THEN f[i - 1] ELSE Append(f[i - 1], q[i])
  BY DataBy
<1>3. Data(q) \in Seq(T)
  BY <1>1, <1>2
<1>4. q = <<>> => Data(q) = <<>>
  <2>1. q = <<>> => Len(q) = 0
    BY EmptySeq
  <2> QED
    BY <1>2, <2>1
<1>5. ASSUME NEW x \in T
      PROVE  Data(Append(q, x)) = IF x = Null THEN Data(q) ELSE Append(Data(q), x)
  <2>1. PICK n \in Nat, a \in Seq(T) : /\ n = Len(q) /\ a = Append(q, x) /\ Len(a) = n + 1
                                       /\ a[n + 1] = x /\ \A i \in 1 .. n : a[i] = q[i]
    BY <1>1, AppendProperties
  <2>2. PICK g \in [0 .. n + 1 -> Seq(T)] :
           /\ g[0] = <<>> /\ Data(a) = g[n + 1]
           /\ \A i \in 1 .. n + 1 : g[i] = IF a[i] = Null THEN g[i - 1] ELSE Append(g[i - 1], a[i])
    <3>1. \E g \in [0 .. Len(a) -> Seq(T)] :
             /\ g[0] = <<>> /\ Data(a) = g[Len(a)]
             /\ \A i \in 1 .. Len(a) : g[i] = IF a[i] = Null THEN g[i - 1] ELSE Append(g[i - 1], a[i])
      BY ONLY a \in Seq(T), DataBy, Zenon
    <3>2. Len(a) = n + 1
      BY <2>1
    <3> QED
      BY ONLY <3>1, <3>2, Zenon
  <2> DEFINE U == {k \in Nat : k <= n => g[k] = f[k]}
  <2>3. 0 \in U
    BY <1>2, <2>2
  <2>4. ASSUME NEW k \in Nat, k \in U PROVE k + 1 \in U
    <3> SUFFICES ASSUME k + 1 <= n PROVE g[k + 1] = f[k + 1]
      OBVIOUS
    <3>1. k + 1 \in 1 .. n /\ k + 1 \in 1 .. n + 1 /\ (k + 1) - 1 = k /\ k <= n
      OBVIOUS
    <3>2. g[k] = f[k]
      BY <2>4, <3>1
    <3>3. g[k + 1] = IF q[k + 1] = Null THEN g[k] ELSE Append(g[k], q[k + 1])
      BY <2>1, <2>2, <3>1
    <3>4. f[k + 1] = IF q[k + 1] = Null THEN f[k] ELSE Append(f[k], q[k + 1])
      BY <1>2, <2>1, <3>1
    <3> QED
      BY <3>2, <3>3, <3>4
  <2> HIDE DEF U
  <2>5. Nat \subseteq U
    BY <2>3, <2>4, SetInduction
  <2>6. g[n] = f[n]
    BY <2>5 DEF U
  <2>7. g[n + 1] = IF x = Null THEN g[n] ELSE Append(g[n], x)
    <3>1. n + 1 \in 1 .. n + 1 /\ (n + 1) - 1 = n
      OBVIOUS
    <3> QED
      BY <2>1, <2>2, <3>1
  <2> QED
    BY <1>2, <2>1, <2>2, <2>6, <2>7
<1> QED
  BY <1>3, <1>4, <1>5

(* The data of q are the first of those of q \o r; r adds itself if it is all   *)
(* data.                                                                     *)
Behind(q, r) ==
    /\ Len(Data(q)) <= Len(Data(q \o r))
    /\ \A i \in 1 .. Len(Data(q)) : Data(q \o r)[i] = Data(q)[i]
    /\ (\A i \in 1 .. Len(r) : r[i] # Null) =>
         /\ Len(Data(q \o r)) = Len(Data(q)) + Len(r)
         /\ \A i \in 1 .. Len(r) : Data(q \o r)[Len(Data(q)) + i] = r[i]

(* Whatever follows q in the receive queue stands behind the data of q.      *)
LEMMA DataBehind ==
    ASSUME NEW T, NEW q \in Seq(T), NEW r \in Seq(T)
    PROVE  Behind(q, r)
<1> DEFINE Good(s) ==
             /\ Len(Data(q)) <= Len(Data(q \o s))
             /\ \A i \in 1 .. Len(Data(q)) : Data(q \o s)[i] = Data(q)[i]
             /\ (\A i \in 1 .. Len(s) : s[i] # Null) =>
                  /\ Len(Data(q \o s)) = Len(Data(q)) + Len(s)
                  /\ \A i \in 1 .. Len(s) : Data(q \o s)[Len(Data(q)) + i] = s[i]
           U == {n \in Nat : \A s \in Seq(T) : Len(s) = n => Good(s)}
<1>1. PICK m \in Nat : m = Len(Data(q))
  BY DataFacts, LenProperties
<1>2. 0 \in U
  <2> SUFFICES ASSUME NEW s \in Seq(T), Len(s) = 0 PROVE Good(s)
    OBVIOUS
  <2>1. s = <<>> /\ q \o s = q
    BY EmptySeq, ConcatEmptySeq
  <2> QED
    BY <1>1, <2>1
<1>3. ASSUME NEW n \in Nat, n \in U PROVE n + 1 \in U
  <2> SUFFICES ASSUME NEW s \in Seq(T), Len(s) = n + 1 PROVE Good(s)
    OBVIOUS
  <2>1. PICK t \in Seq(T), x \in T : s = Append(t, x)
    <3>1. s # <<>>
      BY EmptySeq
    <3> QED
      BY <3>1, SequenceEmptyOrAppend
  <2>2. Len(t) = n /\ s[n + 1] = x /\ \A i \in 1 .. n : s[i] = t[i]
    BY <2>1, AppendProperties
  <2>3. q \o s = Append(q \o t, x) /\ q \o t \in Seq(T)
    BY <2>1, ConcatProperties, AppendIsConcat, ConcatAssociative
  <2>4. PICK a \in Seq(T) : a = Data(q \o t)
    BY <2>3, DataFacts
  <2>5. PICK b \in Seq(T) : b = Data(q \o s) /\ b = IF x = Null THEN a ELSE Append(a, x)
    <3>1. PICK w \in Seq(T) : w = q \o t /\ q \o s = Append(w, x)
      BY <2>3
    <3>2. Data(Append(w, x)) = IF x = Null THEN Data(w) ELSE Append(Data(w), x)
      BY ONLY w \in Seq(T), x \in T, DataFacts, Zenon
    <3>3. Append(a, x) \in Seq(T)
      BY AppendProperties
    <3> QED
      BY <2>4, <3>1, <3>2, <3>3
  <2>6. /\ Len(a) \in Nat
        /\ x # Null => /\ Len(b) = Len(a) + 1 /\ b[Len(a) + 1] = x
                       /\ \A i \in 1 .. Len(a) : b[i] = a[i]
        /\ x = Null => b = a
    BY <2>5, AppendProperties, LenProperties
  <2>7. Good(t)
    BY <1>3, <2>2
  <2>8. /\ m <= Len(a) /\ \A i \in 1 .. m : a[i] = Data(q)[i]
        /\ (\A i \in 1 .. n : t[i] # Null) => Len(a) = m + n /\ \A i \in 1 .. n : a[m + i] = t[i]
    BY <1>1, <2>2, <2>4, <2>7
  <2> HIDE DEF Good
  <2>9. m <= Len(b) /\ \A i \in 1 .. m : b[i] = Data(q)[i]
    BY <1>1, <2>6, <2>8
  <2>10. ASSUME \A i \in 1 .. n + 1 : s[i] # Null
         PROVE  Len(b) = m + (n + 1) /\ \A i \in 1 .. n + 1 : b[m + i] = s[i]
    <3>1. x # Null /\ \A i \in 1 .. n : t[i] # Null
      <4>1. n + 1 \in 1 .. n + 1 /\ \A i \in 1 .. n : i \in 1 .. n + 1
        OBVIOUS
      <4> QED
        BY <2>2, <2>10, <4>1
    <3>2. Len(a) = m + n /\ \A i \in 1 .. n : a[m + i] = t[i]
      BY <2>8, <3>1
    <3>3. Len(b) = m + (n + 1) /\ b[m + (n + 1)] = x
      BY <1>1, <2>6, <3>1, <3>2
    <3>4. ASSUME NEW i \in 1 .. n PROVE b[m + i] = s[i]
      <4>1. m + i \in 1 .. Len(a)
        BY <1>1, <3>2
      <4> QED
        BY <2>2, <2>6, <3>1, <3>2, <4>1
    <3>5. \A i \in 1 .. n + 1 : i \in 1 .. n \/ i = n + 1
      OBVIOUS
    <3> QED
      BY <2>2, <3>3, <3>4, <3>5
  <2> QED
    BY <1>1, <2>5, <2>9, <2>10 DEF Good
<1> HIDE DEF U
<1>4. Nat \subseteq U
  BY <1>2, <1>3, SetInduction
<1>5. Len(r) \in U
  BY <1>4, LenProperties
<1> QED
  BY <1>5 DEF U, Behind

-----------------------------------------------------------------------------
(* What is agreed between the two ends.                                      *)
Client == conn["client"]
Server == conn["server"]

Live(c) == c.state \in {"SYN_RCVD", "OPEN"}

(* The client has not heard from the server since it last chose a number.     *)
Idle(c, u) == c.state = "SYN_SENT" \/ u = "start"

(* When the next packet in sequence comes there is room for all that is held:   *)
(* the reader has kept up.                                                   *)
Roomy ==
    Server.state = "OPEN" /\ Server.held # {} =>
        Len(Server.rxq) + 1 + Cardinality(Server.held) <= RxqLen

(* A connection uses up fewer than half the numbers, and the numbers of a       *)
(* connection the server still has are not those of the client's next one.     *)
Unconfused ==
    /\ sent + 1 < Half /\ Len(Taken) + 2 * Window < SeqMod
    /\ Live(Server) /\ Server.irs # Client.iss =>
         \A i \in 1 .. sent + 1, j \in 1 .. Len(Taken) + 2 * Window :
             Plus(Client.iss, i) # Plus(Server.irs, j)

(* What the client u with n packets sent may have in its tx_queue, or in the   *)
(* network.                                                                  *)
Numbered(c, n, q) == q.data \in 1 .. n /\ q.seq = Plus(c.iss, q.data)
Plain(p) == p.flags = {"ACK"} \/ p.flags = {"ACK", "EAK"}
Queued(c, n, q) ==
    /\ q.to = "server"
    /\ \/ q.flags = {"SYN"} /\ q.data = 0
       \/ q.flags = {"ACK"} /\ Numbered(c, n, q) /\ c.state # "SYN_SENT"
FromClient(c, u, n, p) ==
    /\ p.to = "server" /\ u # "start"
    /\ \/ p.flags = {"SYN"}
       \/ "RST" \in p.flags
       \/ /\ Plain(p) /\ p.ack = c.irs /\ ~Idle(c, u)
          /\ \E i \in 1 .. n + 1 : p.seq = Plus(c.iss, i)
          /\ p.data # 0 => Numbered(c, n, p)

ClientOK(c, u, n) ==
    /\ c.state # "SYN_RCVD" /\ c.cur = c.irs
    /\ c.state # "CLOSED" => c.nxt = Plus(c.iss, n + 1)
    /\ u \in {"start", "connecting", "retrying"} => n = 0
    /\ c.state = "SYN_SENT" => u \in {"connecting", "retrying"}
    /\ u = "start" => c.state = "CLOSED"
    /\ Idle(c, u) => c.lsa = c.cur
    /\ \A q \in c.tx : Queued(c, n, q)

(* The server with the data taken: they and those held have the numbers the     *)
(* client gave them.                                                         *)
Ordered(taken) == \A i \in 1 .. Len(taken) : taken[i] = i
ServerOK(s, taken) ==
    /\ s.state # "SYN_SENT" /\ Ordered(taken)
    /\ Live(s) => s.cur = Plus(s.irs, Len(taken))
    /\ s.state = "SYN_RCVD" => taken = <<>>
    /\ s.state = "OPEN" =>
         \A q \in s.held : q.data \in 1 .. SeqMod - 1 /\ q.seq = Plus(s.irs, q.data)
    /\ s.state = "CLOSE_WAIT" => s.lsa = s.cur

(* What a packet of the server says of the data, k of them taken.              *)
Here(s, k, x) == (\E j \in 0 .. k : x = Plus(s.irs, j)) \/ \E q \in s.held : q.seq = x
Honest(s, k, p) ==
    Live(s) /\ (\E j \in 0 .. k : p.ack = Plus(s.irs, j)) /\ \A x \in p.list : Here(s, k, x)

(* What is neither taken nor held the client still has.                        *)
Remembers(c, n, s, k) ==
    /\ \E j \in 0 .. k : c.una = Plus(s.irs, j + 1)
    /\ s.irs = c.iss => \A i \in 1 .. n : i <= k \/ \E q \in c.tx \union s.held : q.data = i

Answered == \E p \in net : p.to = "client" /\ "SYN" \in p.flags
NoReset(packets) == \A p \in packets : "RST" \notin p.flags

ClientPart == ClientOK(Client, user["client"], sent)
NetPart ==
    \A p \in net : \/ p.to = "client" /\ p.data = 0
                   \/ FromClient(Client, user["client"], sent, p)
ServerPart == ServerOK(Server, Taken) /\ (Server.state = "OPEN" => Server.tx = {})
OpenPart ==
    /\ Server.state = "OPEN" /\ Answered => ~Idle(Client, user["client"])
    /\ Client.state = "OPEN" /\ Server.state = "OPEN" =>
         Server.irs = Client.iss /\ Client.irs = Server.iss
    /\ Client.state = "OPEN" \/ sent > 0 => Answered
MemoryPart ==
    NoReset(net) =>
        /\ \A p \in net : p.to = "client" => Honest(Server, Len(Taken), p)
        /\ Client.state = "OPEN" => Remembers(Client, sent, Server, Len(Taken))

Agreed == ClientPart /\ NetPart /\ ServerPart /\ OpenPart /\ MemoryPart

-----------------------------------------------------------------------------
(* Numbers counted from the same start.                                       *)
LEMMA PlusOnce ==
    ASSUME NEW a \in SeqNrs, NEW i \in 0 .. SeqMod - 1, NEW j \in 0 .. SeqMod - 1,
           Plus(a, i) = Plus(a, j)
    PROVE  i = j
BY GapPlus

LEMMA PlusZero == \A a \in SeqNrs : Plus(a, 0) = a
<1>1. 0 \in 0 .. SeqMod - 1
  BY ConstantFacts
<1> QED
  BY <1>1, PlusFacts, ConstantFacts

LEMMA PlusPlus ==
    ASSUME NEW a \in SeqNrs, NEW i \in 0 .. SeqMod - 1, NEW j \in 0 .. SeqMod - 1, i + j < SeqMod
    PROVE  Plus(Plus(a, i), j) = Plus(a, i + j)
<1>1. i + j \in 0 .. SeqMod - 1
  BY ConstantFacts
<1>2. PICK b \in SeqNrs : b = Plus(a, i) /\ b = IF a + i < SeqMod THEN a + i ELSE a + i - SeqMod
  BY PlusFacts
<1>3. Plus(b, j) = IF b + j < SeqMod THEN b + j ELSE b + j - SeqMod
  BY PlusFacts
<1>4. Plus(a, i + j) = IF a + (i + j) < SeqMod THEN a + (i + j) ELSE a + (i + j) - SeqMod
  BY <1>1, PlusFacts
<1>5. /\ SeqMod \in Nat /\ a \in Nat /\ i \in Nat /\ j \in Nat /\ b \in Nat
      /\ a < SeqMod /\ i < SeqMod /\ j < SeqMod /\ b < SeqMod
  BY <1>2, ConstantFacts
<1>6. (IF b + j < SeqMod THEN b + j ELSE b + j - SeqMod)
        = (IF a + (i + j) < SeqMod THEN a + (i + j) ELSE a + (i + j) - SeqMod)
  BY <1>2, <1>5
<1> QED
  BY <1>2, <1>3, <1>4, <1>6

(* What is numbered before snd_una is behind it, what comes later is not.       *)
LEMMA BeforePlus ==
    ASSUME NEW a \in SeqNrs, NEW i \in 0 .. SeqMod - 1, NEW j \in 0 .. SeqMod - 1
    PROVE  /\ j > i /\ j - i <= Half => Before(Plus(a, i), Plus(a, j))
           /\ j <= i /\ i - j < Half => ~Before(Plus(a, i), Plus(a, j))
<1>1. PICK b \in SeqNrs, d \in SeqNrs :
           /\ b = Plus(a, i) /\ b = IF a + i < SeqMod THEN a + i ELSE a + i - SeqMod
           /\ d = Plus(a, j) /\ d = IF a + j < SeqMod THEN a + j ELSE a + j - SeqMod
  BY PlusFacts
<1>2. PICK g \in SeqNrs : /\ g = IF b >= d THEN b - d ELSE b - d + SeqMod
                          /\ Before(b, d) <=> g >= Half
  BY GapFacts
<1>3. PICK M \in Nat, H \in Nat, e \in Nat, f \in Nat, h \in Nat :
           /\ M = SeqMod /\ H = Half /\ M = 2 * H /\ e = a /\ f = i /\ h = j
           /\ e < M /\ f < M /\ h < M
  BY ConstantFacts
<1>3a. b \in Int /\ d \in Int /\ g \in Int
  BY <1>1, <1>2, ConstantFacts
<1>4. PICK y \in Int, z \in Int, w \in Int :
           /\ y = b /\ z = d /\ w = g
           /\ y = (IF e + f < M THEN e + f ELSE e + f - M)
           /\ z = (IF e + h < M THEN e + h ELSE e + h - M)
           /\ w = (IF y >= z THEN y - z ELSE y - z + M)
  BY <1>1, <1>2, <1>3, <1>3a
<1>5. /\ h > f /\ h - f <= H => w >= H
      /\ h <= f /\ f - h < H => w < H
  BY <1>3, <1>4
<1>6. w >= H <=> Before(b, d)
  BY <1>2, <1>3, <1>4
<1>7. w < H => ~(w >= H)
  BY <1>3, <1>4
<1> QED
  BY <1>1, <1>3, <1>5, <1>6, <1>7

-----------------------------------------------------------------------------
(* The types of all this.                                                    *)
LEMMA BothEnds ==
    ASSUME Inv
    PROVE  /\ Client \in Connection /\ Server \in Connection /\ conn \in [Ends -> Connection]
           /\ Client = conn["client"] /\ Server = conn["server"]
           /\ Sound("client", Client, user["client"]) /\ Sound("server", Server, user["server"])
           /\ "client" \in Ends /\ "server" \in Ends /\ net \subseteq Packet
           /\ sent \in Nat /\ got \in Seq(0 .. MaxData) /\ Null \in 0 .. MaxData
           /\ user \in [Ends -> {"start", "connecting", "retrying", "open", "window", "closed"}]
           /\ Client.open <=> Client.state # "CLOSED"
           /\ Server.open <=> Server.state # "CLOSED"
<1>1. "client" \in Ends /\ "server" \in Ends
  BY DEF Ends
<1>2. MaxData \in Nat
  BY RdpAssumption DEF MaxData
<1>3. got \in Seq(0 .. MaxData)
  <2>1. got \in Seq(1 .. MaxData)
    BY DEF Inv, WorkOK
  <2>2. 1 .. MaxData \subseteq 0 .. MaxData
    BY <1>2
  <2> QED
    BY <2>1, <2>2, SeqMonotonic
<1>4. sent \in Nat /\ Null \in 0 .. MaxData
  BY <1>2 DEF Inv, WorkOK, Null
<1> QED
  BY <1>1, <1>3, <1>4 DEF Inv, WorkOK, EndOK, Client, Server, Sound, ShapeOK

(* What the server has taken when its queue is r: it is not changed by a Null    *)
(* packet.                                                                   *)
With(r) == Data(got \o r)

LEMMA WithFacts ==
    ASSUME Inv, NEW r \in Seq(0 .. MaxData)
    PROVE  /\ Taken = With(Server.rxq) /\ Server.rxq \in Seq(0 .. MaxData)
           /\ With(r) \in Seq(0 .. MaxData) /\ Len(With(r)) \in Nat
           /\ With(Append(r, Null)) = With(r)
           /\ Ordered(With(r)) => Ordered(With(<<>>))
           /\ \A x \in (0 .. MaxData) \ {Null} : With(Append(r, x)) = Append(With(r), x)
<1>1. got \in Seq(0 .. MaxData) /\ Null \in 0 .. MaxData
  BY BothEnds
<1>2. got \o r \in Seq(0 .. MaxData) /\ got \o <<>> = got /\ <<>> \in Seq(0 .. MaxData)
  BY <1>1, ConcatProperties, ConcatEmptySeq, EmptySeq
<1>3. ASSUME NEW x \in 0 .. MaxData PROVE got \o Append(r, x) = Append(got \o r, x)
  <2>1. Append(r, x) = r \o <<x>> /\ Append(got \o r, x) = (got \o r) \o <<x>> /\ <<x>> \in Seq(0 .. MaxData)
    BY <1>2, AppendIsConcat
  <2> QED
    BY <1>1, <2>1, ConcatAssociative
<1>4. /\ With(r) \in Seq(0 .. MaxData) /\ Len(With(r)) \in Nat
      /\ \A x \in 0 .. MaxData : Data(Append(got \o r, x)) = IF x = Null THEN With(r) ELSE Append(With(r), x)
  BY <1>2, DataFacts, LenProperties DEF With
<1>5. Ordered(With(r)) => Ordered(With(<<>>))
  <2>1. /\ Len(Data(got)) <= Len(Data(got \o r)) /\ Len(Data(got)) \in Nat
        /\ \A i \in 1 .. Len(Data(got)) : Data(got \o r)[i] = Data(got)[i]
    <3>1. Behind(got, r)
      BY <1>1, <1>2, DataBehind
    <3> QED
      BY <1>1, <3>1, DataFacts, LenProperties DEF Behind
  <2> QED
    BY <1>2, <1>4, <2>1 DEF With, Ordered
<1>6. Server.rxq \in Seq(0 .. MaxData) /\ Taken = With(Server.rxq)
  BY BothEnds DEF Taken, With, Server, Connection
<1> QED
  BY <1>1, <1>3, <1>4, <1>5, <1>6 DEF With

LEMMA TakenFacts ==
    ASSUME Inv
    PROVE  Len(Taken) \in Nat /\ Taken \in Seq(0 .. MaxData)
<1>1. Server.rxq \in Seq(0 .. MaxData)
  BY BothEnds DEF Connection
<1> QED
  BY <1>1, WithFacts

(* A packet of the client in the window of the server belongs to the connection *)
(* the server has, and its number tells which data it brings.                 *)
LEMMA WindowMatch ==
    ASSUME Inv, Agreed, Unconfused, NEW p \in net, p.to = "server", "RST" \notin p.flags,
           Live(Server), ~Invalid(p), InWindow(Server, p)
    PROVE  /\ Client.iss = Server.irs /\ ~Idle(Client, user["client"]) /\ p.ack = Client.irs
           /\ \E m \in 1 .. 2 * Window :
                /\ p.seq = Plus(Server.irs, Len(Taken) + m) /\ p.seq = Plus(Server.cur, m)
                /\ p.data # 0 => p.data = Len(Taken) + m
<1>1. p \in Packet /\ Server \in Connection /\ Client \in Connection /\ sent \in Nat
  BY BothEnds
<1>2. PICK k \in Nat : k = Len(Taken) /\ k + 2 * Window < SeqMod
  BY TakenFacts DEF Unconfused
<1>3. /\ p.ack = Client.irs /\ ~Idle(Client, user["client"])
      /\ \E i \in 1 .. sent + 1 : p.seq = Plus(Client.iss, i)
      /\ p.data # 0 => Numbered(Client, sent, p)
  <2>1. FromClient(Client, user["client"], sent, p)
    BY DEF Agreed, NetPart
  <2> QED
    BY <2>1 DEF FromClient, Invalid
<1>4. PICK m \in 1 .. 2 * Window : m = Gap(p.seq, Server.cur)
  BY <1>1, WindowFacts
<1>5. /\ Server.cur \in SeqNrs /\ Server.irs \in SeqNrs /\ Client.iss \in SeqNrs /\ p.seq \in SeqNrs
      /\ m \in 0 .. SeqMod - 1 /\ k \in 0 .. SeqMod - 1 /\ k + m < SeqMod /\ k + m \in 0 .. SeqMod - 1
      /\ sent + 1 < SeqMod /\ k + m \in 1 .. k + 2 * Window
  <2>1. Server.cur \in SeqNrs /\ Server.irs \in SeqNrs /\ Client.iss \in SeqNrs /\ p.seq \in SeqNrs
    BY <1>1 DEF Connection, Packet
  <2>2. sent + 1 < Half
    BY DEF Unconfused
  <2> QED
    BY <1>1, <1>2, <2>1, <2>2, ConstantFacts
<1>6. p.seq = Plus(Server.cur, m)
  <2>1. Gap(Plus(Server.cur, m), Server.cur) = m /\ Plus(Server.cur, m) \in SeqNrs
    BY <1>5, GapPlus, PlusFacts
  <2> QED
    BY <1>4, <1>5, <2>1, SameGap
<1>7. p.seq = Plus(Server.irs, k + m)
  <2>1. Server.cur = Plus(Server.irs, k)
    BY <1>2 DEF Agreed, ServerPart, ServerOK
  <2> QED
    BY <1>5, <1>6, <2>1, PlusPlus
<1>8. Client.iss = Server.irs
  <2> SUFFICES ASSUME Client.iss # Server.irs PROVE FALSE
    OBVIOUS
  <2>1. PICK i \in 1 .. sent + 1 : p.seq = Plus(Client.iss, i)
    BY <1>3
  <2>2. Plus(Client.iss, i) # Plus(Server.irs, k + m)
    BY <1>2, <1>5 DEF Unconfused
  <2> QED
    BY <1>7, <2>1, <2>2
<1>9. ASSUME p.data # 0 PROVE p.data = k + m
  <2>1. p.data \in 1 .. sent /\ p.seq = Plus(Server.irs, p.data)
    BY <1>3, <1>8, <1>9 DEF Numbered
  <2>2. p.data \in 0 .. SeqMod - 1
    BY <1>1, <1>5, <2>1, ConstantFacts
  <2> QED
    BY <1>5, <1>7, <2>1, <2>2, PlusOnce
<1> QED
  BY <1>2, <1>3, <1>6, <1>7, <1>8, <1>9

-----------------------------------------------------------------------------
(* What one end may do and both still agree.                                  *)

(* The client becomes d, and its user v, having sent m packets of data.        *)
LEMMA ClientStep ==
    ASSUME Inv, Agreed, NEW d \in Connection, NEW v, NEW m \in Nat, NEW out,
           conn' = [conn EXCEPT !["client"] = d], net' = net \union out,
           user'["client"] = v, sent' = m, got' = got,
           m >= sent, ClientOK(d, v, m), v # "start",
           \/ Idle(Client, user["client"])
           \/ d.irs = Client.irs /\ d.iss = Client.iss /\ ~Idle(d, v),
           \A p \in out : FromClient(d, v, m, p),
           d.state = "OPEN" =>
             \/ Client.state = "OPEN" /\ d.irs = Client.irs /\ d.iss = Client.iss
             \/ Idle(Client, user["client"]) /\ Answered,
           m > 0 => Answered,
           NoReset(net) /\ NoReset(out) /\ d.state = "OPEN" => Remembers(d, m, Server, Len(Taken))
    PROVE  Agreed'
<1>1. Client' = d /\ Server' = Server /\ Taken' = Taken
  BY BothEnds DEF Client, Server, Taken
<1>2. ClientPart'
  BY <1>1 DEF ClientPart, ClientOK, Idle, Queued, Numbered
<1>3. \A p \in net : FromClient(Client, user["client"], sent, p) => FromClient(d, v, m, p)
  <2> SUFFICES ASSUME NEW p \in net, FromClient(Client, user["client"], sent, p)
               PROVE  FromClient(d, v, m, p)
    OBVIOUS
  <2>1. CASE p.flags = {"SYN"} \/ "RST" \in p.flags
    BY <2>1 DEF FromClient
  <2>2. CASE ~(p.flags = {"SYN"} \/ "RST" \in p.flags)
    <3>1. /\ Plain(p) /\ p.ack = Client.irs /\ ~Idle(Client, user["client"])
          /\ p.data # 0 => Numbered(Client, sent, p)
      BY <2>2 DEF FromClient
    <3>2. d.irs = Client.irs /\ d.iss = Client.iss /\ ~Idle(d, v)
      BY <3>1
    <3>3. PICK i \in 1 .. sent + 1 : p.seq = Plus(Client.iss, i)
      BY <2>2 DEF FromClient
    <3>4. i \in 1 .. m + 1 /\ (p.data \in 1 .. sent => p.data \in 1 .. m)
      BY BothEnds
    <3>5. p.data # 0 => Numbered(d, m, p)
      BY <3>1, <3>2, <3>4 DEF Numbered
    <3> QED
      BY <3>1, <3>2, <3>3, <3>4, <3>5 DEF FromClient
  <2> QED
    BY <2>1, <2>2
<1>4. NetPart'
  <2>1. \A p \in net \union out : (p.to = "client" /\ p.data = 0) \/ FromClient(d, v, m, p)
    BY <1>3 DEF Agreed, NetPart
  <2> QED
    BY <1>1, <2>1 DEF NetPart, FromClient, Numbered, Idle
<1>5. \A p \in out : p.to = "server"
  BY DEF FromClient
<1>6. Answered' <=> Answered
  BY <1>5 DEF Answered
<1>7. ServerPart'
  BY <1>1 DEF Agreed, ServerPart, ServerOK, Live, Ordered
<1>8. OpenPart'
  BY <1>1, <1>6 DEF Agreed, OpenPart, Idle
<1>9. MemoryPart'
  <2> SUFFICES ASSUME NoReset(net) /\ NoReset(out)
               PROVE  /\ \A p \in net \union out : p.to = "client" => Honest(Server, Len(Taken), p)
                      /\ d.state = "OPEN" => Remembers(d, m, Server, Len(Taken))
    BY <1>1 DEF MemoryPart, NoReset, Honest, Remembers, Here, Live
  <2> QED
    BY <1>5 DEF Agreed, MemoryPart
<1> QED
  BY <1>2, <1>4, <1>7, <1>8, <1>9 DEF Agreed

(* Of what the server had nothing is lost.                                    *)
Grows(s, k, d, n) ==
    /\ Live(d) /\ d.irs = s.irs /\ k <= n
    /\ \A q \in s.held : q \in d.held \/ (q.data \in 1 .. n /\ q.seq = Plus(d.irs, q.data))

LEMMA ServerStep ==
    ASSUME Inv, Agreed, NEW d \in Connection, NEW taken, NEW out,
           conn' = [conn EXCEPT !["server"] = d], net' = net \union out,
           user'["client"] = user["client"], sent' = sent, Taken' = taken, Len(taken) \in Nat,
           ServerOK(d, taken), d.state = "OPEN" => d.tx = {},
           \A p \in out : p.to = "client" /\ p.data = 0,
           d.state = "OPEN" =>
             \/ /\ Server.state = "OPEN" /\ d.irs = Server.irs /\ d.iss = Server.iss
                /\ \A p \in out : "SYN" \notin p.flags
             \/ ~Idle(Client, user["client"]) /\ d.irs = Client.iss /\ Client.irs = d.iss,
           NoReset(net) /\ NoReset(out) =>
             /\ Live(Server) => Grows(Server, Len(Taken), d, Len(taken))
             /\ \A p \in out : Honest(d, Len(taken), p)
    PROVE  Agreed'
<1>1. Client' = Client /\ Server' = d
  BY BothEnds DEF Client, Server
<1>2. ClientPart'
  BY <1>1 DEF Agreed, ClientPart, ClientOK, Idle, Queued, Numbered
<1>3. NetPart'
  <2>1. \A p \in net \union out :
           (p.to = "client" /\ p.data = 0) \/ FromClient(Client, user["client"], sent, p)
    BY DEF Agreed, NetPart
  <2> QED
    BY <1>1, <2>1 DEF NetPart, FromClient, Numbered, Idle
<1>4. ServerPart'
  BY <1>1 DEF ServerPart, ServerOK, Live, Ordered
<1>5. OpenPart'
  <2>1. Answered => Answered'
    BY DEF Answered
  <2>2. ASSUME \A p \in out : "SYN" \notin p.flags PROVE Answered' => Answered
    BY <2>2 DEF Answered
  <2> QED
    BY <1>1, <2>1, <2>2 DEF Agreed, OpenPart, Idle
<1>6. MemoryPart'
  <2> SUFFICES ASSUME NoReset(net) /\ NoReset(out)
               PROVE  /\ \A p \in net \union out : p.to = "client" => Honest(d, Len(taken), p)
                      /\ Client.state = "OPEN" => Remembers(Client, sent, d, Len(taken))
    BY <1>1 DEF MemoryPart, NoReset, Honest, Remembers, Here, Live
  <2>1. \A p \in net : p.to = "client" => Honest(Server, Len(Taken), p)
    BY DEF Agreed, MemoryPart
  <2>2. CASE ~Live(Server)
    <3>1. \A p \in net : p.to # "client"
      BY <2>1, <2>2 DEF Honest
    <3>2. Client.state # "OPEN"
      BY <3>1 DEF Agreed, OpenPart, Answered
    <3> QED
      BY <3>1, <3>2
  <2>3. CASE Live(Server)
    <3>1. PICK k \in Nat, n \in Nat : k = Len(Taken) /\ n = Len(taken)
      BY TakenFacts
    <3>2. /\ Live(d) /\ d.irs = Server.irs /\ k <= n
          /\ \A q \in Server.held : q \in d.held \/ (q.data \in 1 .. n /\ q.seq = Plus(d.irs, q.data))
      BY <2>3, <3>1 DEF Grows
    <3>3. \A j \in 0 .. k : j \in 0 .. n
      BY <3>2
    <3>4. ASSUME NEW x, Here(Server, k, x) PROVE Here(d, n, x)
      <4>1. CASE \E j \in 0 .. k : x = Plus(Server.irs, j)
        BY <3>2, <3>3, <4>1 DEF Here
      <4>2. CASE \E q \in Server.held : q.seq = x
        <5>1. PICK q \in Server.held : q.seq = x
          BY <4>2
        <5>2. \A i \in 1 .. n : i \in 0 .. n
          OBVIOUS
        <5> QED
          BY <3>2, <5>1, <5>2 DEF Here
      <4> QED
        BY <3>4, <4>1, <4>2 DEF Here
    <3>5. ASSUME NEW p \in net, p.to = "client" PROVE Honest(d, n, p)
      <4>1. Honest(Server, k, p)
        BY <2>1, <3>1, <3>5
      <4> QED
        BY <3>2, <3>3, <3>4, <4>1 DEF Honest
    <3>6. ASSUME Client.state = "OPEN" PROVE Remembers(Client, sent, d, n)
      <4>1. Remembers(Client, sent, Server, k)
        BY <3>1, <3>6 DEF Agreed, MemoryPart
      <4>2. \E j \in 0 .. n : Client.una = Plus(d.irs, j + 1)
        BY <3>2, <3>3, <4>1 DEF Remembers
      <4>3. ASSUME d.irs = Client.iss, NEW i \in 1 .. sent
            PROVE  i <= n \/ \E q \in Client.tx \union d.held : q.data = i
        <5>1. i <= k \/ \E q \in Client.tx \union Server.held : q.data = i
          BY <3>2, <4>1, <4>3 DEF Remembers
        <5>2. CASE i <= k
          BY <3>2, <5>2, BothEnds
        <5>3. CASE \E q \in Client.tx \union Server.held : q.data = i
          BY <3>2, <5>3
        <5> QED
          BY <5>1, <5>2, <5>3
      <4> QED
        BY <4>2, <4>3 DEF Remembers
    <3> QED
      BY <3>1, <3>5, <3>6
  <2> QED
    BY <2>2, <2>3
<1> QED
  BY <1>2, <1>3, <1>4, <1>5, <1>6 DEF Agreed

-----------------------------------------------------------------------------
(* What csp_rdp_check_timeouts does after a packet: it leaves d of the connection *)
(* c, and sends more than the packet has had sent.                            *)
LeftAs(e, c, out, d, more) ==
    /\ conn' = [conn EXCEPT ![e] = d] /\ net' = net \union (out \union more)
    /\ d.state = c.state /\ d.iss = c.iss /\ d.irs = c.irs /\ d.cur = c.cur
    /\ d.nxt = c.nxt /\ d.una = c.una /\ d.held = c.held /\ d.rxq = c.rxq
    /\ d.tx = {q \in c.tx : ~Before(q.seq, c.una)}
    /\ d.lsa \in {c.lsa, c.cur}
    /\ \A p \in more :
         \/ \E q \in d.tx : /\ p.to = q.to /\ p.flags = q.flags /\ p.seq = q.seq
                            /\ p.data = q.data /\ p.list = q.list /\ p.ack = c.cur
         \/ p = Ack(e, c) /\ c.lsa # c.cur

LEMMA ServicedIs ==
    ASSUME NEW e \in Ends, NEW c \in Connection, NEW late, NEW early, NEW out,
           Serviced(e, c, late, early, out)
    PROVE  \E d \in Connection : \E more : LeftAs(e, c, out, d, more)
<1>1. PICK b : b = Unacked(c)
  OBVIOUS
<1>2. /\ b \in Connection /\ b.state = c.state /\ b.iss = c.iss /\ b.irs = c.irs /\ b.cur = c.cur
      /\ b.nxt = c.nxt /\ b.una = c.una /\ b.held = c.held /\ b.rxq = c.rxq /\ b.lsa = c.lsa
      /\ b.tx = {q \in c.tx : ~Before(q.seq, c.una)}
  BY <1>1, UnackedFacts
<1>3. PICK acks \in BOOLEAN : acks = AckDue(b, early)
  <2>1. AckDue(b, early) \in BOOLEAN
    BY DEF AckDue
  <2> QED
    BY <2>1
<1>4. PICK g : g = IF acks THEN Acking(b) ELSE b
  OBVIOUS
<1>5. /\ g \in Connection /\ g.state = c.state /\ g.iss = c.iss /\ g.irs = c.irs /\ g.cur = c.cur
      /\ g.nxt = c.nxt /\ g.una = c.una /\ g.held = c.held /\ g.rxq = c.rxq
      /\ g.lsa \in {c.lsa, c.cur} /\ g.tx = b.tx
  BY <1>2, <1>4 DEF Acking, Connection
<1>6. PICK d : d = Woken(g)
  OBVIOUS
<1>7. /\ d \in Connection /\ d.state = c.state /\ d.iss = c.iss /\ d.irs = c.irs /\ d.cur = c.cur
      /\ d.nxt = c.nxt /\ d.una = c.una /\ d.held = c.held /\ d.rxq = c.rxq
      /\ d.lsa \in {c.lsa, c.cur} /\ d.tx = b.tx
  <2>1. PICK w \in BOOLEAN : w = (g.wake \/ Ready(g))
    <3>1. (g.wake \/ Ready(g)) \in BOOLEAN
      BY <1>5 DEF Connection, Ready
    <3> QED
      BY <3>1
  <2>2. d = [g EXCEPT !.wake = w]
    BY <1>6, <2>1 DEF Woken
  <2> QED
    BY <1>5, <2>2 DEF Connection
<1>8. PICK more : more = {[q EXCEPT !.ack = b.cur] : q \in late \intersect b.tx}
                           \union (IF acks THEN {Ack(e, b)} ELSE {})
  OBVIOUS
<1>9. conn' = [conn EXCEPT ![e] = d] /\ net' = net \union (out \union more)
  BY <1>1, <1>3, <1>4, <1>6, <1>8 DEF Serviced, Becomes
<1>10. ASSUME NEW p \in more
       PROVE  \/ \E q \in d.tx : /\ p.to = q.to /\ p.flags = q.flags /\ p.seq = q.seq
                                 /\ p.data = q.data /\ p.list = q.list /\ p.ack = c.cur
              \/ p = Ack(e, c) /\ c.lsa # c.cur
  <2>1. CASE \E q \in late \intersect b.tx : p = [q EXCEPT !.ack = b.cur]
    <3>1. PICK q \in b.tx : p = [q EXCEPT !.ack = b.cur]
      BY <2>1
    <3>2. q \in Packet
      BY <1>2, <3>1 DEF Connection
    <3>3. /\ p.to = q.to /\ p.flags = q.flags /\ p.seq = q.seq
          /\ p.data = q.data /\ p.list = q.list /\ p.ack = c.cur
      BY <1>2, <3>1, <3>2 DEF Packet
    <3> QED
      BY <1>7, <3>1, <3>3
  <2>2. CASE acks /\ p = Ack(e, b)
    BY <1>2, <1>3, <2>2 DEF AckDue, Ack
  <2> QED
    BY <1>8, <1>10, <2>1, <2>2
<1> QED
  BY <1>2, <1>7, <1>9, <1>10 DEF LeftAs

(* What a step of the router may leave of the server's connection, and send.    *)
ServerMay(c, out) ==
    /\ c \in Connection /\ (c.open <=> c.state # "CLOSED")
    /\ ServerOK(c, With(c.rxq))
    /\ c.state = "OPEN" => \A q \in c.tx : Before(q.seq, c.una)
    /\ c.state = "SYN_RCVD" => c.tx \subseteq {SynAck("server", c)}
    /\ \A p \in out : p.to = "client" /\ p.data = 0
    /\ c.state = "OPEN" =>
         \/ /\ Server.state = "OPEN" /\ c.irs = Server.irs /\ c.iss = Server.iss
            /\ \A p \in out : "SYN" \notin p.flags
         \/ ~Idle(Client, user["client"]) /\ c.irs = Client.iss /\ Client.irs = c.iss
    /\ NoReset(net) /\ NoReset(out) =>
         /\ Live(Server) => Grows(Server, Len(Taken), c, Len(With(c.rxq)))
         /\ \A p \in out : Honest(c, Len(With(c.rxq)), p)

LEMMA AcksAreHonest ==
    ASSUME Inv, NEW c \in Connection, NEW taken, Len(taken) \in Nat, ServerOK(c, taken), Live(c)
    PROVE  /\ Honest(c, Len(taken), Ack("server", c)) /\ Honest(c, Len(taken), Eack("server", c))
           /\ c.state = "SYN_RCVD" => Honest(c, Len(taken), SynAck("server", c)) /\ c.cur = c.irs
           /\ \A p \in {Ack("server", c), Eack("server", c), SynAck("server", c), Reset("server", c),
                        Bare("server", {"RST"}, c.nxt, c.cur)} :
                p.to = "client" /\ p.data = 0 
           /\ "SYN" \notin Ack("server", c).flags /\ "SYN" \notin Eack("server", c).flags
<1>1. PICK k \in Nat : k = Len(taken) /\ c.cur = Plus(c.irs, k)
  BY DEF ServerOK
<1>2. c.state = "SYN_RCVD" => c.cur = c.irs
  <2>1. c.state = "SYN_RCVD" => k = 0
    BY <1>1, EmptySeq DEF ServerOK
  <2>2. c.irs \in SeqNrs
    BY DEF Connection
  <2> QED
    BY <1>1, <2>1, <2>2, PlusZero
<1>3. k \in 0 .. k
  OBVIOUS
<1> QED
  BY <1>1, <1>2, <1>3 DEF Honest, Here, Ack, Eack, SynAck, Reset, Bare, Peer

LEMMA ServerServiced ==
    ASSUME Inv, Agreed, NEW c, NEW late, NEW early, NEW out, ServerMay(c, out), Live(c),
           Serviced("server", c, late, early, out), UNCHANGED <<user, sent, got>>
    PROVE  Agreed'
<1>1. c \in Connection /\ c.rxq \in Seq(0 .. MaxData) /\ "server" \in Ends
  BY BothEnds DEF ServerMay, Connection
<1>2. PICK taken : taken = With(c.rxq) /\ Len(taken) \in Nat
  BY <1>1, WithFacts
<1>3. PICK d \in Connection : \E more : LeftAs("server", c, out, d, more)
  BY <1>1, ServicedIs
<1>3b. PICK more : LeftAs("server", c, out, d, more)
  BY <1>3
<1>3a. /\ conn' = [conn EXCEPT !["server"] = d] /\ net' = net \union (out \union more)
       /\ d.state = c.state /\ d.iss = c.iss /\ d.irs = c.irs /\ d.cur = c.cur
       /\ d.held = c.held /\ d.rxq = c.rxq
       /\ d.tx = {q \in c.tx : ~Before(q.seq, c.una)} /\ d.lsa \in {c.lsa, c.cur}
       /\ \A p \in more :
            \/ \E q \in d.tx : /\ p.to = q.to /\ p.flags = q.flags /\ p.seq = q.seq
                               /\ p.data = q.data /\ p.list = q.list /\ p.ack = c.cur
            \/ p = Ack("server", c) /\ c.lsa # c.cur
  BY <1>3b DEF LeftAs
<1>4. ServerOK(c, taken)
  BY <1>2 DEF ServerMay
<1>5. ServerOK(d, taken)
  BY <1>3a, <1>4 DEF ServerOK, Live
<1>6. d.state = "OPEN" => d.tx = {}
  BY <1>3a DEF ServerMay
<1>7. ASSUME NEW p \in more
      PROVE  /\ p.to = "client" /\ p.data = 0 /\ Honest(c, Len(taken), p)
             /\ c.state = "OPEN" => "SYN" \notin p.flags
  <2>1. CASE p = Ack("server", c)
    BY <1>1, <1>2, <1>4, <2>1, AcksAreHonest
  <2>2. CASE \E q \in d.tx : /\ p.to = q.to /\ p.flags = q.flags /\ p.seq = q.seq
                             /\ p.data = q.data /\ p.list = q.list /\ p.ack = c.cur
    <3>1. PICK q \in d.tx : /\ p.to = q.to /\ p.data = q.data /\ p.list = q.list /\ p.ack = c.cur
      BY <2>2
    <3>2. c.state = "SYN_RCVD"
      BY <1>3a, <1>6, <3>1 DEF Live
    <3>3. q = SynAck("server", c)
      BY <1>3a, <3>1, <3>2 DEF ServerMay
    <3>4. c.cur = c.irs /\ Honest(c, Len(taken), q) /\ q.to = "client" /\ q.data = 0
      BY <1>1, <1>2, <1>4, <3>2, <3>3, AcksAreHonest
    <3>5. q.ack = c.irs
      BY <3>3 DEF SynAck, Bare
    <3> QED
      BY <3>1, <3>2, <3>4, <3>5 DEF Honest
  <2> QED
    BY <1>3a, <1>7, <2>1, <2>2
<1>8. Taken' = taken
  BY <1>1, <1>2, <1>3a, BothEnds DEF Taken, With
<1>9. \A k, p : Honest(c, k, p) => Honest(d, k, p)
  BY <1>3a DEF Honest, Here, Live
<1>10. NoReset(net) /\ NoReset(out \union more) =>
         /\ Live(Server) => Grows(Server, Len(Taken), d, Len(taken))
         /\ \A p \in out \union more : Honest(d, Len(taken), p)
  <2> SUFFICES ASSUME NoReset(net), NoReset(out \union more)
               PROVE  /\ Live(Server) => Grows(Server, Len(Taken), d, Len(taken))
                      /\ \A p \in out \union more : Honest(d, Len(taken), p)
    OBVIOUS
  <2>1. NoReset(out)
    BY DEF NoReset
  <2>2. /\ Live(Server) => Grows(Server, Len(Taken), c, Len(taken))
        /\ \A p \in out : Honest(c, Len(taken), p)
    BY <1>2, <2>1 DEF ServerMay
  <2>3. Live(Server) => Grows(Server, Len(Taken), d, Len(taken))
    BY <1>3a, <2>2 DEF Grows, Live
  <2> QED
    BY <1>7, <1>9, <2>2, <2>3
<1>11. \A p \in out \union more : p.to = "client" /\ p.data = 0
  BY <1>7 DEF ServerMay
<1>12. d.state = "OPEN" =>
         \/ /\ Server.state = "OPEN" /\ d.irs = Server.irs /\ d.iss = Server.iss
            /\ \A p \in out \union more : "SYN" \notin p.flags
         \/ ~Idle(Client, user["client"]) /\ d.irs = Client.iss /\ Client.irs = d.iss
  BY <1>3a, <1>7 DEF ServerMay
<1>13. user'["client"] = user["client"] /\ sent' = sent
  OBVIOUS
<1> QED
  BY <1>2, <1>3a, <1>5, <1>6, <1>8, <1>10, <1>11, <1>12, <1>13, ServerStep

LEMMA ServerTakes ==
    ASSUME Inv, Agreed, NEW c, NEW out, ServerMay(c, out), Take("server", c, out)
    PROVE  Agreed'
<1>1. UNCHANGED <<user, sent, got>>
  BY DEF Take
<1>2. CASE c.open /\ c.state # "CLOSE_WAIT"
  <2>1. Live(c)
    BY <1>2 DEF ServerMay, ServerOK, Live, Connection, States
  <2>2. Serviced("server", c, {}, FALSE, out)
    BY <1>2 DEF Take
  <2> QED
    BY <1>1, <2>1, <2>2, ServerServiced
<1>3. CASE ~(c.open /\ c.state # "CLOSE_WAIT")
  <2>1. Becomes("server", c, out)
    BY <1>3 DEF Take
  <2>2. c \in Connection /\ c.state \in {"CLOSED", "CLOSE_WAIT"} /\ c.rxq \in Seq(0 .. MaxData)
    BY <1>3 DEF ServerMay, Connection
  <2>3. PICK taken : taken = With(c.rxq) /\ Len(taken) \in Nat
    BY <2>2, WithFacts
  <2>4. Taken' = taken
    BY <1>1, <2>1, <2>2, <2>3, BothEnds DEF Taken, With, Becomes
  <2>5. /\ ServerOK(c, taken) /\ (\A p \in out : p.to = "client" /\ p.data = 0)
        /\ NoReset(net) /\ NoReset(out) =>
             /\ Live(Server) => Grows(Server, Len(Taken), c, Len(taken))
             /\ \A p \in out : Honest(c, Len(taken), p)
    BY <2>3 DEF ServerMay
  <2>6. conn' = [conn EXCEPT !["server"] = c] /\ net' = net \union out
    BY <2>1 DEF Becomes
  <2>7. user'["client"] = user["client"] /\ sent' = sent
    BY <1>1
  <2> QED
    BY <2>2, <2>3, <2>4, <2>5, <2>6, <2>7, ServerStep
<1> QED
  BY <1>2, <1>3

(* The server's connection is closing, or closed.                             *)
LEMMA ServerGone ==
    ASSUME Inv, Agreed, NEW c \in Connection, NEW out, c.open <=> c.state # "CLOSED",
           c.state \in {"CLOSED", "CLOSE_WAIT"}, c.state = "CLOSE_WAIT" => c.lsa = c.cur,
           With(c.rxq) = Taken \/ c.rxq = <<>>,
           \A p \in out : p.to = "client" /\ p.data = 0,
           ~(NoReset(net) /\ NoReset(out)) \/ (~Live(Server) /\ out = {})
    PROVE  ServerMay(c, out)
<1>1. Ordered(With(c.rxq))
  <2>1. Ordered(Taken) /\ Server.rxq \in Seq(0 .. MaxData)
    BY BothEnds DEF Agreed, ServerPart, ServerOK, Connection
  <2>2. Taken = With(Server.rxq) /\ (Ordered(With(Server.rxq)) => Ordered(With(<<>>)))
    BY <2>1, WithFacts
  <2> QED
    BY <2>1, <2>2
<1>2. ServerOK(c, With(c.rxq))
  BY <1>1 DEF ServerOK, Live
<1> QED
  BY <1>2 DEF ServerMay

(* It is as it was, but for what acknowledgements have changed.               *)
LEMMA ServerSame ==
    ASSUME Inv, Agreed, NEW c \in Connection, NEW out, Live(Server), c.open = Server.open,
           c.state = Server.state, c.irs = Server.irs, c.iss = Server.iss, c.cur = Server.cur,
           c.held = Server.held, With(c.rxq) = Taken,
           c.state = "OPEN" => c.tx = {},
           c.state = "SYN_RCVD" => c.tx \subseteq {SynAck("server", c)},
           \A p \in out : /\ p.to = "client" /\ p.data = 0
                          /\ c.state = "OPEN" => "SYN" \notin p.flags
                          /\ Honest(c, Len(Taken), p)
    PROVE  ServerMay(c, out)
<1>1. ServerOK(c, Taken) /\ Live(c)
  BY DEF Agreed, ServerPart, ServerOK, Live
<1>2. Len(Taken) \in Nat /\ (c.open <=> c.state # "CLOSED")
  BY BothEnds, TakenFacts
<1>3. Grows(Server, Len(Taken), c, Len(Taken))
  <2>1. Len(Taken) <= Len(Taken)
    BY <1>2
  <2>2. c.irs = Server.irs /\ \A q \in Server.held : q \in c.held
    OBVIOUS
  <2> HIDE DEF Taken, Server
  <2> QED
    BY <1>1, <2>1, <2>2 DEF Grows
<1> QED
  BY <1>1, <1>2, <1>3 DEF ServerMay

(* The queues of the server's connection.                                     *)
LEMMA ServerQueues ==
    ASSUME Inv, Agreed
    PROVE  /\ Server.rxq \in Seq(0 .. MaxData) /\ With(Server.rxq) = Taken
           /\ Server.state = "OPEN" => Server.tx = {}
           /\ Server.state = "SYN_RCVD" => Server.tx \subseteq {SynAck("server", Server)}
           /\ Server.state # "SYN_SENT"
           /\ ServerOK(Server, Taken) /\ Len(Taken) \in Nat
<1>1. Server.rxq \in Seq(0 .. MaxData)
  BY BothEnds DEF Connection
<1>2. TxOK("server", Server, user["server"])
  BY BothEnds DEF Sound
<1> QED
  BY <1>1, <1>2, WithFacts, TakenFacts DEF Agreed, ServerPart, ServerOK, TxOK

(* csp_close of the server's connection, c before it.                         *)
LEMMA ServerClosed ==
    ASSUME Inv, Agreed, NEW c \in Connection, NEW more, Lingers(c) => c.open,
           c.state = "SYN_SENT" => FALSE,
           c.rxq = Server.rxq \/ c.rxq = <<>>,
           \A p \in more : p.to = "client" /\ p.data = 0,
           ~(NoReset(net) /\ NoReset(more)) \/ (c.state = Server.state /\ more = {})
    PROVE  ServerMay(Closed(c), ClosePackets("server", c) \union more)
<1>1. PICK d, out : d = Closed(c) /\ out = ClosePackets("server", c) \union more
  OBVIOUS
<1>2. \A p \in out : p.to = "client" /\ p.data = 0
  BY <1>1 DEF ClosePackets, Reset, Bare, Peer
<1>3. CASE Lingers(c)
  <2>1. /\ d \in Connection /\ d.open = c.open /\ d.state = "CLOSE_WAIT" /\ d.lsa = d.cur
        /\ d.rxq = c.rxq
    BY <1>1, <1>3 DEF Closed, Acking, Connection, States
  <2>2. d.open
    BY <1>3, <2>1 DEF Lingers
  <2>3. Reset("server", c) \in out /\ "RST" \in Reset("server", c).flags
    BY <1>1, <1>3 DEF ClosePackets, Reset, Bare
  <2> QED
    BY <1>1, <1>2, <2>1, <2>2, <2>3, ServerGone, ServerQueues DEF NoReset
<1>4. CASE ~Lingers(c)
  <2>1. d \in Connection /\ d.open = FALSE /\ d.state = "CLOSED" /\ d.rxq = <<>>
    <3>1. <<>> \in Seq(0 .. MaxData)
      BY EmptySeq
    <3>2. d = [c EXCEPT !.open = FALSE, !.state = "CLOSED", !.rxq = <<>>, !.tx = {},
                        !.copies = 0, !.held = {}]
      BY <1>1, <1>4 DEF Closed
    <3> QED
      BY <3>1, <3>2 DEF Connection, States
  <2>2. out = more
    BY <1>1, <1>4 DEF ClosePackets
  <2>3. ~(NoReset(net) /\ NoReset(out)) \/ (~Live(Server) /\ out = {})
    BY <1>4, <2>2 DEF Lingers, Live
  <2> QED
    BY <1>1, <1>2, <2>1, <2>3, ServerGone
<1> QED
  BY <1>3, <1>4

LEMMA ServerBecomes ==
    ASSUME Inv, Agreed, NEW c, NEW out, ServerMay(c, out), c.state = "OPEN" => c.tx = {},
           conn' = [conn EXCEPT !["server"] = c], net' = net \union out,
           user'["client"] = user["client"], sent' = sent, got' = got
    PROVE  Agreed'
<1>1. c \in Connection /\ c.rxq \in Seq(0 .. MaxData)
  BY DEF ServerMay, Connection
<1>2. PICK taken : taken = With(c.rxq) /\ Len(taken) \in Nat
  BY <1>1, WithFacts
<1>3. Taken' = taken
  BY <1>1, <1>2, BothEnds DEF Taken, With
<1>4. /\ ServerOK(c, taken) /\ (\A p \in out : p.to = "client" /\ p.data = 0)
      /\ NoReset(net) /\ NoReset(out) =>
           /\ Live(Server) => Grows(Server, Len(Taken), c, Len(taken))
           /\ \A p \in out : Honest(c, Len(taken), p)
      /\ c.state = "OPEN" =>
           \/ /\ Server.state = "OPEN" /\ c.irs = Server.irs /\ c.iss = Server.iss
              /\ \A p \in out : "SYN" \notin p.flags
           \/ ~Idle(Client, user["client"]) /\ c.irs = Client.iss /\ Client.irs = c.iss
  BY <1>2 DEF ServerMay
<1> QED
  BY <1>1, <1>2, <1>3, <1>4, ServerStep

-----------------------------------------------------------------------------
(* What arrives at the server.                                                *)
LEMMA ServerFor ==
    ASSUME Inv, Agreed
    PROVE  /\ For("server") \in Connection /\ "server" \in Ends
           /\ For("server").state = Server.state /\ Server.state # "SYN_SENT"
           /\ For("server").state # "CLOSED" => /\ For("server") = Server /\ Server.open
                                                /\ For("server").held = Server.held
           /\ For("server").rxq = Server.rxq \/ For("server").rxq = <<>>
<1>1. "server" \in Ends /\ Server \in Connection /\ Server = conn["server"]
  BY BothEnds
<1>2. For("server") \in Connection /\ (For("server").state # "CLOSED" => For("server") = Server)
  BY <1>1, ForFacts
<1>3. /\ For("server").state = Server.state
      /\ For("server").rxq = Server.rxq \/ For("server").rxq = <<>>
  BY <1>1 DEF For, Connection
<1> QED
  BY <1>1, <1>2, <1>3, BothEnds, ServerQueues

LEMMA AckedToIs ==
    ASSUME NEW c \in Connection, NEW p \in Packet
    PROVE  LET d == AckedTo(c, p)
           IN /\ d \in Connection /\ d.open = c.open /\ d.posted = c.posted /\ d.state = c.state
              /\ d.iss = c.iss /\ d.irs = c.irs /\ d.nxt = c.nxt /\ d.cur = c.cur /\ d.lsa = c.lsa
              /\ d.tx = c.tx /\ d.held = c.held /\ d.rxq = c.rxq /\ d.wake = c.wake
              /\ d.una = c.una \/ d.una = Plus(p.ack, 1)
<1>1. Plus(p.ack, 1) \in SeqNrs
  BY NextNr DEF Packet
<1> QED
  BY <1>1 DEF AckedTo, Connection

LEMMA ServerResetClosing ==
    ASSUME Inv, Agreed, NEW p, ResetClosing("server", p)
    PROVE  Agreed'
<1>1. p \in Packet /\ p \in net /\ "RST" \in p.flags /\ For("server") \in Connection
  BY ServerFor, ArrivedFacts DEF ResetClosing, Arrived
<1>2. PICK c : c = AckedTo(For("server"), p)
  OBVIOUS
<1>3. /\ c \in Connection /\ (c.rxq = Server.rxq \/ c.rxq = <<>>)
      /\ c.state \in {"CLOSED", "CLOSE_WAIT"}
  BY <1>1, <1>2, AckedToIs, ServerFor DEF ResetClosing
<1>4. ~Lingers(c) /\ ClosePackets("server", c) = {}
  BY <1>3 DEF Lingers, ClosePackets
<1>5. ServerMay(Closed(c), ClosePackets("server", c) \union {})
  BY <1>1, <1>3, <1>4, ServerClosed DEF NoReset
<1>6. Take("server", Closed(c), {})
  BY <1>2 DEF ResetClosing
<1> QED
  BY <1>4, <1>5, <1>6, ServerTakes

(* The connection of the server has been told of its end.                     *)
LEMMA ToldIs ==
    ASSUME Inv, NEW c \in Connection, With(c.rxq) = Taken
    PROVE  LET d == Told(c)
           IN /\ d \in Connection /\ d.open = c.open /\ d.state = c.state /\ d.iss = c.iss
              /\ d.irs = c.irs /\ d.cur = c.cur /\ d.lsa = c.lsa /\ d.tx = c.tx
              /\ d.held = c.held /\ With(d.rxq) = Taken
<1>1. c.rxq \in Seq(0 .. MaxData) /\ Null \in 0 .. MaxData
  BY BothEnds DEF Connection
<1>2. Append(c.rxq, Null) \in Seq(0 .. MaxData) /\ With(Append(c.rxq, Null)) = With(c.rxq)
  BY <1>1, WithFacts, AppendProperties
<1> QED
  BY <1>2 DEF Told, Connection

LEMMA ServerResetInSequence ==
    ASSUME Inv, Agreed, NEW p, ResetInSequence("server", p)
    PROVE  Agreed'
<1>1. /\ p \in Packet /\ p \in net /\ "RST" \in p.flags /\ For("server") = Server
      /\ Server \in Connection /\ Server.open /\ With(Server.rxq) = Taken
  BY ServerFor, ArrivedFacts, BothEnds, ServerQueues DEF ResetInSequence, Arrived
<1>2. PICK b : b = AckedTo(Server, p)
  OBVIOUS
<1>3. b \in Connection /\ b.rxq = Server.rxq /\ b.open
  BY <1>1, <1>2, AckedToIs
<1>4. PICK c : c = [Acking(b) EXCEPT !.state = "CLOSE_WAIT"]
  OBVIOUS
<1>5. /\ c \in Connection /\ c.state = "CLOSE_WAIT" /\ c.rxq = Server.rxq /\ c.open
      /\ c.lsa = c.cur
  BY <1>3, <1>4 DEF Acking, Connection, States
<1>6. Reset("server", c).to = "client" /\ Reset("server", c).data = 0
  BY DEF Reset, Bare, Peer
<1>7. Take("server", Discarded(c), {Reset("server", c)})
  BY <1>1, <1>2, <1>4 DEF ResetInSequence
<1>8. CASE c.posted
  <2>1. PICK d : d = Told(c)
    OBVIOUS
  <2>2. /\ d \in Connection /\ d.open /\ d.state = "CLOSE_WAIT" /\ d.lsa = d.cur
        /\ With(d.rxq) = Taken
    BY <1>1, <1>5, <2>1, ToldIs
  <2>3. ServerMay(d, {Reset("server", c)})
    BY <1>1, <1>6, <2>2, ServerGone DEF NoReset
  <2> QED
    BY <1>7, <1>8, <2>1, <2>3, ServerTakes DEF Discarded
<1>9. CASE ~c.posted
  <2>1. ~Lingers(c) /\ ClosePackets("server", c) = {}
    BY <1>5 DEF Lingers, ClosePackets
  <2>2. ServerMay(Closed(c), ClosePackets("server", c) \union {Reset("server", c)})
    BY <1>1, <1>5, <1>6, ServerClosed DEF NoReset
  <2>3. ServerMay(Closed(c), {Reset("server", c)})
    BY <2>1, <2>2
  <2> QED
    BY <1>7, <1>9, <2>3, ServerTakes DEF Discarded
<1> QED
  BY <1>8, <1>9

LEMMA ServerResetOutOfSequence ==
    ASSUME Inv, Agreed, NEW p, ResetOutOfSequence("server", p)
    PROVE  Agreed'
<1>1. /\ p \in Packet /\ For("server") = Server /\ Server \in Connection
      /\ Server.state \notin {"CLOSED", "CLOSE_WAIT"}
  BY ServerFor, ArrivedFacts, BothEnds DEF ResetOutOfSequence
<1>2. Live(Server)
  BY <1>1, ServerFor DEF Live, Connection, States
<1>3. PICK d : d = AckedTo(Server, p)
  OBVIOUS
<1>4. /\ d \in Connection /\ d.open = Server.open /\ d.state = Server.state
      /\ d.iss = Server.iss /\ d.irs = Server.irs /\ d.cur = Server.cur
      /\ d.tx = Server.tx /\ d.held = Server.held /\ d.rxq = Server.rxq
  BY <1>1, <1>3, AckedToIs
<1>5. SynAck("server", d) = SynAck("server", Server)
  BY <1>4 DEF SynAck
<1>6. ServerMay(d, {})
  BY <1>2, <1>4, <1>5, ServerSame, ServerQueues
<1>7. Take("server", d, {})
  BY <1>1, <1>3 DEF ResetOutOfSequence
<1> QED
  BY <1>6, <1>7, ServerTakes

LEMMA ServerNotSyn ==
    ASSUME Inv, Agreed, NEW p, NotSyn("server", p)
    PROVE  Agreed'
<1>1. PICK c \in Connection : /\ c = For("server") /\ c.state = "CLOSED" /\ ~c.posted
                              /\ c.rxq = <<>>
  BY ForFacts, ServerFor, ArrivedFacts DEF NotSyn, In
<1>2. PICK q : q = Bare("server", {"RST"}, c.nxt, c.cur)
  OBVIOUS
<1>3. q.to = "client" /\ q.data = 0 /\ "RST" \in q.flags
  BY <1>2 DEF Bare, Peer
<1>4. ~Lingers(c) /\ ClosePackets("server", c) = {}
  BY <1>1 DEF Lingers, ClosePackets
<1>5. ServerMay(Closed(c), ClosePackets("server", c) \union {q})
  BY <1>1, <1>3, <1>4, ServerClosed DEF NoReset
<1>6. ServerMay(Closed(c), {q})
  BY <1>4, <1>5
<1>7. Take("server", Closed(c), {q})
  BY <1>1, <1>2 DEF NotSyn, Discarded
<1> QED
  BY <1>6, <1>7, ServerTakes

LEMMA ServerSynReceived ==
    ASSUME Inv, Agreed, NEW p, SynReceived("server", p)
    PROVE  Agreed'
<1>1. /\ p \in Packet /\ Server.state = "CLOSED"
  BY ServerFor, ArrivedFacts DEF SynReceived, In
<1>2. PICK b \in Connection : /\ b = For("server") /\ b.open /\ b.tx = {} /\ b.held = {} /\ b.rxq = <<>>
  BY ForFacts, ServerFor, ArrivedFacts DEF SynReceived, In
<1>3. PICK iss \in SeqNrs : iss = Rand["server"][b.iss]
  BY <1>2, ServerFor, RdpAssumption DEF Connection
<1>4. PICK c : c = [b EXCEPT !.state = "SYN_RCVD", !.iss = iss, !.nxt = Plus(iss, 1),
                             !.una = iss, !.cur = p.seq, !.irs = p.seq, !.lsa = p.seq]
  OBVIOUS
<1>5. Plus(iss, 1) \in SeqNrs /\ p.seq \in SeqNrs
  BY <1>1, NextNr DEF Packet
<1>6. /\ c \in Connection /\ c.tx = {} /\ c.held = {} /\ c.open /\ c.rxq = <<>>
      /\ c.state = "SYN_RCVD" /\ c.cur = p.seq /\ c.irs = p.seq
  BY <1>2, <1>4, <1>5 DEF Connection, States
<1>7. PICK s \in Packet : s = SynAck("server", c)
  BY <1>6, PacketFacts, ServerFor
<1>8. PICK d \in Connection : /\ d = Cloned("server", c) /\ d.held = {} /\ d.rxq = <<>>
                              /\ d.state = "SYN_RCVD" /\ d.cur = p.seq /\ d.irs = p.seq
  BY <1>6, ClonedFacts, ServerFor
<1>9. /\ d \in Connection /\ d.held = {} /\ d.rxq = <<>>
      /\ d.state = "SYN_RCVD" /\ d.cur = p.seq /\ d.irs = p.seq
  BY <1>8
<1>10. conn' = [conn EXCEPT !["server"] = d] /\ net' = net \union {s} /\ UNCHANGED <<user, sent>> /\ got' = <<>>
  BY <1>2, <1>3, <1>4, <1>7, <1>8 DEF SynReceived, Becomes
<1>11. PICK taken : taken = <<>> /\ Len(taken) = 0
  BY EmptySeq
<1>12. Taken' = taken
  <2>1. (<<>> \o <<>>) = <<>> /\ <<>> \in Seq(0 .. MaxData)
    BY EmptySeq, ConcatEmptySeq
  <2>2. Data(<<>> \o <<>>) = <<>>
    BY <2>1, DataFacts
  <2> QED
    BY <1>9, <1>10, <1>11, <2>2, BothEnds DEF Taken
<1>13. ServerOK(d, taken)
  <2>1. d.cur = Plus(d.irs, 0)
    BY <1>5, <1>9, PlusZero
  <2> QED
    BY <1>9, <1>11, <2>1 DEF ServerOK, Live, Ordered
<1>14. s.to = "client" /\ s.data = 0 /\ s.ack = d.irs /\ s.list = {}
  BY <1>6, <1>7, <1>9 DEF SynAck, Bare, Peer
<1>15. Honest(d, 0, s)
  <2>1. s.ack = Plus(d.irs, 0) /\ 0 \in 0 .. 0
    BY <1>5, <1>9, <1>14, PlusZero
  <2> QED
    BY <1>9, <1>14, <2>1 DEF Honest, Live
<1>16. ~Live(Server) /\ d.state # "OPEN" /\ user'["client"] = user["client"] /\ sent' = sent
  BY <1>1, <1>9, <1>10 DEF Live
<1>17. PICK out : out = {s}
  OBVIOUS
<1>18. /\ net' = net \union out /\ Len(taken) \in Nat
       /\ \A q \in out : q.to = "client" /\ q.data = 0 /\ Honest(d, Len(taken), q)
  BY <1>10, <1>11, <1>14, <1>15, <1>17
<1> QED
  BY <1>9, <1>10, <1>12, <1>13, <1>16, <1>18, ServerStep

-----------------------------------------------------------------------------
(* The server, with a packet of the client that is not for it, or not new.      *)
LEMMA ServerDiscards ==
    ASSUME Inv, Agreed, Live(Server),
           Take("server", Discarded(Server), DiscardPackets("server", Server))
    PROVE  Agreed'
<1>1. Server \in Connection /\ Server.open /\ With(Server.rxq) = Taken
  BY BothEnds, ServerQueues DEF Live
<1>2. CASE Server.posted
  <2>1. PICK d : d = Told(Server)
    OBVIOUS
  <2>2. /\ d \in Connection /\ d.open = Server.open /\ d.state = Server.state /\ d.iss = Server.iss
        /\ d.irs = Server.irs /\ d.cur = Server.cur /\ d.tx = Server.tx
        /\ d.held = Server.held /\ With(d.rxq) = Taken
    BY <1>1, <2>1, ToldIs
  <2>3. SynAck("server", d) = SynAck("server", Server)
    BY <2>2 DEF SynAck
  <2>4. ServerMay(d, {})
    BY <2>2, <2>3, ServerSame, ServerQueues
  <2> QED
    BY <1>2, <2>1, <2>4, ServerTakes DEF Discarded, DiscardPackets
<1>3. CASE ~Server.posted
  <2>1. Lingers(Server) => Server.open
    BY <1>1
  <2>2. Server.state # "SYN_SENT"
    BY DEF Live
  <2>3. ServerMay(Closed(Server), ClosePackets("server", Server) \union {})
    BY <1>1, <2>1, <2>2, ServerClosed
  <2>4. ServerMay(Closed(Server), ClosePackets("server", Server))
    BY <2>3
  <2> QED
    BY <1>3, <2>4, ServerTakes DEF Discarded, DiscardPackets
<1> QED
  BY <1>2, <1>3

LEMMA ServerUnchanged ==
    ASSUME Inv, Agreed, Live(Server)
    PROVE  ServerMay(Server, {})
BY BothEnds, ServerSame, ServerQueues

LEMMA ServerIn ==
    ASSUME Inv, Agreed, NEW p, NEW states, In("server", p, states),
           states \in {{"SYN_RCVD", "OPEN"}, {"SYN_RCVD"}, {"CLOSE_WAIT"}}
    PROVE  /\ p \in Packet /\ p \in net /\ p.to = "server" /\ "RST" \notin p.flags
           /\ For("server") = Server /\ Server \in Connection /\ Server.open
           /\ Server.state \in states /\ (states # {"CLOSE_WAIT"} => Live(Server))
           /\ With(Server.rxq) = Taken
<1>1. Server.state \in states /\ Server.state # "CLOSED"
  BY ServerFor DEF In
<1> QED
  BY <1>1, ServerFor, ArrivedFacts, BothEnds, ServerQueues DEF In, Arrived, Live

LEMMA ServerInvalidSyn ==
    ASSUME Inv, Agreed, NEW p, InvalidSyn("server", p)
    PROVE  Agreed'
<1>1. For("server") = Server /\ Live(Server)
  BY ServerIn DEF InvalidSyn
<1>2. \/ Take("server", Server, {})
      \/ Take("server", Discarded(Server), DiscardPackets("server", Server))
  BY <1>1 DEF InvalidSyn
<1> QED
  BY <1>1, <1>2, ServerDiscards, ServerUnchanged, ServerTakes

LEMMA ServerWrongAck ==
    ASSUME Inv, Agreed, NEW p, WrongAck("server", p)
    PROVE  Agreed'
<1>1. For("server") = Server /\ Live(Server)
  BY ServerIn DEF WrongAck
<1>2. Take("server", Discarded(Server), DiscardPackets("server", Server))
  BY <1>1 DEF WrongAck
<1> QED
  BY <1>1, <1>2, ServerDiscards

LEMMA ServerInvalidAck ==
    ASSUME Inv, Agreed, NEW p, InvalidAck("server", p)
    PROVE  Agreed'
<1>1. For("server") = Server /\ Live(Server)
  BY ServerIn DEF InvalidAck
<1>2. Take("server", Server, {})
  BY <1>1 DEF InvalidAck
<1> QED
  BY <1>1, <1>2, ServerUnchanged, ServerTakes

LEMMA ServerOutOfWindow ==
    ASSUME Inv, Agreed, NEW p, OutOfWindow("server", p)
    PROVE  Agreed'
<1>1. For("server") = Server /\ Live(Server) /\ Server \in Connection
  BY ServerIn DEF OutOfWindow
<1>2. ServerOK(Server, Taken) /\ Len(Taken) \in Nat
  BY ServerQueues
<1>3. CASE Server.state = "OPEN"
  <2>1. PICK d : d = Acking(Server)
    OBVIOUS
  <2>2. /\ d \in Connection /\ d.open = Server.open /\ d.state = Server.state
        /\ d.iss = Server.iss /\ d.irs = Server.irs /\ d.cur = Server.cur
        /\ d.tx = Server.tx /\ d.held = Server.held /\ d.rxq = Server.rxq
    BY <1>1, <2>1 DEF Acking, Connection
  <2>3. PICK q : q = Eack("server", Server)
    OBVIOUS
  <2>4. q.to = "client" /\ q.data = 0 /\ "SYN" \notin q.flags /\ Honest(Server, Len(Taken), q)
    BY <1>1, <1>2, <2>3, AcksAreHonest
  <2>5. Honest(d, Len(Taken), q)
    BY <2>2, <2>4 DEF Honest, Live, Here
  <2>6. ServerMay(d, {q})
    BY <1>1, <1>3, <2>2, <2>4, <2>5, ServerSame, ServerQueues
  <2>7. Take("server", d, {q})
    BY <1>1, <1>3, <2>1, <2>3 DEF OutOfWindow
  <2> QED
    BY <2>6, <2>7, ServerTakes
<1>4. CASE Server.state # "OPEN"
  <2>1. PICK q : q = SynAck("server", Server)
    OBVIOUS
  <2>2. q \in Packet /\ q.to = "client" /\ q.data = 0 /\ Honest(Server, Len(Taken), q)
    BY <1>1, <1>2, <1>4, <2>1, AcksAreHonest, PacketFacts, ServerFor DEF Live
  <2>3a. PICK b \in Connection :
              /\ b = Cloned("server", Server) /\ b.open = Server.open /\ b.state = Server.state
              /\ b.iss = Server.iss /\ b.irs = Server.irs /\ b.cur = Server.cur
              /\ b.tx \subseteq Server.tx \union {q} /\ b.held = Server.held
              /\ b.rxq = Server.rxq
    BY <1>1, <2>1, ClonedFacts, ServerFor
  <2>3. PICK d : d = [b EXCEPT !.lsa = Server.irs]
    OBVIOUS
  <2>4. /\ d \in Connection /\ d.open = Server.open /\ d.state = Server.state
        /\ d.iss = Server.iss /\ d.irs = Server.irs /\ d.cur = Server.cur
        /\ d.tx \subseteq Server.tx \union {q} /\ d.held = Server.held /\ d.rxq = Server.rxq
    BY <1>1, <2>3a, <2>3 DEF Connection
  <2>5. Honest(d, Len(Taken), q)
    BY <2>2, <2>4 DEF Honest, Live, Here
  <2>6. SynAck("server", d) = q
    BY <2>1, <2>4 DEF SynAck
  <2>7. ServerMay(d, {q})
    <3>1. d.state = "SYN_RCVD" /\ d.tx \subseteq {SynAck("server", d)}
      BY <1>1, <1>4, <2>1, <2>4, <2>6, ServerQueues DEF Live
    <3>2. With(d.rxq) = Taken
      BY <2>4, ServerQueues
    <3> QED
      BY <1>1, <2>2, <2>4, <2>5, <3>1, <3>2, ServerSame
  <2>8. Take("server", d, {q})
    BY <1>1, <1>4, <2>1, <2>3a, <2>3 DEF OutOfWindow
  <2> QED
    BY <2>7, <2>8, ServerTakes
<1> QED
  BY <1>3, <1>4

(* Nothing is changed that matters, whatever the state.                       *)
LEMMA ServerKeeps ==
    ASSUME Inv, Agreed, NEW c \in Connection, c.open = Server.open, c.state = Server.state,
           c.irs = Server.irs, c.iss = Server.iss, c.cur = Server.cur, c.lsa = Server.lsa,
           c.held = Server.held, c.tx = Server.tx, c.rxq = Server.rxq
    PROVE  ServerMay(c, {}) /\ (c.state = "OPEN" => c.tx = {})
<1>1. SynAck("server", c) = SynAck("server", Server)
  BY DEF SynAck
<1>2. With(c.rxq) = Taken /\ (c.open <=> c.state # "CLOSED") /\ (c.state = "OPEN" => c.tx = {})
  BY ServerQueues, BothEnds
<1>3. CASE Live(Server)
  BY <1>1, <1>2, <1>3, ServerSame, ServerQueues
<1>4. CASE ~Live(Server)
  <2>1. c.state \in {"CLOSED", "CLOSE_WAIT"}
    BY <1>4, ServerQueues DEF Connection, States, Live
  <2>2. c.state = "CLOSE_WAIT" => c.lsa = c.cur
    BY ServerQueues DEF ServerOK
  <2> QED
    BY <1>2, <1>4, <2>1, <2>2, ServerGone
<1> QED
  BY <1>2, <1>3, <1>4

LEMMA ServerCloseWait ==
    ASSUME Inv, Agreed, NEW p, CloseWait("server", p)
    PROVE  Agreed'
<1>1. /\ p \in Packet /\ For("server") = Server /\ Server \in Connection /\ Server.open
      /\ Server.state = "CLOSE_WAIT" /\ With(Server.rxq) = Taken
  BY ServerIn DEF CloseWait
<1>2. PICK c : c = [Acking(Server) EXCEPT !.una = Plus(p.ack, 1)]
  OBVIOUS
<1>3. /\ c \in Connection /\ c.open /\ c.state = "CLOSE_WAIT" /\ c.lsa = c.cur
      /\ c.rxq = Server.rxq
  <2>1. Plus(p.ack, 1) \in SeqNrs
    BY <1>1, NextNr DEF Packet
  <2> QED
    BY <1>1, <1>2, <2>1 DEF Acking, Connection
<1>4. PICK q : q = Reset("server", c)
  OBVIOUS
<1>5. q.to = "client" /\ q.data = 0 /\ "RST" \in q.flags
  BY <1>4 DEF Reset, Bare, Peer
<1>6. Take("server", c, {q}) \/ Take("server", Server, {})
  BY <1>1, <1>2, <1>4 DEF CloseWait
<1>7. ServerMay(c, {q})
  BY <1>1, <1>3, <1>5, ServerGone DEF NoReset
<1>8. ServerMay(Server, {})
  BY <1>1, ServerKeeps
<1> QED
  BY <1>6, <1>7, <1>8, ServerTakes

-----------------------------------------------------------------------------
(* Its timeouts, and its user.                                               *)
LEMMA ServerCloses ==
    ASSUME Inv, Agreed, conn' = [conn EXCEPT !["server"] = Closed(Server)],
           net' = net \union ClosePackets("server", Server),
           user'["client"] = user["client"], sent' = sent, got' = got
    PROVE  Agreed'
<1>1. Server \in Connection /\ (Lingers(Server) => Server.open) /\ Server.state # "SYN_SENT"
  BY BothEnds, ServerQueues DEF Lingers
<1>2. ServerMay(Closed(Server), ClosePackets("server", Server) \union {})
  BY <1>1, ServerClosed
<1>3. ServerMay(Closed(Server), ClosePackets("server", Server))
  BY <1>2
<1>4. Closed(Server).state # "OPEN"
  BY <1>1 DEF Closed, Acking, Connection
<1> QED
  BY <1>3, <1>4, ServerBecomes

LEMMA ServerExpire ==
    ASSUME Inv, Agreed, Expire("server")
    PROVE  Agreed'
BY BothEnds, ServerCloses DEF Expire, Becomes

LEMMA ServerMaintain ==
    ASSUME Inv, Agreed, NEW late, NEW early, Maintain("server", late, early)
    PROVE  Agreed'
<1>1. Live(Server)
  BY BothEnds, ServerQueues DEF Maintain, Live, Connection, States
<1>2. Serviced("server", Server, late, early, {}) /\ UNCHANGED <<user, sent, got>>
  BY BothEnds DEF Maintain
<1> QED
  BY <1>1, <1>2, ServerUnchanged, ServerServiced

LEMMA ServerAccept ==
    ASSUME Inv, Agreed, Accept
    PROVE  Agreed'
<1>1. PICK d : d = [Server EXCEPT !.queued = @ - 1]
  OBVIOUS
<1>2. Server.queued > 0 /\ conn' = [conn EXCEPT !["server"] = d] /\ net' = net \union {}
  BY <1>1, BothEnds DEF Accept, UserStep, Becomes
<1>3. /\ d \in Connection /\ d.open = Server.open /\ d.state = Server.state
      /\ d.irs = Server.irs /\ d.iss = Server.iss /\ d.cur = Server.cur /\ d.lsa = Server.lsa
      /\ d.held = Server.held /\ d.tx = Server.tx /\ d.rxq = Server.rxq
  <2>1. Server \in Connection /\ Server.queued \in Nat
    BY BothEnds DEF Connection
  <2>2. Server.queued - 1 \in Nat
    BY <1>2, <2>1
  <2> QED
    BY <1>1, <2>1, <2>2 DEF Connection
<1>4. user'["client"] = user["client"] /\ sent' = sent /\ got' = got
  BY BothEnds DEF Accept, UserStep
<1> QED
  BY <1>2, <1>3, <1>4, ServerKeeps, ServerBecomes

LEMMA ServerUserCloses ==
    ASSUME Inv, Agreed, CloseAtWill("server") \/ CloseAfterError("server")
    PROVE  Agreed'
<1>1. user'["client"] = user["client"] /\ sent' = sent /\ got' = got
  BY BothEnds DEF CloseAtWill, CloseAfterError, UserStep
<1>2. \/ /\ conn' = [conn EXCEPT !["server"] = Closed(Server)]
         /\ net' = net \union ClosePackets("server", Server)
      \/ conn' = [conn EXCEPT !["server"] = Server] /\ net' = net \union {}
  BY BothEnds DEF CloseAtWill, CloseAfterError, UserStep, Becomes
<1>3. ServerMay(Server, {}) /\ (Server.state = "OPEN" => Server.tx = {})
  BY BothEnds, ServerKeeps
<1> QED
  BY <1>1, <1>2, <1>3, ServerCloses, ServerBecomes

(* What csp_read returns moves from one place to the other.                    *)
LEMMA ReadMoves ==
    ASSUME NEW T, NEW g \in Seq(T), NEW r \in Seq(T), r # <<>>
    PROVE  Append(g, Head(r)) \o Tail(r) = g \o r
<1>1. PICK a, t : a = Append(g, Head(r)) /\ t = Tail(r)
  OBVIOUS
<1>2. /\ Head(r) \in T /\ Head(r) = r[1] /\ t \in Seq(T) /\ Len(t) = Len(r) - 1
      /\ \A i \in 1 .. Len(t) : t[i] = r[i + 1]
  BY <1>1, HeadTailProperties
<1>3. /\ a \in Seq(T) /\ Len(a) = Len(g) + 1 /\ a[Len(g) + 1] = r[1]
      /\ \A i \in 1 .. Len(g) : a[i] = g[i]
  BY <1>1, <1>2, AppendProperties
<1>4. PICK n \in Nat, m \in Nat : n = Len(g) /\ m + 1 = Len(r)
  <2>1. Len(g) \in Nat /\ Len(r) \in Nat \ {0}
    BY LenProperties, EmptySeq
  <2>2. Len(r) - 1 \in Nat /\ (Len(r) - 1) + 1 = Len(r)
    BY <2>1
  <2> QED
    BY <2>1, <2>2
<1>5. PICK x, y : x = a \o t /\ y = g \o r
  OBVIOUS
<1>6. /\ x \in Seq(T) /\ Len(x) = n + 1 + m
      /\ \A i \in 1 .. n + 1 + m : x[i] = IF i <= n + 1 THEN a[i] ELSE t[i - (n + 1)]
  <2>1. /\ x \in Seq(T) /\ Len(x) = Len(a) + Len(t)
        /\ \A i \in 1 .. Len(a) + Len(t) : x[i] = IF i <= Len(a) THEN a[i] ELSE t[i - Len(a)]
    BY <1>2, <1>3, <1>5, ConcatProperties
  <2>2. Len(a) = n + 1 /\ Len(t) = m
    BY <1>2, <1>3, <1>4
  <2> QED
    BY <2>1, <2>2
<1>7. /\ y \in Seq(T) /\ Len(y) = n + (m + 1)
      /\ \A i \in 1 .. n + (m + 1) : y[i] = IF i <= n THEN g[i] ELSE r[i - n]
  <2>1. /\ y \in Seq(T) /\ Len(y) = Len(g) + Len(r)
        /\ \A i \in 1 .. Len(g) + Len(r) : y[i] = IF i <= Len(g) THEN g[i] ELSE r[i - Len(g)]
    BY <1>5, ConcatProperties
  <2> QED
    BY <1>4, <2>1
<1>8. ASSUME NEW i \in 1 .. n + 1 + m PROVE x[i] = y[i]
  <2>1. CASE i <= n
    <3>1. i \in 1 .. n /\ i <= n + 1 /\ i \in 1 .. n + (m + 1)
      BY <2>1
    <3> QED
      BY <1>3, <1>4, <1>6, <1>7, <3>1
  <2>2. CASE i = n + 1
    <3>1. i - n = 1 /\ i <= n + 1 /\ ~(i <= n) /\ i \in 1 .. n + (m + 1)
      BY <2>2
    <3> QED
      BY <1>3, <1>4, <1>6, <1>7, <2>2, <3>1
  <2>3. CASE i > n + 1
    <3>1. /\ i - (n + 1) \in 1 .. m /\ (i - (n + 1)) + 1 = i - n
          /\ ~(i <= n + 1) /\ ~(i <= n) /\ i \in 1 .. n + (m + 1)
      BY <2>3
    <3>2. x[i] = t[i - (n + 1)] /\ y[i] = r[i - n]
      BY <1>6, <1>7, <3>1
    <3>3. Len(t) = m
      BY <1>2, <1>4
    <3> QED
      BY <1>2, <3>1, <3>2, <3>3
  <2> QED
    BY <2>1, <2>2, <2>3
<1>9. Len(x) = Len(y)
  BY <1>6, <1>7
<1> QED
  BY <1>1, <1>5, <1>6, <1>7, <1>8, <1>9, SeqEqual

LEMMA ServerRead ==
    ASSUME Inv, Agreed, NEW early \in BOOLEAN, Read(early)
    PROVE  Agreed'
<1>1. PICK r : r = Server.rxq /\ r \in Seq(0 .. MaxData) /\ r # <<>>
  BY BothEnds, ServerQueues DEF Read
<1>2. Tail(r) \in Seq(0 .. MaxData)
  BY <1>1, HeadTailProperties
<1>3. PICK c : c = [Server EXCEPT !.rxq = Tail(@)]
  OBVIOUS
<1>4. PICK acks \in BOOLEAN : acks = AckDue(c, early)
  <2>1. AckDue(c, early) \in BOOLEAN
    BY DEF AckDue
  <2> QED
    BY <2>1
<1>5. PICK d : d = IF acks THEN Acking(c) ELSE c
  OBVIOUS
<1>6. PICK out : out = IF acks THEN {Ack("server", c)} ELSE {}
  OBVIOUS
<1>7. /\ conn' = [conn EXCEPT !["server"] = d] /\ net' = net \union out
      /\ user'["client"] = user["client"] /\ sent' = sent /\ got' = Append(got, Head(r))
      /\ Server.open
  BY <1>1, <1>3, <1>4, <1>5, <1>6, BothEnds DEF Read, UserStep, Becomes
<1>8. /\ c \in Connection /\ c.state = Server.state /\ c.irs = Server.irs /\ c.iss = Server.iss
      /\ c.cur = Server.cur /\ c.lsa = Server.lsa /\ c.held = Server.held /\ c.tx = Server.tx
      /\ c.rxq = Tail(r)
  BY <1>1, <1>2, <1>3, BothEnds DEF Connection
<1>9. /\ d \in Connection /\ d.state = Server.state /\ d.irs = Server.irs /\ d.iss = Server.iss
      /\ d.cur = Server.cur /\ d.held = Server.held /\ d.tx = Server.tx
      /\ d.rxq = Tail(r) /\ d.lsa \in {Server.lsa, Server.cur}
  BY <1>5, <1>8 DEF Acking, Connection
<1>10. PICK taken : taken = Taken /\ Len(taken) \in Nat /\ ServerOK(Server, taken)
  BY ServerQueues
<1>11. Taken' = taken
  <2>1. Append(got, Head(r)) \o Tail(r) = got \o r
    BY <1>1, ReadMoves, BothEnds
  <2> QED
    BY <1>1, <1>7, <1>9, <1>10, <2>1, BothEnds DEF Taken
<1>12. ServerOK(d, taken)
  BY <1>9, <1>10 DEF ServerOK, Live
<1>13. d.state = "OPEN" => d.tx = {}
  BY <1>9, ServerQueues
<1>14. ASSUME acks PROVE Live(Server)
  <2>1. Server.lsa # Server.cur
    BY <1>4, <1>8, <1>14 DEF AckDue
  <2>2. Server.state \notin {"CLOSED", "SYN_SENT", "CLOSE_WAIT"}
    BY <1>7, <1>10, <2>1, BothEnds DEF ServerOK
  <2> QED
    BY <2>2, BothEnds DEF Live, Connection, States
<1>15. ASSUME NEW p \in out
       PROVE  p.to = "client" /\ p.data = 0 /\ "SYN" \notin p.flags /\ Honest(d, Len(taken), p)
  <2>1. p = Ack("server", c) /\ Live(Server)
    BY <1>6, <1>14, <1>15
  <2>2. ServerOK(c, taken) /\ Live(c)
    BY <1>8, <1>10, <2>1 DEF ServerOK, Live
  <2>3. p.to = "client" /\ p.data = 0 /\ "SYN" \notin p.flags /\ Honest(c, Len(taken), p)
    BY <1>8, <1>10, <2>1, <2>2, AcksAreHonest
  <2> QED
    BY <1>8, <1>9, <2>3 DEF Honest, Live, Here
<1>16. Live(Server) => Grows(Server, Len(Taken), d, Len(taken))
  <2>1. Len(Taken) <= Len(taken) /\ (\A q \in Server.held : q \in d.held)
    BY <1>9, <1>10
  <2> QED
    BY <1>9, <2>1 DEF Grows, Live
<1>17. d.state = "OPEN" =>
         /\ Server.state = "OPEN" /\ d.irs = Server.irs /\ d.iss = Server.iss
         /\ \A p \in out : "SYN" \notin p.flags
  BY <1>9, <1>15
<1>18. /\ \A p \in out : p.to = "client" /\ p.data = 0
       /\ \A p \in out : Honest(d, Len(taken), p)
  BY <1>15
<1> QED
  BY <1>7, <1>9, <1>10, <1>11, <1>12, <1>13, <1>16, <1>17, <1>18, ServerStep

-----------------------------------------------------------------------------
(* The server takes a packet of its client.                                   *)
LEMMA ServerValid ==
    ASSUME Inv, Agreed, Unconfused, NEW p, Valid("server", p)
    PROVE  /\ p \in Packet /\ p \in net /\ p.to = "server" /\ "RST" \notin p.flags
           /\ For("server") = Server /\ Server \in Connection /\ Server.open /\ Live(Server)
           /\ With(Server.rxq) = Taken
           /\ Client.iss = Server.irs /\ ~Idle(Client, user["client"]) /\ p.ack = Client.irs
           /\ Server.state = "SYN_RCVD" => p.ack = Server.iss /\ Server.held = {} /\ Taken = <<>>
           /\ \E m \in 1 .. 2 * Window :
                /\ p.seq = Plus(Server.irs, Len(Taken) + m) /\ p.seq = Plus(Server.cur, m)
                /\ p.data # 0 => p.data = Len(Taken) + m
<1>1. /\ p \in Packet /\ p \in net /\ p.to = "server" /\ "RST" \notin p.flags
      /\ For("server") = Server /\ Server \in Connection /\ Server.open /\ Live(Server)
      /\ With(Server.rxq) = Taken
  BY ServerIn DEF Valid
<1>2. ~Invalid(p) /\ InWindow(Server, p)
  BY <1>1 DEF Valid
<1>3. Server.state = "SYN_RCVD" => p.ack = Server.iss /\ Server.held = {} /\ Taken = <<>>
  <2>1. HeldOK(Server) /\ ServerOK(Server, Taken)
    BY BothEnds, ServerQueues DEF Sound
  <2> QED
    BY <1>1, <2>1 DEF Valid, HeldOK, ServerOK
<1> QED
  BY <1>1, <1>2, <1>3, WindowMatch

LEMMA AcceptedIs ==
    ASSUME Inv, Agreed, Unconfused, NEW p, Valid("server", p)
    PROVE  LET a == Accepted("server", p)
           IN /\ a \in Connection /\ a.open /\ a.posted = Server.posted /\ a.state = "OPEN"
              /\ a.iss = Server.iss /\ a.irs = Server.irs /\ a.cur = Server.cur
              /\ a.lsa = Server.lsa /\ a.tx = Server.tx /\ a.held = Server.held
              /\ a.rxq = Server.rxq /\ a.una = Plus(p.ack, 1) /\ a.queued = Server.queued
<1>1. p \in Packet /\ For("server") = Server /\ Server \in Connection /\ Server.open
  BY ServerValid
<1>2. Plus(p.ack, 1) \in SeqNrs
  BY <1>1, NextNr DEF Packet
<1> QED
  BY <1>1, <1>2 DEF Accepted, Connection, States

LEMMA ServerAccepts ==
    ASSUME Inv, Agreed, Unconfused, NEW p, Valid("server", p),
           NEW c \in Connection, NEW out, c.state = "OPEN", c.open,
           c.irs = Server.irs, c.iss = Server.iss, c.una = Plus(p.ack, 1), c.tx \subseteq Server.tx,
           ServerOK(c, With(c.rxq)), Len(Taken) <= Len(With(c.rxq)),
           \A q \in Server.held :
             \/ q \in c.held
             \/ q.data \in 1 .. Len(With(c.rxq)) /\ q.seq = Plus(c.irs, q.data),
           \A q \in out : /\ q.to = "client" /\ q.data = 0 /\ "SYN" \notin q.flags
                          /\ Honest(c, Len(With(c.rxq)), q)
    PROVE  ServerMay(c, out)
<1>1. ASSUME NEW q \in c.tx PROVE Before(q.seq, c.una)
  <2>1. q \in Server.tx /\ Server.state = "SYN_RCVD"
    BY <1>1, ServerQueues, ServerValid DEF Live
  <2>2. q = SynAck("server", Server) /\ p.ack = Server.iss
    BY <2>1, ServerQueues, ServerValid
  <2>3. q.seq = Server.iss /\ Server.iss \in SeqNrs
    BY <2>2, BothEnds DEF SynAck, Bare, Connection
  <2>4. 0 \in 0 .. SeqMod - 1 /\ 1 \in 0 .. SeqMod - 1 /\ 1 > 0 /\ 1 - 0 <= Half
    BY ConstantFacts
  <2>5. Before(Plus(Server.iss, 0), Plus(Server.iss, 1))
    BY <2>3, <2>4, BeforePlus
  <2> QED
    BY <2>2, <2>3, <2>5, PlusZero
<1>2. \/ /\ Server.state = "OPEN" /\ c.irs = Server.irs /\ c.iss = Server.iss
         /\ \A q \in out : "SYN" \notin q.flags
      \/ ~Idle(Client, user["client"]) /\ c.irs = Client.iss /\ Client.irs = c.iss
  BY ServerValid DEF Live
<1>3. Grows(Server, Len(Taken), c, Len(With(c.rxq)))
  BY DEF Grows, Live
<1> QED
  BY <1>1, <1>2, <1>3 DEF ServerMay

LEMMA ServerNoData ==
    ASSUME Inv, Agreed, Unconfused, NEW p, NoData("server", p)
    PROVE  Agreed'
<1>1. Valid("server", p)
  BY DEF NoData
<1>2. PICK a \in Connection :
          /\ a = Accepted("server", p)
          /\ a.open /\ a.state = "OPEN" /\ a.iss = Server.iss /\ a.irs = Server.irs
          /\ a.cur = Server.cur /\ a.tx = Server.tx /\ a.held = Server.held
          /\ a.rxq = Server.rxq /\ a.una = Plus(p.ack, 1)
  BY <1>1, AcceptedIs
<1>3. PICK d : d = [a EXCEPT !.tx = {q \in @ : q.seq \notin p.list}]
  OBVIOUS
<1>4. /\ d \in Connection /\ d.open /\ d.state = "OPEN" /\ d.iss = Server.iss
      /\ d.irs = Server.irs /\ d.cur = Server.cur /\ d.tx \subseteq Server.tx
      /\ d.held = Server.held /\ d.rxq = Server.rxq /\ d.una = Plus(p.ack, 1)
  BY <1>2, <1>3 DEF Connection
<1>5. ServerOK(Server, Taken) /\ Live(Server) /\ With(d.rxq) = Taken /\ Len(Taken) \in Nat
  BY <1>1, <1>4, ServerQueues, ServerValid
<1>6. ServerOK(d, Taken)
  <2>1. Server.state = "SYN_RCVD" => Server.held = {}
    BY <1>1, ServerValid
  <2> QED
    BY <1>4, <1>5, <2>1 DEF ServerOK, Live
<1>7. ServerMay(d, {})
  <2>1. Len(Taken) <= Len(Taken)
    BY <1>5
  <2> QED
    BY <1>1, <1>4, <1>5, <1>6, <2>1, ServerAccepts
<1>8. Take("server", d, {})
  BY <1>2, <1>3 DEF NoData
<1> QED
  BY <1>7, <1>8, ServerTakes

LEMMA ServerOutOfOrder ==
    ASSUME Inv, Agreed, Unconfused, NEW p, OutOfOrder("server", p)
    PROVE  Agreed'
<1>1. Valid("server", p) /\ p.data # 0
  BY DEF OutOfOrder
<1>2. PICK a \in Connection :
          /\ a = Accepted("server", p)
          /\ a.open /\ a.state = "OPEN" /\ a.iss = Server.iss /\ a.irs = Server.irs
          /\ a.cur = Server.cur /\ a.tx = Server.tx /\ a.held = Server.held
          /\ a.rxq = Server.rxq /\ a.una = Plus(p.ack, 1)
  BY <1>1, AcceptedIs
<1>3. ServerOK(Server, Taken) /\ Live(Server) /\ With(a.rxq) = Taken /\ p \in Packet
  BY <1>1, <1>2, ServerQueues, ServerValid
<1>4. PICK k \in Nat : k = Len(Taken) /\ k + 2 * Window < SeqMod
  BY TakenFacts DEF Unconfused
<1>5. p.data \in 1 .. SeqMod - 1 /\ p.seq = Plus(Server.irs, p.data)
  <2>1. PICK m \in 1 .. 2 * Window : p.seq = Plus(Server.irs, k + m) /\ p.data = k + m
    BY <1>1, <1>4, ServerValid
  <2>2. k + m \in 1 .. SeqMod - 1
    BY <1>4, ConstantFacts
  <2> QED
    BY <2>1, <2>2
<1>6. /\ Server.cur = Plus(Server.irs, Len(Taken)) /\ Ordered(Taken)
      /\ \A q \in Server.held : q.data \in 1 .. SeqMod - 1 /\ q.seq = Plus(Server.irs, q.data)
  <2>1. Server.state = "SYN_RCVD" => Server.held = {}
    BY <1>1, ServerValid
  <2> QED
    BY <1>3, <2>1 DEF ServerOK, Live
<1>7. PICK more : more = [a EXCEPT !.held = @ \union {p}]
  OBVIOUS
<1>8. PICK d : d = Acking(more)
  OBVIOUS
<1>9. /\ more \in Connection /\ more.open /\ more.state = "OPEN" /\ more.iss = Server.iss
      /\ more.irs = Server.irs /\ more.cur = Server.cur /\ more.tx = Server.tx
      /\ more.held = Server.held \union {p} /\ more.rxq = Server.rxq /\ more.una = Plus(p.ack, 1)
  BY <1>2, <1>3, <1>7 DEF Connection
<1>10. /\ d \in Connection /\ d.open /\ d.state = "OPEN" /\ d.iss = Server.iss
       /\ d.irs = Server.irs /\ d.cur = Server.cur /\ d.tx = Server.tx
       /\ d.held = Server.held \union {p} /\ d.rxq = Server.rxq /\ d.una = Plus(p.ack, 1)
  BY <1>8, <1>9 DEF Acking, Connection
<1>11. ServerOK(a, Taken) /\ ServerOK(more, Taken) /\ ServerOK(d, Taken)
  BY <1>2, <1>5, <1>6, <1>9, <1>10 DEF ServerOK, Live
<1>12. PICK q : q = Eack("server", more)
  OBVIOUS
<1>13. q.to = "client" /\ q.data = 0 /\ "SYN" \notin q.flags /\ Honest(more, Len(Taken), q)
  BY <1>4, <1>9, <1>11, <1>12, AcksAreHonest DEF Live
<1>14. Honest(d, Len(Taken), q)
  BY <1>9, <1>10, <1>13 DEF Honest, Live, Here
<1>15. With(d.rxq) = Taken /\ Len(Taken) <= Len(Taken)
  BY <1>2, <1>3, <1>4, <1>10
<1>16. ServerMay(a, {})
  BY <1>1, <1>2, <1>3, <1>11, <1>15, ServerAccepts
<1>17. ServerMay(d, {q})
  BY <1>1, <1>10, <1>11, <1>13, <1>14, <1>15, ServerAccepts
<1>18. Take("server", a, {}) \/ Take("server", d, {q})
  BY <1>2, <1>7, <1>8, <1>12 DEF OutOfOrder
<1> QED
  BY <1>16, <1>17, <1>18, ServerTakes

(* A run of packets held is no longer than what is held.                       *)
LEMMA RunAtMost ==
    ASSUME NEW c \in Connection, NEW n \in 0 .. 2 * Window,
           \A q \in c.held : Gap(q.seq, c.cur) \in 1 .. 2 * Window - 1,
           \A q, r \in c.held : q.seq = r.seq => q = r,
           \A i \in 1 .. n : \E q \in c.held : q.seq = Plus(c.cur, i)
    PROVE  Cardinality(c.held) \in Nat /\ n <= Cardinality(c.held) /\ n <= 2 * Window - 1
<1> DEFINE f == [q \in c.held |-> Gap(q.seq, c.cur)]
           g == [i \in 1 .. n |-> CHOOSE q \in c.held : q.seq = Plus(c.cur, i)]
<1>1. c.cur \in SeqNrs /\ \A q \in c.held : q.seq \in SeqNrs
  BY DEF Connection, Packet
<1>2. n \in Nat /\ n < SeqMod /\ 2 * Window - 1 \in Nat
  BY ConstantFacts
<1>3. f \in Injection(c.held, 1 .. 2 * Window - 1)
  <2>1. \A q, r \in c.held : f[q] = f[r] => q = r
    BY <1>1, SameGap
  <2> QED
    BY <2>1 DEF Injection, IsInjective
<1>4. IsFiniteSet(c.held)
  <2>1. IsFiniteSet(1 .. 2 * Window - 1)
    BY <1>2, FS_Interval
  <2> QED
    BY <1>3, <2>1, FS_Injection
<1>5. ASSUME NEW i \in 1 .. n PROVE g[i] \in c.held /\ g[i].seq = Plus(c.cur, i)
  <2>1. \E q \in c.held : q.seq = Plus(c.cur, i)
    OBVIOUS
  <2> QED
    BY <2>1
<1>6. g \in Injection(1 .. n, c.held)
  <2>1. ASSUME NEW i \in 1 .. n, NEW j \in 1 .. n, g[i] = g[j] PROVE i = j
    <3>1. Plus(c.cur, i) = Plus(c.cur, j)
      BY <1>5, <2>1
    <3>2. i \in 0 .. SeqMod - 1 /\ j \in 0 .. SeqMod - 1
      BY <1>2, ConstantFacts
    <3> QED
      BY <1>1, <3>1, <3>2, PlusOnce
  <2>2. g \in [1 .. n -> c.held]
    BY <1>5
  <2> QED
    BY <2>1, <2>2 DEF Injection, IsInjective
<1>7. n <= Cardinality(c.held) /\ Cardinality(c.held) \in Nat
  <2>1. IsFiniteSet(1 .. n) /\ Cardinality(1 .. n) = n
    <3>1. PICK k \in Nat : k = n
      BY <1>2
    <3>2. IsFiniteSet(1 .. k) /\ Cardinality(1 .. k) = k
      BY ONLY <3>1, FS_Interval
    <3> QED
      BY <3>1, <3>2
  <2>2. Cardinality(1 .. n) <= Cardinality(c.held)
    BY <1>4, <1>6, FS_Injection
  <2> QED
    BY <1>4, <2>1, <2>2, FS_CardinalityType
<1>8. CASE n = 0
  BY <1>2, <1>7, <1>8
<1>9. CASE n # 0
  <2>1. n \in 1 .. n /\ n \in 0 .. SeqMod - 1
    BY <1>2, <1>9, ConstantFacts
  <2>2. PICK q \in c.held : q.seq = Plus(c.cur, n)
    BY <2>1
  <2>3. Gap(q.seq, c.cur) = n
    BY <1>1, <2>1, <2>2, GapPlus
  <2>4. n \in 1 .. 2 * Window - 1
    BY <2>3
  <2> QED
    BY <1>2, <1>7, <2>4
<1> QED
  BY <1>8, <1>9

LEMMA WithBehind ==
    ASSUME Inv, NEW a \in Seq(0 .. MaxData), NEW s \in Seq(0 .. MaxData),
           \A i \in 1 .. Len(s) : s[i] # Null
    PROVE  /\ Len(With(a \o s)) = Len(With(a)) + Len(s)
           /\ \A i \in 1 .. Len(With(a)) : With(a \o s)[i] = With(a)[i]
           /\ \A i \in 1 .. Len(s) : With(a \o s)[Len(With(a)) + i] = s[i]
<1>1. got \in Seq(0 .. MaxData)
  BY BothEnds
<1>2. PICK g \in Seq(0 .. MaxData) : g = got \o a
  BY <1>1, ConcatProperties
<1>3. g \o s = got \o (a \o s)
  BY <1>1, <1>2, ConcatAssociative
<1>4. /\ Len(Data(g \o s)) = Len(Data(g)) + Len(s)
      /\ \A i \in 1 .. Len(Data(g)) : Data(g \o s)[i] = Data(g)[i]
      /\ \A i \in 1 .. Len(s) : Data(g \o s)[Len(Data(g)) + i] = s[i]
  <2>1. Behind(g, s)
    BY DataBehind
  <2> QED
    BY <2>1 DEF Behind
<1> QED
  BY <1>2, <1>3, <1>4 DEF With

LEMMA ServerFlushes ==
    ASSUME Inv, Agreed, Unconfused, Roomy, NEW p, Valid("server", p), p.data # 0,
           p.seq = Plus(Server.cur, 1), Len(Server.rxq) # RxqLen,
           NEW f \in Connection, f.state = "OPEN", f.irs = Server.irs, f.held = Server.held,
           f.cur = p.seq, f.rxq = Append(Server.rxq, p.data)
    PROVE  \E d \in Connection :
             /\ d = Flushed(f) /\ d.state = "OPEN" /\ d.open = f.open /\ d.irs = f.irs
             /\ d.iss = f.iss /\ d.tx = f.tx /\ d.una = f.una
             /\ ServerOK(d, With(d.rxq)) /\ Len(Taken) + 1 <= Len(With(d.rxq))
             /\ \A q \in Server.held :
                  \/ q \in d.held
                  \/ q.data \in 1 .. Len(With(d.rxq)) /\ q.seq = Plus(d.irs, q.data)
<1>1. /\ Server \in Connection /\ Live(Server) /\ ServerOK(Server, Taken) /\ p \in Packet
      /\ Server.rxq \in Seq(0 .. MaxData) /\ Taken = With(Server.rxq) /\ Null \in 0 .. MaxData
      /\ Server.cur \in SeqNrs /\ Server.irs \in SeqNrs /\ p.seq \in SeqNrs /\ got \in Seq(0 .. MaxData)
      /\ HeldOK(Server) /\ ShapeOK(Server)
  BY ServerValid, ServerQueues, BothEnds DEF Connection, Packet, Sound
<1>2. PICK k \in Nat : k = Len(Taken) /\ k + 2 * Window < SeqMod
  BY TakenFacts DEF Unconfused
<1>3. p.data = k + 1 /\ p.seq = Plus(Server.irs, k + 1)
  <2>1. PICK m \in 1 .. 2 * Window :
          p.seq = Plus(Server.irs, k + m) /\ p.seq = Plus(Server.cur, m) /\ p.data = k + m
    BY <1>2, ServerValid
  <2>2. m \in 0 .. SeqMod - 1 /\ 1 \in 0 .. SeqMod - 1
    BY ConstantFacts
  <2>3. m = 1
    BY <1>1, <2>1, <2>2, PlusOnce
  <2> QED
    BY <2>1, <2>3
<1>4. Server.state = "SYN_RCVD" => Server.held = {}
  BY <1>1 DEF HeldOK
<1>5. ASSUME NEW q \in f.held
      PROVE  /\ q.data \in 1 .. SeqMod - 1 /\ q.seq = Plus(Server.irs, q.data)
             /\ Gap(q.seq, f.cur) \in 1 .. 2 * Window - 1
  <2>1. Server.state = "OPEN" /\ q \in Server.held
    BY <1>1, <1>4, <1>5 DEF Live
  <2>2. q.data \in 1 .. SeqMod - 1 /\ q.seq = Plus(Server.irs, q.data)
    BY <1>1, <2>1 DEF ServerOK
  <2>3. PICK g \in 2 .. 2 * Window : g = Gap(q.seq, Server.cur)
    BY <1>1, <2>1 DEF HeldOK
  <2>4. q.seq \in SeqNrs /\ 1 \in 0 .. SeqMod - 1
    <3>1. q \in Packet
      BY <1>5 DEF Connection
    <3> QED
      BY <3>1, ConstantFacts DEF Packet
  <2>5. Gap(q.seq, Plus(Server.cur, 1)) = g - 1
    BY <1>1, <2>3, <2>4, GapShift, ConstantFacts
  <2> QED
    BY <2>2, <2>3, <2>5, ConstantFacts
<1>6. \A q, r \in f.held : q.seq = r.seq => q = r
  BY <1>1, <1>4 DEF Live, HeldOK
<1>7. PICK n \in 0 .. 2 * Window :
           n = Run(f) /\ \A i \in 1 .. n : \E q \in f.held : q.seq = Plus(f.cur, i)
  BY <1>5, RunFacts
<1>8. n <= 2 * Window - 1 /\ n <= Cardinality(f.held) /\ Cardinality(f.held) \in Nat
  BY <1>5, <1>6, <1>7, RunAtMost
<1>9a. PICK x \in Nat : x = Len(Server.rxq)
  BY <1>1, LenProperties
<1>9b. f.rxq \in Seq(0 .. MaxData) /\ Len(f.rxq) = x + 1
  <2>1. p.data \in 0 .. MaxData
    BY <1>1 DEF Packet
  <2> QED
    BY <1>1, <1>9a, <2>1, AppendProperties
<1>9c. x + 1 + n <= RxqLen
  <2>1. CASE Server.held = {}
    <3>1. Cardinality(f.held) = 0
      BY <2>1, FS_EmptySet
    <3>2. n = 0
      BY <1>7, <1>8, <3>1, ConstantFacts
    <3>3. x <= RxqLen /\ x # RxqLen
      BY <1>1, <1>9a DEF ShapeOK
    <3> QED
      BY <3>2, <3>3, ConstantFacts
  <2>2. CASE Server.held # {}
    <3>1. Server.state = "OPEN"
      BY <1>1, <1>4, <2>2 DEF Live
    <3>2. PICK y \in Nat : y = Cardinality(f.held) /\ n <= y
      BY <1>8
    <3>3. x + 1 + y <= RxqLen
      BY <1>9a, <2>2, <3>1, <3>2 DEF Roomy
    <3> QED
      BY <1>7, <3>2, <3>3, ConstantFacts
  <2> QED
    BY <2>1, <2>2
<1>9. PICK a \in Seq(0 .. MaxData) : a = f.rxq /\ Len(a) = x + 1
  BY <1>9b
<1>10. ASSUME NEW i \in 1 .. n PROVE DataAt(f, i) = k + 1 + i
  <2>1. PICK q : q = CHOOSE r \in f.held : r.seq = Plus(f.cur, i)
    OBVIOUS
  <2>2. \E r \in f.held : r.seq = Plus(f.cur, i)
    BY <1>7
  <2>3. q \in f.held /\ q.seq = Plus(f.cur, i)
    BY <2>1, <2>2
  <2>4. k + 1 \in 0 .. SeqMod - 1 /\ i \in 0 .. SeqMod - 1 /\ (k + 1) + i < SeqMod
    BY <1>2, <1>7, <1>8, ConstantFacts
  <2>5. q.seq = Plus(Server.irs, (k + 1) + i)
    <3>1. Plus(Plus(Server.irs, k + 1), i) = Plus(Server.irs, (k + 1) + i)
      BY <1>1, <2>4, PlusPlus
    <3> QED
      BY <1>3, <2>3, <3>1
  <2>6. q.data \in 0 .. SeqMod - 1 /\ (k + 1) + i \in 0 .. SeqMod - 1
    BY <1>5, <2>3, <2>4, ConstantFacts
  <2>7. q.data = (k + 1) + i
    BY <1>1, <1>5, <2>3, <2>5, <2>6, PlusOnce
  <2> QED
    BY <2>1, <2>7 DEF DataAt
<1>11. PICK s : s = [i \in 1 .. n |-> DataAt(f, i)]
  OBVIOUS
<1>12a. \A i \in 1 .. n : s[i] = k + 1 + i
  BY <1>10, <1>11
<1>12. s \in Seq(0 .. MaxData) /\ Len(s) = n
  <2>1. ASSUME NEW i \in 1 .. n PROVE DataAt(f, i) \in 0 .. MaxData
    <3>1. \E q \in f.held : q.seq = Plus(f.cur, i)
      BY <1>7
    <3> QED
      BY <3>1 DEF DataAt, Connection, Packet
  <2>2. n \in Nat
    BY <1>7, ConstantFacts
  <2> QED
    BY <1>11, <2>1, <2>2, SeqDef, LenProperties
<1>13. PICK t \in Seq(0 .. MaxData) : t = With(a) /\ t = Append(Taken, k + 1)
  <2>1. p.data \in (0 .. MaxData) \ {Null}
    <3>1. p.data \in 0 .. MaxData /\ Null = 0
      BY <1>1 DEF Packet, Null
    <3> QED
      BY <3>1
  <2>2. With(a) = Append(Taken, p.data) /\ With(a) \in Seq(0 .. MaxData)
    BY <1>1, <1>9, <2>1, WithFacts
  <2> QED
    BY <1>3, <2>2
<1>14. Len(t) = k + 1 /\ \A i \in 1 .. k + 1 : t[i] = i
  <2>1. /\ Taken \in Seq(0 .. MaxData) /\ p.data \in 0 .. MaxData
    BY <1>1, TakenFacts DEF Packet
  <2>2. Len(t) = k + 1 /\ t[k + 1] = k + 1 /\ \A i \in 1 .. k : t[i] = Taken[i]
    BY <1>2, <1>3, <1>13, <2>1, AppendProperties
  <2>3. \A i \in 1 .. k : Taken[i] = i
    BY <1>1, <1>2 DEF ServerOK, Ordered
  <2>4. \A i \in 1 .. k + 1 : i \in 1 .. k \/ i = k + 1
    OBVIOUS
  <2> QED
    BY <2>2, <2>3, <2>4
<1>15. PICK w \in Seq(0 .. MaxData) : w = With(a \o s) /\ Len(w) = (k + 1) + n /\ Ordered(w)
  <2>1. a \o s \in Seq(0 .. MaxData)
    BY <1>9, <1>12, ConcatProperties
  <2>2. With(a \o s) \in Seq(0 .. MaxData)
    BY <2>1, WithFacts
  <2>3. PICK w \in Seq(0 .. MaxData) : w = With(a \o s)
    BY <2>2
  <2>4. \A i \in 1 .. Len(s) : s[i] # Null
    BY <1>2, <1>12, <1>12a DEF Null
  <2>6. /\ \A i \in 1 .. Len(t) : w[i] = t[i]
        /\ Len(w) = Len(t) + Len(s) /\ \A i \in 1 .. Len(s) : w[Len(t) + i] = s[i]
    <3>1. s \in Seq(0 .. MaxData) /\ a \in Seq(0 .. MaxData)
      BY <1>12
    <3>2. /\ Len(With(a \o s)) = Len(With(a)) + Len(s)
          /\ \A i \in 1 .. Len(With(a)) : With(a \o s)[i] = With(a)[i]
          /\ \A i \in 1 .. Len(s) : With(a \o s)[Len(With(a)) + i] = s[i]
      BY <2>4, <3>1, WithBehind
    <3> QED
      BY <1>13, <2>3, <3>2
  <2>7. Len(w) = (k + 1) + n
    BY <1>12, <1>14, <2>6
  <2>8. ASSUME NEW i \in 1 .. (k + 1) + n PROVE w[i] = i
    <3>1. CASE i <= k + 1
      BY <1>14, <2>6, <3>1
    <3>2. CASE i > k + 1
      <4>1. PICK j \in 1 .. n : j = i - (k + 1) /\ (k + 1) + j = i
        <5>1. i - (k + 1) \in 1 .. n
          BY <1>7, <3>2, ConstantFacts
        <5> QED
          BY <5>1
      <4>2. w[(k + 1) + j] = s[j] /\ s[j] = k + 1 + j
        BY <1>12, <1>12a, <1>14, <2>6, <4>1
      <4> QED
        BY <4>1, <4>2
    <3> QED
      BY <3>1, <3>2
  <2> QED
    BY <2>3, <2>7, <2>8 DEF Ordered
<1>16. PICK H : H = {q \in f.held : \A i \in 1 .. n : q.seq # Plus(f.cur, i)}
  OBVIOUS
<1>17. PICK d : d = [f EXCEPT !.rxq = a \o s, !.held = H, !.cur = Plus(f.cur, n)]
  OBVIOUS
<1>18. d = Flushed(f)
  <2>1. ~(RxqLen - Len(a) < n)
    BY <1>7, <1>9, <1>9c, ConstantFacts
  <2> QED
    BY <1>7, <1>9, <1>11, <1>16, <1>17, <2>1 DEF Flushed
<1>19. n \in 0 .. SeqMod - 1 /\ k + 1 \in 0 .. SeqMod - 1 /\ (k + 1) + n < SeqMod
  BY <1>2, <1>7, <1>8, ConstantFacts
<1>20. /\ d \in Connection /\ d.rxq = a \o s /\ d.held = H /\ d.cur = Plus(f.cur, n)
       /\ d.tx = f.tx /\ d.iss = f.iss /\ d.irs = f.irs /\ d.una = f.una
       /\ d.open = f.open /\ d.state = "OPEN"
  <2>1. Plus(f.cur, n) \in SeqNrs
    BY <1>1, <1>19, PlusFacts
  <2>2. a \o s \in Seq(0 .. MaxData)
    BY <1>9, <1>12, ConcatProperties
  <2> QED
    BY <1>16, <1>17, <2>1, <2>2 DEF Connection
<1>21. ServerOK(d, w)
  <2>1. d.cur = Plus(Server.irs, (k + 1) + n)
    <3>1. Plus(Plus(Server.irs, k + 1), n) = Plus(Server.irs, (k + 1) + n)
      BY <1>1, <1>19, PlusPlus
    <3> QED
      BY <1>3, <1>20, <3>1
  <2>2. \A q \in d.held : q.data \in 1 .. SeqMod - 1 /\ q.seq = Plus(Server.irs, q.data)
    BY <1>5, <1>16, <1>20
  <2> QED
    BY <1>15, <1>20, <2>1, <2>2 DEF ServerOK, Live
<1>22. ASSUME NEW q \in Server.held, q \notin d.held
       PROVE  q.data \in 1 .. (k + 1) + n /\ q.seq = Plus(d.irs, q.data)
  <2>1. PICK i \in 1 .. n : q.seq = Plus(f.cur, i)
    BY <1>16, <1>20, <1>22
  <2>2. k + 1 \in 0 .. SeqMod - 1 /\ i \in 0 .. SeqMod - 1 /\ (k + 1) + i < SeqMod
    BY <1>2, <1>7, <1>8, ConstantFacts
  <2>3. q.seq = Plus(Server.irs, (k + 1) + i)
    <3>1. Plus(Plus(Server.irs, k + 1), i) = Plus(Server.irs, (k + 1) + i)
      BY <1>1, <2>2, PlusPlus
    <3> QED
      BY <1>3, <2>1, <3>1
  <2>4. q.data \in 0 .. SeqMod - 1 /\ (k + 1) + i \in 0 .. SeqMod - 1 /\ q.seq = Plus(Server.irs, q.data)
    BY <1>5, <1>22, <2>2, ConstantFacts
  <2>5. q.data = (k + 1) + i
    BY <1>1, <2>3, <2>4, PlusOnce
  <2>6. (k + 1) + i \in 1 .. (k + 1) + n
    BY <1>7, ConstantFacts
  <2> QED
    BY <1>20, <2>4, <2>5, <2>6
<1>23. k + 1 <= (k + 1) + n
  BY <1>19
<1> QED
  BY <1>2, <1>15, <1>18, <1>20, <1>21, <1>22, <1>23

LEMMA ServerInOrder ==
    ASSUME Inv, Agreed, Unconfused, Roomy, NEW p, NEW early \in BOOLEAN, InOrder("server", p, early)
    PROVE  Agreed'
<1>1. Valid("server", p) /\ p.data # 0
  BY DEF InOrder
<1>1a. p \in Packet /\ For("server") = Server /\ Live(Server)
  BY <1>1, ServerValid
<1>1b. p.seq = Plus(Server.cur, 1)
  BY <1>1a DEF InOrder
<1>2. PICK a \in Connection :
          /\ a = Accepted("server", p)
          /\ a.open /\ a.state = "OPEN" /\ a.iss = Server.iss /\ a.irs = Server.irs
          /\ a.cur = Server.cur /\ a.tx = Server.tx /\ a.held = Server.held
          /\ a.rxq = Server.rxq /\ a.una = Plus(p.ack, 1) /\ a.queued = Server.queued
  BY <1>1, AcceptedIs
<1>3. PICK b : b = Posted(a)
  OBVIOUS
<1>4. /\ b \in Connection /\ b.open /\ b.state = "OPEN" /\ b.iss = Server.iss
      /\ b.irs = Server.irs /\ b.cur = Server.cur /\ b.tx = Server.tx /\ b.held = Server.held
      /\ b.rxq = Server.rxq /\ b.una = Plus(p.ack, 1)
  <2>1. a.queued + 1 \in Nat
    BY DEF Connection
  <2> QED
    BY <1>2, <1>3, <2>1 DEF Posted, Connection
<1>5. ServerOK(Server, Taken) /\ With(Server.rxq) = Taken /\ Len(Taken) \in Nat
  BY ServerQueues
<1>6. CASE Len(Server.rxq) = RxqLen
  <2>1. Take("server", b, {})
    BY <1>1a, <1>2, <1>3, <1>6 DEF InOrder
  <2>2. ServerOK(b, Taken)
    <3>1. Server.state = "SYN_RCVD" => Server.held = {}
      BY <1>1, ServerValid
    <3> QED
      BY <1>1a, <1>4, <1>5, <3>1 DEF ServerOK, Live
  <2>3. ServerMay(b, {})
    <3>1. Len(Taken) <= Len(Taken) /\ With(b.rxq) = Taken
      BY <1>4, <1>5
    <3> QED
      BY <1>1, <1>4, <2>2, <3>1, ServerAccepts
  <2> QED
    BY <2>1, <2>3, ServerTakes
<1>7. CASE Len(Server.rxq) # RxqLen
  <2>1. PICK c : c = Received(a, p)
    OBVIOUS
  <2>2. /\ c \in Connection /\ c.tx = Server.tx /\ c.iss = Server.iss /\ c.irs = Server.irs
        /\ c.held = Server.held /\ c.cur = p.seq /\ c.open /\ c.una = Plus(p.ack, 1)
        /\ c.state = "OPEN" /\ c.rxq = Append(Server.rxq, p.data)
    <3>1. c = [b EXCEPT !.rxq = Append(Server.rxq, p.data), !.cur = p.seq]
      BY <1>3, <1>4, <2>1 DEF Received
    <3>2. Append(Server.rxq, p.data) \in Seq(0 .. MaxData) /\ p.seq \in SeqNrs
      BY <1>1a, ServerQueues, AppendProperties DEF Packet
    <3> QED
      BY <1>4, <3>1, <3>2 DEF Connection
  <2>3. PICK acks \in BOOLEAN : acks = (Len(c.rxq) + Window <= RxqLen /\ (early \/ Overdue(c)))
    OBVIOUS
  <2>4. PICK f : f = IF acks THEN Acking(c) ELSE c
    OBVIOUS
  <2>5. /\ f \in Connection /\ f.tx = Server.tx /\ f.iss = Server.iss /\ f.irs = Server.irs
        /\ f.held = Server.held /\ f.cur = p.seq /\ f.open /\ f.una = Plus(p.ack, 1)
        /\ f.state = "OPEN" /\ f.rxq = Append(Server.rxq, p.data)
    BY <2>2, <2>4 DEF Acking, Connection
  <2>6. PICK d \in Connection :
             /\ d = Flushed(f) /\ d.state = "OPEN" /\ d.open = f.open /\ d.irs = f.irs
             /\ d.iss = f.iss /\ d.tx = f.tx /\ d.una = f.una
             /\ ServerOK(d, With(d.rxq)) /\ Len(Taken) + 1 <= Len(With(d.rxq))
             /\ \A q \in Server.held :
                  \/ q \in d.held
                  \/ q.data \in 1 .. Len(With(d.rxq)) /\ q.seq = Plus(d.irs, q.data)
    BY <1>1, <1>1b, <1>7, <2>5, ServerFlushes
  <2>7. PICK w : w = With(d.rxq) /\ Len(w) \in Nat
    <3>1. d.rxq \in Seq(0 .. MaxData)
      BY DEF Connection
    <3> QED
      BY <3>1, WithFacts
  <2>8. PICK k \in Nat : k = Len(Taken)
    BY <1>5
  <2>9. PICK out : out = IF acks THEN {Ack("server", c)} ELSE {}
    OBVIOUS
  <2>10. ASSUME NEW q \in out
         PROVE  /\ q.to = "client" /\ q.data = 0 /\ "SYN" \notin q.flags
                /\ Honest(d, Len(With(d.rxq)), q)
    <3>1. q = Ack("server", c)
      BY <2>9, <2>10
    <3>2. /\ q.to = "client" /\ q.data = 0 /\ "SYN" \notin q.flags
          /\ q.ack = p.seq /\ q.list = {}
      BY <2>2, <3>1 DEF Ack, Bare, Peer
    <3>3. p.seq = Plus(Server.irs, k + 1)
      <4>1. PICK m \in 1 .. 2 * Window : p.seq = Plus(Server.irs, k + m) /\ p.seq = Plus(Server.cur, m)
        BY <1>1, <2>8, ServerValid
      <4>2. m \in 0 .. SeqMod - 1 /\ 1 \in 0 .. SeqMod - 1 /\ Server.cur \in SeqNrs
        BY BothEnds, ConstantFacts DEF Connection
      <4>3. m = 1
        BY <1>1b, <4>1, <4>2, PlusOnce
      <4> QED
        BY <4>1, <4>3
    <3>4. k + 1 \in 0 .. Len(w)
      BY <2>6, <2>7, <2>8
    <3>5. \E j \in 0 .. Len(w) : q.ack = Plus(d.irs, j)
      BY <2>5, <2>6, <3>2, <3>3, <3>4
    <3> QED
      BY <2>6, <2>7, <3>2, <3>5 DEF Honest, Live
  <2>11. Len(Taken) <= Len(With(d.rxq))
    BY <2>6, <2>7, <2>8
  <2>12. /\ d.open /\ d.irs = Server.irs /\ d.iss = Server.iss /\ d.una = Plus(p.ack, 1)
         /\ d.tx \subseteq Server.tx
    BY <2>5, <2>6
  <2>13. ServerMay(d, out)
    BY <1>1, <2>6, <2>10, <2>11, <2>12, ServerAccepts
  <2>14. Take("server", d, out)
    BY <1>1a, <1>2, <1>7, <2>1, <2>3, <2>4, <2>6, <2>9 DEF InOrder
  <2> QED
    BY <2>13, <2>14, ServerTakes
<1> QED
  BY <1>6, <1>7

(* All that happens at the server.                                            *)
LEMMA AtServer ==
    ASSUME Inv, Agreed, Unconfused, Roomy,
           \/ \E p \in net : NewPacket("server", p)
           \/ Timeouts("server")
           \/ Accept \/ (\E early \in BOOLEAN : Read(early))
           \/ CloseAtWill("server") \/ CloseAfterError("server")
    PROVE  Agreed'
<1>1. CASE \E p \in net : NewPacket("server", p)
  <2>1. PICK p \in net : NewPacket("server", p)
    BY <1>1
  <2>2. ~SynAcked("server", p) /\ ~HalfOpen("server", p)
    BY ServerFor DEF SynAcked, HalfOpen, In
  <2> QED
    BY <2>1, <2>2, ServerResetClosing, ServerResetInSequence, ServerResetOutOfSequence, ServerNotSyn,
       ServerSynReceived, ServerInvalidSyn, ServerOutOfWindow, ServerInvalidAck, ServerWrongAck,
       ServerNoData, ServerOutOfOrder, ServerInOrder, ServerCloseWait DEF NewPacket
<1>2. CASE Timeouts("server")
  BY <1>2, ServerExpire, ServerMaintain DEF Timeouts
<1>3. CASE Accept \/ (\E early \in BOOLEAN : Read(early))
  BY <1>3, ServerAccept, ServerRead
<1>4. CASE CloseAtWill("server") \/ CloseAfterError("server")
  BY <1>4, ServerUserCloses
<1> QED
  BY <1>1, <1>2, <1>3, <1>4

-----------------------------------------------------------------------------
(* The client.                                                               *)
LEMMA ClientFacts ==
    ASSUME Inv, Agreed
    PROVE  /\ Client \in Connection /\ For("client") = Client /\ "client" \in Ends
           /\ ClientOK(Client, user["client"], sent)
           /\ Client.open <=> Client.state # "CLOSED"
           /\ Client.open => user["client"] # "start"
           /\ user["client"] \in {"open", "window"} => Client.state # "SYN_SENT"
           /\ Client.state = "OPEN" => Answered
           /\ sent > 0 => Answered
           /\ NoReset(net) /\ Client.state = "OPEN" =>
                Remembers(Client, sent, Server, Len(Taken))
<1>1. /\ Client \in Connection /\ "client" \in Ends /\ (Client.open <=> Client.state # "CLOSED")
      /\ TxOK("client", Client, user["client"])
  BY BothEnds DEF Sound
<1>2. For("client") = Client
  BY DEF For, Client
<1>3. ClientOK(Client, user["client"], sent)
  BY DEF Agreed, ClientPart
<1>4. Client.open => user["client"] # "start"
  BY <1>1, <1>3 DEF ClientOK
<1>5. user["client"] \in {"open", "window"} => Client.state # "SYN_SENT"
  BY <1>1 DEF TxOK
<1> QED
  BY <1>1, <1>2, <1>3, <1>4, <1>5 DEF Agreed, OpenPart, MemoryPart

(* The client's connection is closing, or closed.                             *)
LEMMA ClientLeaves ==
    ASSUME Inv, Agreed, NEW d \in Connection, NEW v, NEW out,
           conn' = [conn EXCEPT !["client"] = d], net' = net \union out,
           user'["client"] = v, sent' = sent, got' = got,
           user["client"] # "start", v \in {user["client"], "closed"},
           d.state \in {"CLOSED", "CLOSE_WAIT"}, d.iss = Client.iss, d.irs = Client.irs,
           d.cur = Client.cur, d.tx \subseteq Client.tx,
           d.state # "CLOSED" => Client.state # "CLOSED" /\ d.nxt = Client.nxt,
           \A p \in out : p.to = "server" /\ "RST" \in p.flags
    PROVE  Agreed'
<1>1. ClientOK(Client, user["client"], sent) /\ sent \in Nat
  BY ClientFacts, BothEnds
<1>2. v # "start" /\ ~Idle(d, v)
  BY DEF Idle
<1>3. ASSUME NEW q \in d.tx PROVE Queued(d, sent, q)
  <2>1. Queued(Client, sent, q)
    BY <1>1 DEF ClientOK
  <2> QED
    BY <2>1 DEF Queued, Numbered
<1>4. ClientOK(d, v, sent)
  BY <1>1, <1>2, <1>3 DEF ClientOK, Idle
<1>5. \A p \in out : FromClient(d, v, sent, p)
  BY <1>2 DEF FromClient
<1>6. d.state # "OPEN" /\ sent >= sent /\ (sent > 0 => Answered)
  BY <1>1, ClientFacts
<1> QED
  BY <1>1, <1>2, <1>4, <1>5, <1>6, ClientStep

LEMMA TakesGone ==
    ASSUME Inv, NEW c, NEW out, Take("client", c, out), ~c.open \/ c.state = "CLOSE_WAIT"
    PROVE  /\ conn' = [conn EXCEPT !["client"] = c] /\ net' = net \union out
           /\ user'["client"] = user["client"] /\ sent' = sent /\ got' = got
BY DEF Take, Becomes

(* csp_close of a connection c that still has the numbers of the client's.      *)
LEMMA ClosedIs ==
    ASSUME NEW c \in Connection
    PROVE  LET d == Closed(c)
           IN /\ d \in Connection /\ d.state = IF Lingers(c) THEN "CLOSE_WAIT" ELSE "CLOSED"
              /\ d.open = IF Lingers(c) THEN c.open ELSE FALSE
              /\ d.iss = c.iss /\ d.irs = c.irs /\ d.cur = c.cur /\ d.nxt = c.nxt
              /\ d.tx \subseteq c.tx
              /\ \A p \in ClosePackets("client", c) : p.to = "server" /\ "RST" \in p.flags
<1>1. \A p \in ClosePackets("client", c) : p.to = "server" /\ "RST" \in p.flags
  BY DEF ClosePackets, Reset, Bare, Peer
<1>2. CASE Lingers(c)
  <2>1. Closed(c) = [Acking(c) EXCEPT !.state = "CLOSE_WAIT"]
    BY <1>2 DEF Closed
  <2> QED
    BY <1>1, <1>2, <2>1 DEF Acking, Connection, States
<1>3. CASE ~Lingers(c)
  <2>1. Closed(c) = [c EXCEPT !.open = FALSE, !.state = "CLOSED", !.rxq = <<>>, !.tx = {},
                        !.copies = 0, !.held = {}]
    BY <1>3 DEF Closed
  <2>2. <<>> \in Seq(0 .. MaxData) /\ 0 \in Nat
    BY EmptySeq
  <2>3. PICK d : d = Closed(c)
    OBVIOUS
  <2>4. /\ d \in Connection /\ d.state = "CLOSED" /\ d.open = FALSE /\ d.tx = {}
        /\ d.iss = c.iss /\ d.irs = c.irs /\ d.cur = c.cur /\ d.nxt = c.nxt
    BY <2>1, <2>2, <2>3 DEF Connection, States
  <2> QED
    BY <1>1, <1>3, <2>3, <2>4
<1> QED
  BY <1>2, <1>3

LEMMA ClientIn ==
    ASSUME Inv, Agreed, NEW p, Arrived("client", p)
    PROVE  /\ p \in Packet /\ p \in net /\ p.to = "client" /\ p.data = 0
           /\ For("client") = Client /\ Client.open /\ Client.state # "CLOSED"
           /\ Client.state \in {"SYN_SENT", "OPEN", "CLOSE_WAIT"} /\ user["client"] # "start"
<1>1. p \in Packet /\ p \in net /\ p.to = "client" /\ For("client") = Client /\ Client.open
  BY ClientFacts, ArrivedFacts DEF Arrived
<1>2. p.data = 0
  BY <1>1 DEF Agreed, NetPart, FromClient
<1>3. Client.state \in {"SYN_SENT", "OPEN", "CLOSE_WAIT"}
  BY <1>1, ClientFacts DEF ClientOK, Connection, States
<1> QED
  BY <1>1, <1>2, <1>3, ClientFacts

LEMMA ClientResetClosing ==
    ASSUME Inv, Agreed, NEW p, ResetClosing("client", p)
    PROVE  Agreed'
<1>1. /\ p \in Packet /\ For("client") = Client /\ Client \in Connection
      /\ Client.state = "CLOSE_WAIT" /\ user["client"] # "start"
  BY ClientIn, ClientFacts DEF ResetClosing
<1>2. PICK c \in Connection :
          /\ c = AckedTo(Client, p) /\ c.state = Client.state /\ c.iss = Client.iss
          /\ c.irs = Client.irs /\ c.cur = Client.cur /\ c.tx = Client.tx
  BY <1>1, AckedToIs
<1>3. ~Lingers(c)
  BY <1>1, <1>2 DEF Lingers
<1>4. PICK d \in Connection : /\ d = Closed(c) /\ d.state = "CLOSED" /\ d.open = FALSE
                              /\ d.iss = c.iss /\ d.irs = c.irs /\ d.cur = c.cur
                              /\ d.tx \subseteq c.tx
  BY <1>3, ClosedIs
<1>5. Take("client", d, {})
  BY <1>1, <1>2, <1>4 DEF ResetClosing
<1>6. PICK out : /\ conn' = [conn EXCEPT !["client"] = d] /\ net' = net \union out /\ out = {}
                 /\ user'["client"] = user["client"] /\ sent' = sent /\ got' = got
  BY <1>4, <1>5, TakesGone
<1>7. \A q \in out : q.to = "server" /\ "RST" \in q.flags
  BY <1>6
<1>8. /\ d.iss = Client.iss /\ d.irs = Client.irs /\ d.cur = Client.cur
      /\ d.tx \subseteq Client.tx /\ d.state = "CLOSED"
  BY <1>2, <1>4
<1> QED
  BY <1>1, <1>6, <1>7, <1>8, ClientLeaves

LEMMA ClientResetInSequence ==
    ASSUME Inv, Agreed, NEW p, ResetInSequence("client", p)
    PROVE  Agreed'
<1>1. /\ p \in Packet /\ For("client") = Client /\ Client \in Connection
      /\ Client.state # "CLOSED" /\ user["client"] # "start"
  BY ClientIn, ClientFacts DEF ResetInSequence
<1>2. PICK b \in Connection :
          /\ b = AckedTo(Client, p) /\ b.iss = Client.iss /\ b.nxt = Client.nxt
          /\ b.irs = Client.irs /\ b.cur = Client.cur /\ b.tx = Client.tx
  BY <1>1, AckedToIs
<1>3. PICK c : c = [Acking(b) EXCEPT !.state = "CLOSE_WAIT"]
  OBVIOUS
<1>4. /\ c \in Connection /\ c.state = "CLOSE_WAIT" /\ c.iss = Client.iss /\ c.nxt = Client.nxt
      /\ c.irs = Client.irs /\ c.cur = Client.cur /\ c.tx = Client.tx
  BY <1>2, <1>3 DEF Acking, Connection, States
<1>5. PICK d : d = Discarded(c)
  OBVIOUS
<1>6. /\ d \in Connection /\ ((d.state = "CLOSED" /\ d.open = FALSE) \/ d.state = "CLOSE_WAIT")
      /\ d.iss = Client.iss /\ d.irs = Client.irs /\ d.cur = Client.cur
      /\ d.tx \subseteq Client.tx /\ d.nxt = Client.nxt
  <2>1. CASE c.posted
    <3>1. d = Told(c)
      BY <1>5, <2>1 DEF Discarded
    <3>2. c.rxq \in Seq(0 .. MaxData) /\ Append(c.rxq, Null) \in Seq(0 .. MaxData)
      BY <1>4, BothEnds, AppendProperties DEF Connection
    <3> QED
      BY <1>4, <3>1, <3>2 DEF Told, Connection
  <2>2. CASE ~c.posted
    <3>1. d = Closed(c) /\ ~Lingers(c)
      BY <1>4, <1>5, <2>2 DEF Discarded, Lingers
    <3> QED
      BY <1>4, <3>1, ClosedIs
  <2> QED
    BY <2>1, <2>2
<1>7. PICK out : out = {Reset("client", c)}
  OBVIOUS
<1>8. \A q \in out : q.to = "server" /\ "RST" \in q.flags
  BY <1>7 DEF Reset, Bare, Peer
<1>9. Take("client", d, out)
  BY <1>1, <1>2, <1>3, <1>5, <1>7 DEF ResetInSequence
<1>10. /\ conn' = [conn EXCEPT !["client"] = d] /\ net' = net \union out
       /\ user'["client"] = user["client"] /\ sent' = sent /\ got' = got
  BY <1>6, <1>9, TakesGone
<1> QED
  BY <1>1, <1>6, <1>8, <1>10, ClientLeaves

LEMMA ClientCloseWait ==
    ASSUME Inv, Agreed, NEW p, CloseWait("client", p)
    PROVE  Agreed'
<1>1. /\ p \in Packet /\ For("client") = Client /\ Client \in Connection
      /\ Client.state = "CLOSE_WAIT" /\ user["client"] # "start"
  BY ClientIn, ClientFacts DEF CloseWait, In
<1>2. PICK c : c = [Acking(Client) EXCEPT !.una = Plus(p.ack, 1)]
  OBVIOUS
<1>3. /\ c \in Connection /\ c.state = "CLOSE_WAIT" /\ c.iss = Client.iss /\ c.nxt = Client.nxt
      /\ c.irs = Client.irs /\ c.cur = Client.cur /\ c.tx = Client.tx
  <2>1. Plus(p.ack, 1) \in SeqNrs
    BY <1>1, NextNr DEF Packet
  <2> QED
    BY <1>1, <1>2, <2>1 DEF Acking, Connection
<1>4. PICK out : out = {Reset("client", c)}
  OBVIOUS
<1>5. \A q \in out : q.to = "server" /\ "RST" \in q.flags
  BY <1>4 DEF Reset, Bare, Peer
<1>6. CASE Take("client", c, out)
  <2>1. /\ conn' = [conn EXCEPT !["client"] = c] /\ net' = net \union out
        /\ user'["client"] = user["client"] /\ sent' = sent /\ got' = got
    BY <1>3, <1>6, TakesGone
  <2> QED
    BY <1>1, <1>3, <1>5, <2>1, ClientLeaves
<1>7. CASE Take("client", Client, {})
  <2>1. PICK none : /\ conn' = [conn EXCEPT !["client"] = Client] /\ net' = net \union none
                    /\ user'["client"] = user["client"] /\ sent' = sent /\ got' = got /\ none = {}
    BY <1>1, <1>7, TakesGone
  <2>2. \A q \in none : q.to = "server" /\ "RST" \in q.flags
    BY <2>1
  <2>3. PICK d \in Connection : d = Client
    BY <1>1
  <2> QED
    BY <1>1, <2>1, <2>2, <2>3, ClientLeaves
<1>8. Take("client", c, out) \/ Take("client", Client, {})
  BY <1>1, <1>2, <1>4 DEF CloseWait
<1> QED
  BY <1>6, <1>7, <1>8

-----------------------------------------------------------------------------
(* What a step of the router may leave of the client's connection, and send.    *)
ClientMay(c, out) ==
    /\ c \in Connection /\ (c.open <=> c.state # "CLOSED") /\ c.state \in {"SYN_SENT", "OPEN"}
    /\ user["client"] # "start" /\ ClientOK(c, user["client"], sent)
    /\ \/ Idle(Client, user["client"])
       \/ c.irs = Client.irs /\ c.iss = Client.iss /\ ~Idle(c, user["client"])
    /\ \A p \in out : FromClient(c, user["client"], sent, p)
    /\ c.state = "OPEN" =>
         \/ Client.state = "OPEN" /\ c.irs = Client.irs /\ c.iss = Client.iss
         \/ Idle(Client, user["client"]) /\ Answered
    /\ NoReset(net) /\ NoReset(out) /\ c.state = "OPEN" =>
         Remembers(c, sent, Server, Len(Taken))

(* What leaves tx_queue because snd_una is beyond it has been taken.           *)
LEMMA StillRemembers ==
    ASSUME Inv, Unconfused, NEW c \in Connection, NEW d \in Connection, NEW u,
           ClientOK(c, u, sent), Remembers(c, sent, Server, Len(Taken)),
           d.una = c.una, d.iss = c.iss, d.tx = {q \in c.tx : ~Before(q.seq, c.una)}
    PROVE  Remembers(d, sent, Server, Len(Taken))
<1>1. PICK k \in Nat : k = Len(Taken) /\ k + 2 * Window < SeqMod
  BY TakenFacts DEF Unconfused
<1>2. sent \in Nat /\ sent + 1 < Half /\ Server.irs \in SeqNrs
  BY BothEnds DEF Unconfused, Connection
<1>3. PICK j \in 0 .. k : c.una = Plus(Server.irs, j + 1)
  BY <1>1 DEF Remembers
<1>4. ASSUME Server.irs = c.iss, NEW i \in 1 .. sent
      PROVE  i <= k \/ \E q \in d.tx \union Server.held : q.data = i
  <2>1. i <= k \/ \E q \in c.tx \union Server.held : q.data = i
    BY <1>1, <1>4 DEF Remembers
  <2>2. CASE \E q \in c.tx : q.data = i
    <3>1. PICK q \in c.tx : q.data = i
      BY <2>2
    <3>2. q.seq = Plus(Server.irs, i)
      <4>1. Queued(c, sent, q) /\ q.data # 0
        BY <1>2, <3>1 DEF ClientOK
      <4> QED
        BY <1>4, <3>1, <4>1 DEF Queued, Numbered
    <3>3. CASE i <= j
      BY <1>1, <1>3, <3>3
    <3>4. CASE ~(i <= j)
      <4>1. i \in 0 .. SeqMod - 1 /\ j + 1 \in 0 .. SeqMod - 1 /\ j + 1 <= i /\ i - (j + 1) < Half
        BY <1>1, <1>2, <1>3, <3>4, ConstantFacts
      <4>2. ~Before(Plus(Server.irs, i), Plus(Server.irs, j + 1))
        BY <1>2, <4>1, BeforePlus
      <4>3. q \in d.tx
        BY <1>3, <3>1, <3>2, <4>2
      <4> QED
        BY <3>1, <4>3
    <3> QED
      BY <3>3, <3>4
  <2> QED
    BY <2>1, <2>2
<1> QED
  BY <1>1, <1>3, <1>4 DEF Remembers

LEMMA ClientServiced ==
    ASSUME Inv, Agreed, Unconfused, NEW c, NEW late, NEW early, NEW out, ClientMay(c, out),
           Serviced("client", c, late, early, out), UNCHANGED <<user, sent, got>>
    PROVE  Agreed'
<1>1. c \in Connection /\ "client" \in Ends /\ sent \in Nat
  BY BothEnds DEF ClientMay
<1>2. PICK u : u = user["client"]
  OBVIOUS
<1>3. PICK d \in Connection : \E more : LeftAs("client", c, out, d, more)
  BY <1>1, ServicedIs
<1>4. PICK more : LeftAs("client", c, out, d, more)
  BY <1>3
<1>5. /\ conn' = [conn EXCEPT !["client"] = d] /\ net' = net \union (out \union more)
      /\ d.state = c.state /\ d.iss = c.iss /\ d.irs = c.irs /\ d.cur = c.cur
      /\ d.nxt = c.nxt /\ d.una = c.una
      /\ d.tx = {q \in c.tx : ~Before(q.seq, c.una)} /\ d.lsa \in {c.lsa, c.cur}
      /\ \A p \in more :
           \/ \E q \in d.tx : /\ p.to = q.to /\ p.flags = q.flags /\ p.seq = q.seq
                              /\ p.data = q.data /\ p.list = q.list /\ p.ack = c.cur
           \/ p = Ack("client", c) /\ c.lsa # c.cur
  BY <1>4 DEF LeftAs
<1>6. ClientOK(c, u, sent) /\ u # "start" /\ c.state \in {"SYN_SENT", "OPEN"}
  BY <1>2 DEF ClientMay
<1>7. ASSUME NEW q \in d.tx PROVE Queued(d, sent, q)
  <2>1. Queued(c, sent, q)
    BY <1>5, <1>6 DEF ClientOK
  <2> QED
    BY <1>5, <2>1 DEF Queued, Numbered
<1>8. ClientOK(d, u, sent)
  BY <1>5, <1>6, <1>7 DEF ClientOK, Idle
<1>9. ASSUME NEW p \in more PROVE FromClient(d, u, sent, p)
  <2>1. CASE p = Ack("client", c) /\ c.lsa # c.cur
    <3>1. ~Idle(c, u) /\ c.cur = c.irs /\ c.nxt = Plus(c.iss, sent + 1)
      BY <1>6, <2>1 DEF ClientOK
    <3>2. sent + 1 \in 1 .. sent + 1
      BY <1>1
    <3>3. /\ p.to = "server" /\ p.flags = {"ACK"} /\ p.seq = Plus(d.iss, sent + 1)
          /\ p.ack = d.irs /\ p.data = 0 /\ ~Idle(d, u)
      BY <1>5, <2>1, <3>1 DEF Ack, Bare, Peer, Idle
    <3> QED
      BY <1>6, <3>2, <3>3 DEF FromClient, Plain
  <2>2. CASE \E q \in d.tx : /\ p.to = q.to /\ p.flags = q.flags /\ p.seq = q.seq
                             /\ p.data = q.data /\ p.list = q.list /\ p.ack = c.cur
    <3>1. PICK q \in d.tx : /\ p.to = q.to /\ p.flags = q.flags /\ p.seq = q.seq
                            /\ p.data = q.data /\ p.ack = c.cur
      BY <2>2
    <3>2. Queued(d, sent, q)
      BY <1>7
    <3>3. CASE p.flags = {"SYN"}
      BY <1>6, <3>1, <3>2, <3>3 DEF FromClient, Queued
    <3>4. CASE p.flags = {"ACK"} /\ Numbered(d, sent, q) /\ d.state # "SYN_SENT"
      <4>1. q.data \in 1 .. sent + 1
        BY <1>1, <3>4 DEF Numbered
      <4>2. p.ack = d.irs /\ ~Idle(d, u) /\ p.to = "server"
        BY <1>5, <1>6, <3>1, <3>2, <3>4 DEF ClientOK, Idle, Queued
      <4>3. p.seq = Plus(d.iss, q.data) /\ Numbered(d, sent, p)
        BY <3>1, <3>4 DEF Numbered
      <4> QED
        BY <1>6, <3>4, <4>1, <4>2, <4>3 DEF FromClient, Plain
    <3> QED
      BY <3>1, <3>2, <3>3, <3>4 DEF Queued
  <2> QED
    BY <1>5, <1>9, <2>1, <2>2
<1>10. ASSUME NEW p \in out PROVE FromClient(d, u, sent, p)
  <2>1. FromClient(c, u, sent, p)
    BY <1>2, <1>10 DEF ClientMay
  <2> QED
    BY <1>5, <2>1 DEF FromClient, Numbered, Idle
<1>11. ASSUME NoReset(net), NoReset(out \union more), d.state = "OPEN"
       PROVE  Remembers(d, sent, Server, Len(Taken))
  <2>1. Remembers(c, sent, Server, Len(Taken))
    BY <1>5, <1>11 DEF ClientMay, NoReset
  <2> QED
    BY <1>1, <1>5, <1>6, <2>1, StillRemembers
<1>12. \A p \in out \union more : FromClient(d, u, sent, p)
  BY <1>9, <1>10
<1>13. /\ \/ Idle(Client, user["client"])
          \/ d.irs = Client.irs /\ d.iss = Client.iss /\ ~Idle(d, u)
       /\ d.state = "OPEN" =>
            \/ Client.state = "OPEN" /\ d.irs = Client.irs /\ d.iss = Client.iss
            \/ Idle(Client, user["client"]) /\ Answered
  BY <1>2, <1>5 DEF ClientMay, Idle
<1>14. user'["client"] = u /\ sent' = sent /\ got' = got /\ sent >= sent /\ (sent > 0 => Answered)
  BY <1>1, <1>2, ClientFacts
<1> QED
  BY <1>1, <1>5, <1>6, <1>8, <1>11, <1>12, <1>13, <1>14, ClientStep

LEMMA ClientTakes ==
    ASSUME Inv, Agreed, Unconfused, NEW c, NEW out, ClientMay(c, out), Take("client", c, out)
    PROVE  Agreed'
<1>1. Serviced("client", c, {}, FALSE, out) /\ UNCHANGED <<user, sent, got>>
  BY DEF Take, ClientMay
<1> QED
  BY <1>1, ClientServiced

(* It is as it was, but for what acknowledgements have changed.               *)
LEMMA ClientSame ==
    ASSUME Inv, Agreed, NEW c \in Connection, NEW out, c.open = Client.open, Client.open,
           Client.state \in {"SYN_SENT", "OPEN"}, c.state = Client.state,
           c.irs = Client.irs, c.iss = Client.iss, c.cur = Client.cur, c.nxt = Client.nxt,
           c.lsa \in {Client.lsa, Client.cur}, c.tx \subseteq Client.tx,
           \A p \in out : FromClient(c, user["client"], sent, p),
           NoReset(net) /\ NoReset(out) /\ c.state = "OPEN" =>
             Remembers(c, sent, Server, Len(Taken))
    PROVE  ClientMay(c, out)
<1>1. PICK u : u = user["client"] /\ u # "start" /\ ClientOK(Client, u, sent)
  BY ClientFacts
<1>2. ASSUME NEW q \in c.tx PROVE Queued(c, sent, q)
  <2>1. Queued(Client, sent, q)
    BY <1>1 DEF ClientOK
  <2> QED
    BY <2>1 DEF Queued, Numbered
<1>3. ClientOK(c, u, sent) /\ (Idle(c, u) <=> Idle(Client, u))
  BY <1>1, <1>2 DEF ClientOK, Idle
<1> QED
  BY <1>1, <1>3 DEF ClientMay

LEMMA ClientResetOutOfSequence ==
    ASSUME Inv, Agreed, Unconfused, NEW p, ResetOutOfSequence("client", p)
    PROVE  Agreed'
<1>1. /\ p \in Packet /\ p \in net /\ "RST" \in p.flags /\ For("client") = Client
      /\ Client \in Connection /\ Client.open /\ Client.state \in {"SYN_SENT", "OPEN"}
  BY ClientIn, ClientFacts DEF ResetOutOfSequence
<1>2. PICK c \in Connection :
          /\ c = AckedTo(Client, p) /\ c.open = Client.open /\ c.state = Client.state
          /\ c.iss = Client.iss /\ c.nxt = Client.nxt /\ c.irs = Client.irs
          /\ c.cur = Client.cur /\ c.lsa = Client.lsa /\ c.tx = Client.tx
  BY <1>1, AckedToIs
<1>3. ~NoReset(net)
  BY <1>1 DEF NoReset
<1>4. PICK out : out = {} /\ Take("client", c, out)
  BY <1>1, <1>2 DEF ResetOutOfSequence
<1>5. \A q \in out : FromClient(c, user["client"], sent, q)
  BY <1>4
<1>6. ClientMay(c, out)
  BY <1>1, <1>2, <1>3, <1>5, ClientSame
<1> QED
  BY <1>4, <1>6, ClientTakes

LEMMA ClientSynAcked ==
    ASSUME Inv, Agreed, Unconfused, NEW p, SynAcked("client", p)
    PROVE  Agreed'
<1>1. /\ p \in Packet /\ p \in net /\ p.to = "client" /\ "SYN" \in p.flags
      /\ For("client") = Client /\ Client \in Connection /\ Client.open
      /\ Client.state = "SYN_SENT" /\ user["client"] # "start"
  BY ClientIn, ClientFacts DEF SynAcked, In
<1>2. PICK u : u = user["client"] /\ ClientOK(Client, u, sent)
  BY ClientFacts
<1>3. PICK c : c = [Client EXCEPT !.state = "OPEN", !.cur = p.seq, !.irs = p.seq,
                     !.lsa = Plus(p.seq, -1), !.una = Plus(p.ack, 1), !.wake = TRUE]
  OBVIOUS
<1>4. /\ c \in Connection /\ c.open /\ c.state = "OPEN" /\ c.cur = p.seq /\ c.irs = p.seq
      /\ c.iss = Client.iss /\ c.nxt = Client.nxt /\ c.tx = Client.tx /\ c.una = Plus(p.ack, 1)
  <2>1. p.seq \in SeqNrs /\ p.seq \in Int /\ p.ack \in Int
    BY <1>1, ConstantFacts DEF Packet
  <2>2. p.seq \in SeqNrs /\ Plus(p.seq, -1) \in SeqNrs /\ Plus(p.ack, 1) \in SeqNrs
    BY <2>1, PlusType
  <2> QED
    BY <1>1, <1>3, <2>2 DEF Connection, States
<1>5. sent = 0
  BY <1>1, <1>2 DEF ClientOK
<1>6. ASSUME NEW q \in c.tx PROVE Queued(c, sent, q)
  <2>1. Queued(Client, sent, q)
    BY <1>2, <1>4 DEF ClientOK
  <2> QED
    BY <1>1, <2>1 DEF Queued
<1>7. ClientOK(c, u, sent)
  BY <1>1, <1>2, <1>4, <1>5, <1>6 DEF ClientOK, Idle
<1>8. Idle(Client, u) /\ Answered
  BY <1>1 DEF Idle, Answered
<1>9. ASSUME NoReset(net) PROVE Remembers(c, sent, Server, Len(Taken))
  <2>1. Honest(Server, Len(Taken), p)
    BY <1>1, <1>9 DEF Agreed, MemoryPart
  <2>2. PICK k \in Nat : k = Len(Taken) /\ k + 2 * Window < SeqMod
    BY TakenFacts DEF Unconfused
  <2>3. PICK j \in 0 .. k : p.ack = Plus(Server.irs, j)
    BY <2>1, <2>2 DEF Honest
  <2>4. j \in 0 .. SeqMod - 1 /\ 1 \in 0 .. SeqMod - 1 /\ j + 1 < SeqMod /\ Server.irs \in SeqNrs
    <3>1. Server.irs \in SeqNrs
      BY BothEnds DEF Connection
    <3> QED
      BY <2>2, <3>1, ConstantFacts
  <2>5. c.una = Plus(Server.irs, j + 1)
    BY <1>4, <2>3, <2>4, PlusPlus
  <2>6. \A i \in 1 .. sent : FALSE
    BY <1>5
  <2> QED
    BY <2>2, <2>3, <2>5, <2>6 DEF Remembers
<1>10. PICK out : out = {} /\ Take("client", c, out)
  BY <1>1, <1>3 DEF SynAcked
<1>11. \A q \in out : FromClient(c, user["client"], sent, q)
  BY <1>10
<1>12. ClientMay(c, out)
  BY <1>1, <1>2, <1>4, <1>7, <1>8, <1>9, <1>11 DEF ClientMay
<1> QED
  BY <1>10, <1>12, ClientTakes

LEMMA ClientHalfOpen ==
    ASSUME Inv, Agreed, Unconfused, NEW p, HalfOpen("client", p)
    PROVE  Agreed'
<1>1. /\ For("client") = Client /\ Client \in Connection /\ Client.open
      /\ Client.state = "SYN_SENT" /\ user["client"] # "start"
  BY ClientIn, ClientFacts DEF HalfOpen, In
<1>2. PICK c : c = [Client EXCEPT !.wake = TRUE]
  OBVIOUS
<1>3. /\ c \in Connection /\ c.open = Client.open /\ c.state = Client.state
      /\ c.iss = Client.iss /\ c.nxt = Client.nxt /\ c.irs = Client.irs
      /\ c.cur = Client.cur /\ c.lsa = Client.lsa /\ c.tx = Client.tx
  BY <1>1, <1>2 DEF Connection
<1>4. PICK out : out = {Bare("client", {"RST"}, Client.nxt, Client.cur)}
  OBVIOUS
<1>5. \A q \in out : FromClient(c, user["client"], sent, q)
  BY <1>1, <1>4 DEF FromClient, Bare, Peer
<1>6. ClientMay(c, out)
  BY <1>1, <1>3, <1>5, ClientSame
<1>7. Take("client", c, out)
  BY <1>1, <1>2, <1>4 DEF HalfOpen
<1> QED
  BY <1>6, <1>7, ClientTakes

-----------------------------------------------------------------------------
(* The client in state OPEN.                                                 *)
LEMMA ClientOpen ==
    ASSUME Inv, Agreed, NEW p, In("client", p, {"SYN_RCVD", "OPEN"})
    PROVE  /\ p \in Packet /\ p \in net /\ p.to = "client" /\ p.data = 0
           /\ For("client") = Client /\ Client \in Connection /\ Client.open
           /\ Client.state = "OPEN" /\ user["client"] # "start"
           /\ ClientOK(Client, user["client"], sent)
           /\ ~Idle(Client, user["client"])
           /\ NoReset(net) => Remembers(Client, sent, Server, Len(Taken))
<1>1. /\ p \in Packet /\ p \in net /\ p.to = "client" /\ p.data = 0
      /\ For("client") = Client /\ Client \in Connection /\ Client.open
      /\ Client.state = "OPEN" /\ user["client"] # "start"
  BY ClientIn, ClientFacts DEF In
<1>2. ~Idle(Client, user["client"])
  BY <1>1 DEF Idle
<1> QED
  BY <1>1, <1>2, ClientFacts

LEMMA ClientUnchanged ==
    ASSUME Inv, Agreed, Client.open, Client.state \in {"SYN_SENT", "OPEN"}
    PROVE  ClientMay(Client, {})
<1>1. PICK out : out = {}
  OBVIOUS
<1>2. \A q \in out : FromClient(Client, user["client"], sent, q)
  BY <1>1
<1>3. ClientMay(Client, out)
  BY <1>2, ClientSame, ClientFacts
<1> QED
  BY <1>1, <1>3

LEMMA ClientInvalidSyn ==
    ASSUME Inv, Agreed, Unconfused, NEW p, InvalidSyn("client", p)
    PROVE  Agreed'
<1>1. /\ For("client") = Client /\ Client \in Connection /\ Client.open
      /\ Client.state = "OPEN" /\ user["client"] # "start"
      /\ NoReset(net) => Remembers(Client, sent, Server, Len(Taken))
  BY ClientOpen DEF InvalidSyn
<1>2. CASE Take("client", Client, {})
  BY <1>1, <1>2, ClientUnchanged, ClientTakes
<1>3. CASE Client.posted /\ Take("client", Told(Client), {})
  <2>1. PICK c : c = Told(Client)
    OBVIOUS
  <2>2. /\ c \in Connection /\ c.open = Client.open /\ c.state = Client.state
        /\ c.iss = Client.iss /\ c.nxt = Client.nxt /\ c.irs = Client.irs /\ c.una = Client.una
        /\ c.cur = Client.cur /\ c.lsa = Client.lsa /\ c.tx = Client.tx
    <3>1. Client.rxq \in Seq(0 .. MaxData) /\ Append(Client.rxq, Null) \in Seq(0 .. MaxData)
      BY <1>1, BothEnds, AppendProperties DEF Connection
    <3> QED
      BY <1>1, <2>1, <3>1 DEF Told, Connection
  <2>3. PICK out : out = {}
    OBVIOUS
  <2>3a. \A q \in out : FromClient(c, user["client"], sent, q)
    BY <2>3
  <2>4. NoReset(net) => Remembers(c, sent, Server, Len(Taken))
    BY <1>1, <2>2 DEF Remembers
  <2>5. ClientMay(c, out)
    BY <1>1, <2>2, <2>3a, <2>4, ClientSame
  <2> QED
    BY <1>3, <2>1, <2>3, <2>5, ClientTakes
<1>4. CASE Take("client", Closed(Client), ClosePackets("client", Client))
  <2>1. Lingers(Client)
    BY <1>1 DEF Lingers
  <2>2. PICK d \in Connection : /\ d = Closed(Client) /\ d.state = "CLOSE_WAIT" /\ d.open
                                /\ d.iss = Client.iss /\ d.irs = Client.irs /\ d.cur = Client.cur
                                /\ d.nxt = Client.nxt /\ d.tx \subseteq Client.tx
    BY <1>1, <2>1, ClosedIs
  <2>3. PICK out : /\ out = ClosePackets("client", Client)
                   /\ \A q \in out : q.to = "server" /\ "RST" \in q.flags
    BY <1>1, ClosedIs
  <2>4. /\ conn' = [conn EXCEPT !["client"] = d] /\ net' = net \union out
        /\ user'["client"] = user["client"] /\ sent' = sent /\ got' = got
    BY <1>4, <2>2, <2>3, TakesGone
  <2> QED
    BY <1>1, <2>2, <2>3, <2>4, ClientLeaves
<1>5. \/ Take("client", Client, {})
      \/ Client.posted /\ Take("client", Told(Client), {})
      \/ Take("client", Closed(Client), ClosePackets("client", Client))
  BY <1>1 DEF InvalidSyn, Discarded, DiscardPackets
<1> QED
  BY <1>2, <1>3, <1>4, <1>5

LEMMA ClientOutOfWindow ==
    ASSUME Inv, Agreed, Unconfused, NEW p, OutOfWindow("client", p)
    PROVE  Agreed'
<1>1. /\ For("client") = Client /\ Client \in Connection /\ Client.open
      /\ Client.state = "OPEN" /\ user["client"] # "start"
      /\ ClientOK(Client, user["client"], sent) /\ ~Idle(Client, user["client"])
      /\ NoReset(net) => Remembers(Client, sent, Server, Len(Taken))
  BY ClientOpen DEF OutOfWindow
<1>2. PICK c : c = Acking(Client)
  OBVIOUS
<1>3. /\ c \in Connection /\ c.open = Client.open /\ c.state = Client.state
      /\ c.iss = Client.iss /\ c.nxt = Client.nxt /\ c.irs = Client.irs /\ c.una = Client.una
      /\ c.cur = Client.cur /\ c.lsa = Client.cur /\ c.tx = Client.tx
  BY <1>1, <1>2 DEF Acking, Connection
<1>4. PICK q : q = Eack("client", Client)
  OBVIOUS
<1>5. FromClient(c, user["client"], sent, q)
  <2>1. q.to = "server" /\ q.flags = {"ACK", "EAK"} /\ q.seq = Client.nxt /\ q.ack = Client.cur /\ q.data = 0
    BY <1>4 DEF Eack, Bare, Peer
  <2>2. q.seq = Plus(c.iss, sent + 1) /\ q.ack = c.irs /\ ~Idle(c, user["client"])
    BY <1>1, <1>3, <2>1 DEF ClientOK, Idle
  <2>3. sent + 1 \in 1 .. sent + 1
    BY BothEnds
  <2> QED
    BY <1>1, <2>1, <2>2, <2>3 DEF FromClient, Plain
<1>6. PICK out : out = {q}
  OBVIOUS
<1>6a. \A r \in out : FromClient(c, user["client"], sent, r)
  BY <1>5, <1>6
<1>7. NoReset(net) => Remembers(c, sent, Server, Len(Taken))
  BY <1>1, <1>3 DEF Remembers
<1>8. ClientMay(c, out)
  BY <1>1, <1>3, <1>6a, <1>7, ClientSame
<1>9. Take("client", c, out)
  BY <1>1, <1>2, <1>4, <1>6 DEF OutOfWindow
<1> QED
  BY <1>8, <1>9, ClientTakes

LEMMA ClientInvalidAck ==
    ASSUME Inv, Agreed, Unconfused, NEW p, InvalidAck("client", p)
    PROVE  Agreed'
<1>1. For("client") = Client /\ Client.open /\ Client.state = "OPEN"
  BY ClientOpen DEF InvalidAck
<1>2. Take("client", Client, {})
  BY <1>1 DEF InvalidAck
<1> QED
  BY <1>1, <1>2, ClientUnchanged, ClientTakes

(* What the list of an EACK of the server takes out of tx_queue, the server has. *)
LEMMA ClientNoData ==
    ASSUME Inv, Agreed, Unconfused, NEW p, NoData("client", p)
    PROVE  Agreed'
<1>1. /\ p \in Packet /\ p \in net /\ p.to = "client"
      /\ For("client") = Client /\ Client \in Connection /\ Client.open
      /\ Client.state = "OPEN" /\ user["client"] # "start"
      /\ ClientOK(Client, user["client"], sent) /\ ~Idle(Client, user["client"])
      /\ NoReset(net) => Remembers(Client, sent, Server, Len(Taken))
  BY ClientOpen DEF NoData, Valid
<1>2. PICK a : a = Accepted("client", p)
  OBVIOUS
<1>3. /\ a \in Connection /\ a.open /\ a.state = "OPEN" /\ a.iss = Client.iss
      /\ a.irs = Client.irs /\ a.cur = Client.cur /\ a.nxt = Client.nxt /\ a.lsa = Client.lsa
      /\ a.tx = Client.tx /\ a.una = Plus(p.ack, 1)
  <2>1. Plus(p.ack, 1) \in SeqNrs
    BY <1>1, NextNr DEF Packet
  <2> QED
    BY <1>1, <1>2, <2>1 DEF Accepted, Connection, States
<1>4. PICK c : c = [a EXCEPT !.tx = {q \in @ : q.seq \notin p.list}]
  OBVIOUS
<1>5. /\ c \in Connection /\ c.open = Client.open /\ c.state = Client.state /\ c.iss = Client.iss
      /\ c.irs = Client.irs /\ c.cur = Client.cur /\ c.nxt = Client.nxt /\ c.lsa = Client.lsa
      /\ c.tx = {q \in Client.tx : q.seq \notin p.list} /\ c.una = Plus(p.ack, 1)
  BY <1>1, <1>3, <1>4 DEF Connection
<1>6. ASSUME NoReset(net) PROVE Remembers(c, sent, Server, Len(Taken))
  <2>1. Honest(Server, Len(Taken), p) /\ Remembers(Client, sent, Server, Len(Taken))
    BY <1>1, <1>6 DEF Agreed, MemoryPart
  <2>2. PICK k \in Nat : k = Len(Taken) /\ k + 2 * Window < SeqMod
    BY TakenFacts DEF Unconfused
  <2>3. PICK j \in 0 .. k : p.ack = Plus(Server.irs, j)
    BY <2>1, <2>2 DEF Honest
  <2>4. Server.irs \in SeqNrs /\ sent \in Nat /\ sent + 1 < Half
    BY BothEnds DEF Connection, Unconfused
  <2>5. j \in 0 .. SeqMod - 1 /\ 1 \in 0 .. SeqMod - 1 /\ j + 1 < SeqMod
    BY <2>2, ConstantFacts
  <2>6. c.una = Plus(Server.irs, j + 1)
    BY <1>5, <2>3, <2>4, <2>5, PlusPlus
  <2>7. ASSUME Server.irs = c.iss, NEW i \in 1 .. sent
        PROVE  i <= k \/ \E q \in c.tx \union Server.held : q.data = i
    <3>1. i <= k \/ \E q \in Client.tx \union Server.held : q.data = i
      BY <1>5, <2>1, <2>2, <2>7 DEF Remembers
    <3>2. CASE \E q \in Client.tx : q.data = i
      <4>1. PICK q \in Client.tx : q.data = i
        BY <3>2
      <4>2. q.seq = Plus(Server.irs, i)
        <5>1. Queued(Client, sent, q) /\ q.data # 0
          BY <1>1, <2>4, <4>1 DEF ClientOK
        <5> QED
          BY <1>5, <2>7, <4>1, <5>1 DEF Queued, Numbered
      <4>3. i \in 0 .. SeqMod - 1
        BY <2>4, ConstantFacts
      <4>4. CASE q.seq \notin p.list
        BY <1>5, <4>1, <4>4
      <4>5. CASE q.seq \in p.list
        <5>1. Live(Server) /\ Here(Server, k, q.seq)
          BY <2>1, <2>2, <4>5 DEF Honest
        <5>2. CASE \E h \in 0 .. k : q.seq = Plus(Server.irs, h)
          <6>1. PICK h \in 0 .. k : q.seq = Plus(Server.irs, h)
            BY <5>2
          <6>2. h \in 0 .. SeqMod - 1
            BY <2>2, ConstantFacts
          <6>3. h = i
            BY <2>4, <4>2, <4>3, <6>1, <6>2, PlusOnce
          <6> QED
            BY <2>2, <6>3
        <5>3. CASE \E r \in Server.held : r.seq = q.seq
          <6>1. PICK r \in Server.held : r.seq = q.seq
            BY <5>3
          <6>2. Server.state = "OPEN"
            <7>1. HeldOK(Server)
              BY BothEnds DEF Sound
            <7> QED
              BY <5>1, <6>1, <7>1 DEF HeldOK, Live
          <6>3. r.data \in 1 .. SeqMod - 1 /\ r.seq = Plus(Server.irs, r.data)
            BY <6>1, <6>2, ServerQueues DEF ServerOK
          <6>4. r.data \in 0 .. SeqMod - 1
            BY <6>3, ConstantFacts
          <6>5. r.data = i
            BY <2>4, <4>2, <4>3, <6>1, <6>3, <6>4, PlusOnce
          <6> QED
            BY <6>1, <6>5
        <5> QED
          BY <5>1, <5>2, <5>3 DEF Here
      <4> QED
        BY <4>4, <4>5
    <3> QED
      BY <3>1, <3>2
  <2> QED
    BY <2>2, <2>3, <2>6, <2>7 DEF Remembers
<1>7. PICK out : out = {}
  OBVIOUS
<1>8. \A q \in out : FromClient(c, user["client"], sent, q)
  BY <1>7
<1>9. c.tx \subseteq Client.tx
  BY <1>5
<1>10. ClientMay(c, out)
  BY <1>1, <1>5, <1>6, <1>8, <1>9, ClientSame
<1>11. Take("client", c, out)
  BY <1>2, <1>4, <1>7 DEF NoData
<1> QED
  BY <1>10, <1>11, ClientTakes

LEMMA ClientNewPacket ==
    ASSUME Inv, Agreed, Unconfused, NEW p, NewPacket("client", p)
    PROVE  Agreed'
<1>1. ~NotSyn("client", p) /\ ~SynReceived("client", p)
  BY ClientIn DEF NotSyn, SynReceived, In
<1>2. ~WrongAck("client", p)
  BY ClientIn DEF WrongAck, In
<1>3. ~OutOfOrder("client", p) /\ \A early \in BOOLEAN : ~InOrder("client", p, early)
  BY ClientIn DEF OutOfOrder, InOrder, Valid, In
<1> QED
  BY <1>1, <1>2, <1>3, ClientResetClosing, ClientResetInSequence, ClientResetOutOfSequence,
     ClientSynAcked, ClientHalfOpen, ClientInvalidSyn, ClientOutOfWindow, ClientInvalidAck,
     ClientNoData, ClientCloseWait DEF NewPacket

-----------------------------------------------------------------------------
(* The client's timeouts, and its user.                                       *)
LEMMA ClientCloses ==
    ASSUME Inv, Agreed, NEW c \in Connection, NEW v, NEW out,
           conn' = [conn EXCEPT !["client"] = Closed(c)], net' = net \union out,
           user'["client"] = v, sent' = sent, got' = got,
           user["client"] # "start", v \in {user["client"], "closed"},
           c.iss = Client.iss, c.irs = Client.irs, c.cur = Client.cur, c.nxt = Client.nxt,
           c.tx = Client.tx, Lingers(c) => Client.state # "CLOSED",
           out \subseteq ClosePackets("client", c)
    PROVE  Agreed'
<1>1. PICK d \in Connection :
          /\ d = Closed(c) /\ d.state = IF Lingers(c) THEN "CLOSE_WAIT" ELSE "CLOSED"
          /\ d.iss = c.iss /\ d.irs = c.irs /\ d.cur = c.cur /\ d.nxt = c.nxt
          /\ d.tx \subseteq c.tx
          /\ \A p \in ClosePackets("client", c) : p.to = "server" /\ "RST" \in p.flags
  BY ClosedIs
<1>2. \A p \in out : p.to = "server" /\ "RST" \in p.flags
  BY <1>1
<1> QED
  BY <1>1, <1>2, ClientLeaves

LEMMA ClientExpire ==
    ASSUME Inv, Agreed, Expire("client")
    PROVE  Agreed'
<1>1. Client \in Connection /\ Client.open /\ user["client"] # "start" /\ Client.state # "CLOSED"
  BY ClientFacts DEF Expire, Client
<1>2. PICK out : /\ conn' = [conn EXCEPT !["client"] = Closed(Client)] /\ net' = net \union out
                 /\ out = ClosePackets("client", Client)
                 /\ user'["client"] = user["client"] /\ sent' = sent /\ got' = got
  BY DEF Expire, Becomes, Client
<1>3. out \subseteq ClosePackets("client", Client)
  BY <1>2
<1> QED
  BY <1>1, <1>2, <1>3, ClientCloses

LEMMA ClientMaintain ==
    ASSUME Inv, Agreed, Unconfused, NEW late, NEW early, Maintain("client", late, early)
    PROVE  Agreed'
<1>1. Client.open /\ Client.state # "CLOSE_WAIT"
  BY DEF Maintain, Client
<1>2. Client.state \in {"SYN_SENT", "OPEN"}
  BY <1>1, ClientFacts DEF ClientOK, Connection, States
<1>3. Serviced("client", Client, late, early, {}) /\ UNCHANGED <<user, sent, got>>
  BY DEF Maintain, Client
<1> QED
  BY <1>1, <1>2, <1>3, ClientUnchanged, ClientServiced

LEMMA ClientUserCloses ==
    ASSUME Inv, Agreed, CloseAtWill("client") \/ CloseAfterError("client")
    PROVE  Agreed'
<1>1. user["client"] = "open" /\ Client \in Connection /\ (Client.open <=> Client.state # "CLOSED")
  BY ClientFacts DEF CloseAtWill, CloseAfterError
<1>2. user'["client"] = "closed" /\ sent' = sent /\ got' = got
  BY BothEnds DEF CloseAtWill, CloseAfterError, UserStep
<1>3. \/ /\ conn' = [conn EXCEPT !["client"] = Closed(Client)] /\ Client.open
         /\ net' = net \union ClosePackets("client", Client)
      \/ conn' = [conn EXCEPT !["client"] = Client] /\ net' = net \union {} /\ ~Client.open
  BY DEF CloseAtWill, CloseAfterError, UserStep, Becomes, Client
<1>4. CASE /\ conn' = [conn EXCEPT !["client"] = Closed(Client)] /\ Client.open
           /\ net' = net \union ClosePackets("client", Client)
  <2>1. PICK out : out = ClosePackets("client", Client)
    OBVIOUS
  <2>2. out \subseteq ClosePackets("client", Client) /\ net' = net \union out
    BY <1>4, <2>1
  <2> QED
    BY <1>1, <1>2, <1>4, <2>2, ClientCloses
<1>5. CASE conn' = [conn EXCEPT !["client"] = Client] /\ net' = net \union {} /\ ~Client.open
  <2>1. PICK out : out = {} /\ net' = net \union out
    BY <1>5
  <2>2. \A p \in out : p.to = "server" /\ "RST" \in p.flags
    BY <2>1
  <2>3. PICK d \in Connection : d = Client
    BY <1>1
  <2> QED
    BY <1>1, <1>2, <1>5, <2>1, <2>2, <2>3, ClientLeaves
<1> QED
  BY <1>3, <1>4, <1>5

LEMMA ClientConnectFails ==
    ASSUME Inv, Agreed, ConnectFailed
    PROVE  Agreed'
<1>1. PICK c : c = [Client EXCEPT !.state = "CLOSE_WAIT", !.wake = FALSE]
  OBVIOUS
<1>2. /\ c \in Connection /\ c.state = "CLOSE_WAIT" /\ c.iss = Client.iss /\ c.irs = Client.irs
      /\ c.cur = Client.cur /\ c.nxt = Client.nxt /\ c.tx = Client.tx
  BY <1>1, ClientFacts DEF Connection, States
<1>3. user["client"] # "start" /\ user'["client"] = "closed" /\ sent' = sent /\ got' = got
  BY BothEnds DEF ConnectFailed, UserStep
<1>4. ~Lingers(c)
  BY <1>2 DEF Lingers
<1>5. PICK out : out = {} /\ conn' = [conn EXCEPT !["client"] = Closed(c)] /\ net' = net \union out
  BY <1>1 DEF ConnectFailed, UserStep, Becomes, Client
<1>6. out \subseteq ClosePackets("client", c)
  BY <1>5
<1> QED
  BY <1>2, <1>3, <1>4, <1>5, <1>6, ClientCloses

LEMMA ClientConnects ==
    ASSUME Inv, Agreed, NEW v \in {"connecting", "retrying"},
           Idle(Client, user["client"]), user["client"] \in {"start", "connecting", "retrying"},
           LET c == Connecting(conn["client"]) IN UserStep("client", c, c.tx, v),
           UNCHANGED <<turns, sent, got>>
    PROVE  Agreed'
<1>1. PICK u : u = user["client"] /\ ClientOK(Client, u, sent)
  BY ClientFacts
<1>2. sent = 0
  BY <1>1 DEF ClientOK
<1>3. PICK iss \in SeqNrs : iss = Rand["client"][Client.iss]
  BY ClientFacts, RdpAssumption DEF Connection
<1>4. PICK b : b = [Client EXCEPT !.open = TRUE, !.posted = TRUE, !.state = "SYN_SENT", !.iss = iss,
                 !.nxt = Plus(iss, 1), !.una = iss, !.wake = FALSE, !.held = {}]
  OBVIOUS
<1>5. /\ b \in Connection /\ b.state = "SYN_SENT" /\ b.iss = iss /\ b.nxt = Plus(iss, 1)
      /\ b.cur = Client.cur /\ b.irs = Client.irs /\ b.lsa = Client.lsa
  <2>1. Plus(iss, 1) \in SeqNrs
    BY NextNr
  <2> QED
    BY <1>4, <2>1, ClientFacts DEF Connection, States
<1>6. PICK q : q = Syn("client", b)
  OBVIOUS
<1>7. q \in Packet /\ q.to = "server" /\ q.flags = {"SYN"} /\ q.data = 0
  <2>1. q.to = "server" /\ q.flags = {"SYN"} /\ q.data = 0
    BY <1>6 DEF Syn, Bare, Peer
  <2> QED
    BY <1>5, <1>6, <2>1, ClientFacts, PacketFacts
<1>8. PICK d : d = [b EXCEPT !.tx = {q}]
  OBVIOUS
<1>9. /\ d \in Connection /\ d.state = "SYN_SENT" /\ d.iss = iss /\ d.nxt = Plus(iss, 1)
      /\ d.cur = Client.cur /\ d.irs = Client.irs /\ d.lsa = Client.lsa /\ d.tx = {q}
  BY <1>5, <1>7, <1>8 DEF Connection
<1>10. d = Connecting(conn["client"])
  BY <1>3, <1>4, <1>6, <1>8 DEF Connecting, Client
<1>11. PICK out : out = {q}
  OBVIOUS
<1>12. /\ conn' = [conn EXCEPT !["client"] = d] /\ net' = net \union out
       /\ user'["client"] = v /\ sent' = 0 /\ got' = got
  BY <1>2, <1>9, <1>10, <1>11, BothEnds DEF UserStep, Becomes
<1>13. ClientOK(d, v, 0)
  <2>1. \A r \in d.tx : Queued(d, 0, r)
    BY <1>7, <1>9 DEF Queued
  <2>2. d.cur = d.irs /\ d.lsa = d.cur /\ d.nxt = Plus(d.iss, 0 + 1)
    BY <1>1, <1>9 DEF ClientOK
  <2> QED
    BY <1>9, <2>1, <2>2 DEF ClientOK
<1>14. \A p \in out : FromClient(d, v, 0, p)
  BY <1>7, <1>11 DEF FromClient
<1>15. 0 \in Nat /\ 0 >= sent /\ v # "start" /\ d.state # "OPEN" /\ ~(0 > 0)
  BY <1>2, <1>9
<1> QED
  BY <1>9, <1>12, <1>13, <1>14, <1>15, ClientStep

LEMMA ClientGoesOn ==
    ASSUME Inv, Agreed, NEW v \in {"open", "window"},
           UserStep("client", [conn["client"] EXCEPT !.wake = FALSE], {}, v),
           user["client"] # "start", Client.state # "SYN_SENT",
           UNCHANGED <<turns, sent, got>>
    PROVE  Agreed'
<1>1. PICK u : u = user["client"] /\ ClientOK(Client, u, sent) /\ ~Idle(Client, u)
  BY ClientFacts DEF Idle
<1>2. PICK d : d = [Client EXCEPT !.wake = FALSE]
  OBVIOUS
<1>3. /\ d \in Connection /\ d.state = Client.state /\ d.iss = Client.iss /\ d.nxt = Client.nxt
      /\ d.una = Client.una /\ d.cur = Client.cur /\ d.irs = Client.irs /\ d.lsa = Client.lsa
      /\ d.tx = Client.tx
  BY <1>2, ClientFacts DEF Connection
<1>4. PICK out : out = {}
  OBVIOUS
<1>5. /\ conn' = [conn EXCEPT !["client"] = d] /\ net' = net \union out
      /\ user'["client"] = v /\ sent' = sent /\ got' = got /\ v # "start"
  BY <1>2, <1>4, BothEnds DEF UserStep, Becomes
<1>6. ClientOK(d, v, sent) /\ ~Idle(d, v)
  <2>1. \A q \in d.tx : Queued(d, sent, q)
    BY <1>1, <1>3 DEF ClientOK, Queued, Numbered
  <2> QED
    BY <1>1, <1>3, <2>1 DEF ClientOK, Idle
<1>7. \A p \in out : FromClient(d, v, sent, p)
  BY <1>4
<1>8. NoReset(net) /\ d.state = "OPEN" => Remembers(d, sent, Server, Len(Taken))
  BY <1>3, ClientFacts DEF Remembers
<1>9. sent \in Nat /\ sent >= sent /\ (sent > 0 => Answered)
  BY BothEnds, ClientFacts
<1> QED
  BY <1>1, <1>3, <1>5, <1>6, <1>7, <1>8, <1>9, ClientStep

LEMMA ClientSends ==
    ASSUME Inv, Agreed, Unconfused, Send
    PROVE  Agreed'
<1>1. /\ user["client"] # "start" /\ Client.state = "OPEN" /\ sent' = sent + 1 /\ got' = got
      /\ sent + 1 \in 0 .. MaxData
  <2>1. sent + 1 \in 0 .. MaxData
    <3>1. CanSend /\ WorkOK
      BY DEF Send, Inv
    <3>2. SendWork * (sent + 1) + TurnWork * turns <= MaxWork
      BY <3>1 DEF CanSend
    <3>3. sent + 1 \in Nat /\ turns \in Nat
      BY <3>1, BothEnds, RdpAssumption DEF WorkOK
    <3>4. sent + 1 <= MaxWork \div SendWork
      BY <3>2, <3>3, Costs, RdpAssumption
    <3> QED
      BY <3>3, <3>4, RdpAssumption DEF MaxData
  <2> QED
    BY <2>1 DEF Send, Client
<1>2. PICK u : u = user["client"] /\ ClientOK(Client, u, sent) /\ ~Idle(Client, u)
  BY <1>1, ClientFacts DEF Idle
<1>3. PICK m \in Nat : m = sent + 1 /\ m >= sent /\ sent \in Nat
  BY BothEnds
<1>4. Client \in Connection /\ Client.iss \in SeqNrs /\ Client.nxt \in SeqNrs /\ Client.cur \in SeqNrs
  BY ClientFacts DEF Connection
<1>5. PICK p : p = [Bare("client", {"ACK"}, Client.nxt, Client.cur) EXCEPT !.data = m]
  OBVIOUS
<1>6. /\ p \in Packet /\ p.to = "server" /\ p.flags = {"ACK"} /\ p.seq = Client.nxt
      /\ p.ack = Client.cur /\ p.data = m
  <2>1. {"ACK"} \in SUBSET Flags /\ {} \in SUBSET SeqNrs /\ m \in 0 .. MaxData
    BY <1>1, <1>3 DEF Flags
  <2>2. p = [to |-> "server", flags |-> {"ACK"}, seq |-> Client.nxt, ack |-> Client.cur,
             data |-> m, list |-> {}]
    BY <1>5 DEF Bare, Peer
  <2> QED
    BY <1>4, <2>1, <2>2 DEF Packet, Ends
<1>7. PICK woken \in BOOLEAN : woken = (user["client"] = "open" /\ Client.wake)
  <2>1. Client.wake \in BOOLEAN
    BY <1>4 DEF Connection
  <2> QED
    BY <2>1
<1>8. PICK d : d = [Client EXCEPT !.tx = @ \union {p}, !.nxt = Plus(@, 1), !.wake = woken]
  OBVIOUS
<1>9. /\ d \in Connection /\ d.state = "OPEN" /\ d.iss = Client.iss /\ d.nxt = Plus(Client.nxt, 1)
      /\ d.una = Client.una /\ d.cur = Client.cur /\ d.irs = Client.irs /\ d.lsa = Client.lsa
      /\ d.tx = Client.tx \union {p}
  <2>1. Plus(Client.nxt, 1) \in SeqNrs
    BY <1>4, NextNr
  <2> QED
    BY <1>1, <1>4, <1>6, <1>8, <2>1 DEF Connection
<1>10. PICK out : out = {p}
  OBVIOUS
<1>11. conn' = [conn EXCEPT !["client"] = d] /\ net' = net \union out /\ user'["client"] = "open"
  BY <1>3, <1>5, <1>7, <1>8, <1>10, BothEnds DEF Send, UserStep, Becomes
<1>12. Client.nxt = Plus(Client.iss, m) /\ d.nxt = Plus(Client.iss, m + 1)
  <2>1. Client.nxt = Plus(Client.iss, m)
    BY <1>1, <1>2, <1>3 DEF ClientOK
  <2>2. m \in 0 .. SeqMod - 1 /\ 1 \in 0 .. SeqMod - 1 /\ m + 1 < SeqMod
    BY <1>3, ConstantFacts DEF Unconfused
  <2>3. Plus(Plus(Client.iss, m), 1) = Plus(Client.iss, m + 1)
    BY <1>4, <2>2, PlusPlus
  <2> QED
    BY <1>9, <2>1, <2>3
<1>13. m \in 1 .. m /\ m \in 1 .. m + 1 /\ \A i \in 1 .. sent : i \in 1 .. m
  BY <1>3
<1>14. Numbered(d, m, p)
  BY <1>6, <1>9, <1>12, <1>13 DEF Numbered
<1>15. ASSUME NEW q \in d.tx PROVE Queued(d, m, q)
  <2>1. CASE q = p
    BY <1>6, <1>9, <1>14, <2>1 DEF Queued
  <2>2. CASE q \in Client.tx
    <3>1. Queued(Client, sent, q)
      BY <1>2, <2>2 DEF ClientOK
    <3> QED
      BY <1>9, <1>13, <3>1 DEF Queued, Numbered
  <2> QED
    BY <1>9, <1>15, <2>1, <2>2
<1>16. ClientOK(d, "open", m) /\ ~Idle(d, "open")
  BY <1>2, <1>9, <1>12, <1>15 DEF ClientOK, Idle
<1>17. \A q \in out : FromClient(d, "open", m, q)
  <2>1. p.ack = d.irs
    BY <1>2, <1>6, <1>9 DEF ClientOK
  <2>2. FromClient(d, "open", m, p)
    BY <1>6, <1>9, <1>12, <1>13, <1>14, <1>16, <2>1 DEF FromClient, Plain
  <2> QED
    BY <1>10, <2>2
<1>18. ASSUME NoReset(net) PROVE Remembers(d, m, Server, Len(Taken))
  <2>1. Remembers(Client, sent, Server, Len(Taken))
    BY <1>1, <1>18, ClientFacts
  <2>2. \A i \in 1 .. m : i \in 1 .. sent \/ i = m
    BY <1>3
  <2>3. p \in d.tx /\ p.data = m /\ Client.tx \subseteq d.tx
    BY <1>6, <1>9
  <2> QED
    BY <1>9, <2>1, <2>2, <2>3 DEF Remembers
<1>19. Answered
  BY <1>1, ClientFacts
<1> QED
  BY <1>1, <1>2, <1>3, <1>9, <1>11, <1>16, <1>17, <1>18, <1>19, ClientStep

(* All that happens at the client, but for its reset.                          *)
LEMMA AtClient ==
    ASSUME Inv, Agreed, Unconfused,
           \/ \E p \in net : NewPacket("client", p)
           \/ Timeouts("client")
           \/ Connect \/ ConnectAgain \/ Connected \/ ConnectFailed
           \/ WaitForWindow \/ SendFails \/ Send
           \/ CloseAtWill("client") \/ CloseAfterError("client")
    PROVE  Agreed'
<1>1. CASE \E p \in net : NewPacket("client", p)
  BY <1>1, ClientNewPacket
<1>2. CASE Timeouts("client")
  BY <1>2, ClientExpire, ClientMaintain DEF Timeouts
<1>3. CASE Connect
  <2>1. Idle(Client, user["client"]) /\ user["client"] = "start"
    BY <1>3 DEF Connect, Idle
  <2> QED
    BY <1>3, <2>1, ClientConnects DEF Connect
<1>4. CASE ConnectAgain
  <2>1. Idle(Client, user["client"]) /\ user["client"] = "connecting"
    BY <1>4 DEF ConnectAgain, Idle, Client
  <2> QED
    BY <1>4, <2>1, ClientConnects DEF ConnectAgain
<1>5. CASE Connected
  <2>1. user["client"] # "start" /\ Client.state # "SYN_SENT"
    BY <1>5 DEF Connected, Client
  <2> QED
    BY <1>5, <2>1, ClientGoesOn DEF Connected
<1>6. CASE WaitForWindow
  <2>1. user["client"] # "start" /\ Client.state # "SYN_SENT"
    BY <1>6 DEF WaitForWindow, Client
  <2> QED
    BY <1>6, <2>1, ClientGoesOn DEF WaitForWindow
<1>7. CASE SendFails
  <2>1. user["client"] # "start" /\ Client.state # "SYN_SENT"
    BY <1>7, ClientFacts DEF SendFails
  <2> QED
    BY <1>7, <2>1, ClientGoesOn DEF SendFails
<1>8. CASE ConnectFailed \/ Send \/ CloseAtWill("client") \/ CloseAfterError("client")
  BY <1>8, ClientConnectFails, ClientSends, ClientUserCloses
<1> QED
  BY <1>1, <1>2, <1>3, <1>4, <1>5, <1>6, <1>7, <1>8

-----------------------------------------------------------------------------
(* The start, and a reset of the client's board: nothing is sent yet.          *)
LEMMA FreshClient ==
    ASSUME NEW c, c.state = "CLOSED", c.cur = c.irs, c.lsa = c.cur, c.tx = {}
    PROVE  ClientOK(c, "start", 0)
BY DEF ClientOK

LEMMA AgreedInit == Init => Agreed
<1> SUFFICES ASSUME Init PROVE Agreed
  OBVIOUS
<1>1. "client" \in Ends /\ "server" \in Ends
  BY DEF Ends
<1>2. /\ Client = Fresh /\ Server = Fresh /\ user["client"] = "start"
      /\ net = {} /\ sent = 0 /\ got = <<>>
  BY <1>1 DEF Init, Client, Server
<1>3. /\ Fresh.state = "CLOSED" /\ Fresh.cur = Fresh.irs /\ Fresh.lsa = Fresh.cur
      /\ Fresh.tx = {} /\ Fresh.rxq = <<>>
  BY DEF Fresh
<1>4. ClientPart
  BY <1>2, <1>3, FreshClient DEF ClientPart
<1>5. Len(Taken) = 0
  <2>1. Taken = With(<<>>)
    BY <1>2, <1>3 DEF Taken, With, Server
  <2>2. got \o <<>> = <<>> /\ <<>> \in Seq(0 .. MaxData) /\ Len(<<>>) = 0
    BY <1>2, EmptySeq, ConcatEmptySeq
  <2> QED
    BY <2>1, <2>2, DataFacts DEF With
<1>6. ServerPart
  BY <1>2, <1>3, <1>5 DEF ServerPart, ServerOK, Live, Ordered
<1>7. NetPart /\ OpenPart /\ MemoryPart
  BY <1>2, <1>3 DEF NetPart, OpenPart, MemoryPart
<1> QED
  BY <1>4, <1>6, <1>7 DEF Agreed

LEMMA AgreedRestart ==
    ASSUME Inv, Agreed, Restart
    PROVE  Agreed'
<1>1. PICK d : d = [Fresh EXCEPT !.iss = conn["client"].iss]
  OBVIOUS
<1>2. Client' = d /\ Server' = Server /\ Taken' = Taken
  BY <1>1, BothEnds DEF Restart, Client, Server, Taken
<1>3. user'["client"] = "start" /\ net' = {} /\ sent' = 0
  BY BothEnds DEF Restart
<1>4. d.state = "CLOSED" /\ d.cur = d.irs /\ d.lsa = d.cur /\ d.tx = {}
  BY <1>1 DEF Fresh
<1>5. ClientPart'
  <2>1. ClientOK(d, "start", 0)
    BY <1>4, FreshClient
  <2> QED
    BY <1>2, <1>3, <2>1 DEF ClientPart, ClientOK, Idle, Queued, Numbered
<1>6. ServerPart'
  BY <1>2 DEF Agreed, ServerPart, ServerOK, Live, Ordered
<1>7. NetPart' /\ OpenPart' /\ MemoryPart'
  BY <1>2, <1>3, <1>4 DEF NetPart, OpenPart, Answered, MemoryPart
<1> QED
  BY <1>5, <1>6, <1>7 DEF Agreed

LEMMA AgreedStutter ==
    ASSUME Agreed, UNCHANGED vars
    PROVE  Agreed'
<1>1. /\ Client' = Client /\ Server' = Server /\ Taken' = Taken
      /\ user' = user /\ net' = net /\ sent' = sent
  BY DEF vars, Client, Server, Taken
<1>2. ClientPart' /\ NetPart'
  BY <1>1 DEF Agreed, ClientPart, ClientOK, Idle, Queued, Numbered, NetPart, FromClient
<1>3. ServerPart'
  BY <1>1 DEF Agreed, ServerPart, ServerOK, Live, Ordered
<1>4. OpenPart'
  BY <1>1 DEF Agreed, OpenPart, Answered, Idle
<1>5. MemoryPart'
  BY <1>1 DEF Agreed, MemoryPart, NoReset, Honest, Remembers, Here, Live
<1> QED
  BY <1>2, <1>3, <1>4, <1>5 DEF Agreed

LEMMA AgreedStep == Inv /\ Agreed /\ Roomy /\ Unconfused /\ [Next]_vars => Agreed'
<1> SUFFICES ASSUME Inv, Agreed, Roomy, Unconfused, [Next]_vars PROVE Agreed'
  OBVIOUS
<1>1. \A e \in Ends : e = "client" \/ e = "server"
  BY DEF Ends
<1>2. CASE \E p \in net : NewPacket(p.to, p)
  <2>1. PICK p \in net : NewPacket(p.to, p)
    BY <1>2
  <2>2. p.to = "client" \/ p.to = "server"
    BY <1>1 DEF Inv, WorkOK, Packet
  <2>3. CASE p.to = "client"
    BY <2>1, <2>3, AtClient
  <2>4. CASE p.to = "server"
    BY <2>1, <2>4, AtServer
  <2> QED
    BY <2>2, <2>3, <2>4
<1>3. CASE \E e \in Ends : Timeouts(e)
  <2>1. Timeouts("client") \/ Timeouts("server")
    BY <1>1, <1>3
  <2> QED
    BY <2>1, AtClient, AtServer
<1>4. CASE \/ Connect \/ ConnectAgain \/ Connected \/ ConnectFailed
           \/ WaitForWindow \/ SendFails \/ Send
  BY <1>4, AtClient
<1>5. CASE Accept \/ (\E early \in BOOLEAN : Read(early))
  BY <1>5, AtServer
<1>6. CASE \E e \in Ends : CloseAtWill(e) \/ CloseAfterError(e)
  <2>1. PICK e \in Ends : CloseAtWill(e) \/ CloseAfterError(e)
    BY <1>6
  <2>2. CASE e = "client"
    BY <2>1, <2>2, AtClient
  <2>3. CASE e = "server"
    BY <2>1, <2>3, AtServer
  <2> QED
    BY <1>1, <2>2, <2>3
<1>7. CASE Restart
  BY <1>7, AgreedRestart
<1>8. CASE UNCHANGED vars
  BY <1>8, AgreedStutter
<1> QED
  BY <1>2, <1>3, <1>4, <1>5, <1>6, <1>7, <1>8 DEF Next, User

LEMMA AlwaysAgreed == Spec /\ [](Roomy /\ Unconfused) => [](Inv /\ Agreed)
<1>1. Inv /\ Agreed /\ (Roomy /\ Unconfused) /\ [Next]_vars => (Inv /\ Agreed)'
  BY InvStep, AgreedStep
<1>2. Init => Inv /\ Agreed
  BY InitOK, AgreedInit
<1> QED
  BY <1>1, <1>2, PTL DEF Spec

(* While the reader keeps up with what is held, and the numbers of a connection *)
(* tell its packets from those of the last one, csp_read gives the server what  *)
(* the client sent, in order, nothing missing and nothing twice, whatever the   *)
(* network loses, repeats or reorders and whenever the client is reset.         *)
THEOREM DeliveryIsOrderly == Spec /\ [](Roomy /\ Unconfused) => []OrderlyDelivery
<1>1. Inv /\ Agreed => OrderlyDelivery
  <2> SUFFICES ASSUME Inv, Agreed PROVE OrderlyDelivery
    OBVIOUS
  <2>1. DOMAIN Taken = 1 .. Len(Taken)
    BY TakenFacts, LenProperties
  <2>2. Ordered(Taken)
    BY DEF Agreed, ServerPart, ServerOK
  <2> QED
    BY <2>1, <2>2 DEF Ordered, OrderlyDelivery
<1> QED
  BY <1>1, AlwaysAgreed, PTL

(* Under the same conditions two ends that are both open have each other's       *)
(* initial numbers.  A client that was reset and connects again may open on the  *)
(* SYN/ACK of the connection it had before, as csp_rdp_new_packet does not look  *)
(* at the number it acknowledges in RDP_SYN_SENT; but the server is half open    *)
(* then, and what this client sends does not open it.                           *)
THEOREM OpenEndsMatch == Spec /\ [](Roomy /\ Unconfused) => []OpenToEachOther
<1>1. Agreed => OpenToEachOther
  BY DEF Agreed, OpenPart, OpenToEachOther, SameConnection, Client, Server
<1> QED
  BY <1>1, AlwaysAgreed, PTL

(* Under the same conditions a packet leaves the client's tx_queue, flushed by   *)
(* an acknowledgement or an EACK, only when the server has taken it or holds it. *)
THEOREM NothingIsForgotten == Spec /\ [](Roomy /\ Unconfused) => []NothingForgotten
<1>1. Inv /\ Agreed => NothingForgotten
  <2> SUFFICES ASSUME Inv, Agreed, SameConnection, \A p \in net : "RST" \notin p.flags,
                      NEW d \in 1 .. sent
               PROVE  \/ \E q \in conn["client"].tx \union conn["server"].held : q.data = d
                      \/ d <= Len(Taken)
    BY DEF NothingForgotten
  <2>1. Client.state = "OPEN" /\ Server.irs = Client.iss /\ NoReset(net)
    BY DEF SameConnection, Client, Server, NoReset
  <2>2. Remembers(Client, sent, Server, Len(Taken))
    BY <2>1, ClientFacts
  <2> QED
    BY <2>1, <2>2 DEF Remembers, Client, Server
<1> QED
  BY <1>1, AlwaysAgreed, PTL

=============================================================================
