--------------------------- MODULE TcpServerProofs ---------------------------
(***************************************************************************)
(* The connection table and the framing of tcp_server.c, for any slots,    *)
(* connections, buffer size and cuts of the stream: the owner gets exactly *)
(* the client's lines.                                                     *)
(***************************************************************************)
EXTENDS TcpServer, SequenceTheorems, WellFoundedInduction, TLAPS

----------------------------------------------------------------------------
(* Induction and iteration *)

\* A set that has 0 and with every number its successor, up to n, has all of them.
LEMMA CountUp ==
    ASSUME NEW n \in Nat, NEW T, 0 \in T, \A k \in 0..(n - 1) : k \in T => k + 1 \in T
    PROVE  0..n \subseteq T
  <1> SUFFICES ASSUME ~(0..n \subseteq T) PROVE FALSE
    OBVIOUS
  <1>1. PICK M : M = {k \in 0..n : k \notin T}
    OBVIOUS
  <1>2. M \subseteq Nat /\ M # {}
    BY <1>1
  <1>3. PICK R : R = OpToRel(<, Nat)
    OBVIOUS
  <1>3a. IsWellFoundedOn(R, Nat)
    BY <1>3, NatLessThanWellFounded, Zenon
  <1>4. PICK x \in M : \A y \in M : ~(<<y, x>> \in R)
    BY <1>2, <1>3a, WFMin
  <1>5. \A a, b \in Nat : <<b, a>> \in R <=> b < a
    BY <1>3 DEF OpToRel
  <1>6. \A y \in M : ~(y < x)
    BY <1>2, <1>4, <1>5, Zenon
  <1>7. x \in 0..n /\ x \notin T /\ x # 0
    BY <1>1
  <1>8. x - 1 \in 0..(n - 1) /\ x - 1 \in 0..n /\ x - 1 < x /\ (x - 1) + 1 = x
    BY <1>7
  <1>9. x - 1 \in T
    BY <1>1, <1>6, <1>8
  <1> QED
    BY <1>7, <1>8, <1>9

\* f lists the values that start goes through under G[1], G[2] and so on.
Iterates(f, n, S, start, G) ==
    f \in [0..n -> S] /\ f[0] = start /\ \A k \in 1..n : f[k] = G[k][f[k - 1]]

\* Functions on a set can be applied one after the other.
LEMMA Iterate ==
    ASSUME NEW n \in Nat, NEW S, NEW start \in S, NEW G \in [1..n -> [S -> S]]
    PROVE  \E f : Iterates(f, n, S, start, G)
  <1> DEFINE P(m) == \E f \in [0..m -> S] : f[0] = start /\ \A k \in 1..m : f[k] = G[k][f[k - 1]]
             T == {m \in 0..n : P(m)}
  <1>1. 0 \in T
    <2>1. PICK f : f = [k \in 0..0 |-> start]
      OBVIOUS
    <2>2. f \in [0..0 -> S] /\ f[0] = start
      BY <2>1
    <2>3. \A k \in 1..0 : FALSE
      OBVIOUS
    <2>4. P(0)
      BY <2>2, <2>3
    <2> QED
      BY <2>4
  <1>2. ASSUME NEW m \in 0..(n - 1), m \in T PROVE m + 1 \in T
    <2>1. PICK f \in [0..m -> S] : f[0] = start /\ \A k \in 1..m : f[k] = G[k][f[k - 1]]
      BY <1>2
    <2>2. m + 1 \in 1..n /\ m + 1 \in 0..n /\ m \in 0..m /\ (m + 1) - 1 = m
      BY <1>2
    <2> DEFINE g == [k \in 0..(m + 1) |-> IF k = m + 1 THEN G[m + 1][f[m]] ELSE f[k]]
    <2>3. G[m + 1][f[m]] \in S
      BY <2>2
    <2>4. \A k \in 0..(m + 1) : k = m + 1 \/ k \in 0..m
      BY <1>2
    <2>5. g \in [0..(m + 1) -> S]
      BY <2>3, <2>4
    <2>6. g[0] = start
      BY <1>2, <2>1
    <2>7. ASSUME NEW k \in 1..(m + 1) PROVE g[k] = G[k][g[k - 1]]
      <3>1. k \in 0..(m + 1) /\ k - 1 \in 0..(m + 1) /\ k - 1 # m + 1
        BY <1>2
      <3>2. CASE k = m + 1
        BY <2>2, <3>1, <3>2
      <3>3. CASE k # m + 1
        <4>1. k \in 1..m
          BY <1>2, <3>3
        <4> QED
          BY <2>1, <3>1, <3>3, <4>1
      <3> QED
        BY <3>2, <3>3
    <2> HIDE DEF g
    <2>8. P(m + 1)
      BY <2>5, <2>6, <2>7
    <2> QED
      BY <2>2, <2>8
  <1> HIDE DEF P
  <1>3. 0..n \subseteq T
    <2> HIDE DEF T
    <2> QED
      BY <1>1, <1>2, CountUp
  <1>4. P(n)
    BY <1>3
  <1> QED
    BY <1>4 DEF P, Iterates

----------------------------------------------------------------------------
(* Framing, byte by byte *)

FrameState == [taken : Seq(Seq(Byte)), rest : Seq(Byte)]
FrameStart == [taken |-> <<>>, rest |-> <<>>]

\* A byte takes a state of the framing to a state.
LEMMA FrameByteTyped ==
    ASSUME NEW st \in FrameState, NEW b \in Byte
    PROVE  FrameByte(st, b) \in FrameState
  <1>1. st.taken \in Seq(Seq(Byte)) /\ st.rest \in Seq(Byte)
    BY DEF FrameState
  <1>2. Append(st.rest, b) \in Seq(Byte) /\ Append(st.taken, st.rest) \in Seq(Seq(Byte)) /\ <<>> \in Seq(Byte)
    BY <1>1
  <1> QED
    BY <1>1, <1>2 DEF FrameByte, FrameState

\* f holds the states of the framing of bytes, byte by byte.
Frames(f, bytes) ==
    /\ f \in [0..Len(bytes) -> FrameState]
    /\ f[0] = FrameStart
    /\ \A k \in 1..Len(bytes) : f[k] = FrameByte(f[k - 1], bytes[k])

\* The states of the framing exist and end in Framing.
LEMMA FramingStates ==
    ASSUME NEW bytes \in Seq(Byte)
    PROVE  \E f : Frames(f, bytes) /\ Framing(bytes) = f[Len(bytes)]
  <1> DEFINE n == Len(bytes)
             Eq(f) == f = [k \in 0..n |-> IF k = 0 THEN FrameStart ELSE FrameByte(f[k - 1], bytes[k])]
             G == [k \in 1..n |-> [st \in FrameState |-> FrameByte(st, bytes[k])]]
  <1>1. n \in Nat /\ \A k \in 1..n : bytes[k] \in Byte
    BY ElementOfSeq, LenProperties
  <1> HIDE DEF n
  <1>2. G \in [1..n -> [FrameState -> FrameState]]
    BY <1>1, FrameByteTyped
  <1>3. FrameStart \in FrameState
    BY DEF FrameStart, FrameState
  <1>4. PICK f \in [0..n -> FrameState] : f[0] = FrameStart /\ \A k \in 1..n : f[k] = G[k][f[k - 1]]
    <2> HIDE DEF G
    <2>1. \E f : Iterates(f, n, FrameState, FrameStart, G)
      BY <1>1, <1>2, <1>3, Iterate, Zenon
    <2> QED
      BY <2>1 DEF Iterates
  <1>5. \A k \in 1..n : k - 1 \in 0..n /\ k # 0
    BY <1>1
  <1>6. \A k \in 1..n : f[k] = FrameByte(f[k - 1], bytes[k])
    BY <1>4, <1>5
  <1>7. Eq(f)
    <2>1. \A k \in 0..n : f[k] = IF k = 0 THEN FrameStart ELSE FrameByte(f[k - 1], bytes[k])
      <3>1. \A k \in 0..n : k = 0 \/ k \in 1..n
        BY <1>1
      <3> QED
        BY <1>4, <1>6, <3>1
    <2> QED
      BY <1>4, <2>1
  <1> DEFINE h == CHOOSE g : Eq(g)
  <1>8. Eq(h)
    BY <1>7
  <1>9. Framing(bytes) = h[n]
    BY DEF Framing, FrameStart, n
  <1> HIDE DEF h
  <1>10. h = f
    <2>1. DOMAIN h = 0..n
      BY <1>8
    <2>2. h[0] = FrameStart /\ \A k \in 1..n : h[k] = FrameByte(h[k - 1], bytes[k])
      <3>1. 0 \in 0..n /\ \A k \in 1..n : k \in 0..n
        BY <1>1
      <3> QED
        BY <1>5, <1>8, <3>1
    <2> DEFINE T == {k \in 0..n : h[k] = f[k]}
    <2>3. 0 \in T
      BY <1>1, <1>4, <2>2
    <2>4. ASSUME NEW k \in 0..(n - 1), k \in T PROVE k + 1 \in T
      <3>1. k + 1 \in 1..n /\ k + 1 \in 0..n /\ (k + 1) - 1 = k
        BY <1>1
      <3> QED
        BY <1>6, <2>2, <2>4, <3>1
    <2>5. 0..n \subseteq T
      <3> HIDE DEF T
      <3> QED
        BY <1>1, <2>3, <2>4, CountUp
    <2>6. \A k \in 0..n : h[k] = f[k]
      BY <2>5
    <2>7. h = [k \in 0..n |-> h[k]]
      BY <1>8
    <2> QED
      BY <1>4, <2>6, <2>7
  <1>11. Frames(f, bytes)
    BY <1>4, <1>6 DEF Frames, n
  <1> QED
    BY <1>9, <1>10, <1>11 DEF n

----------------------------------------------------------------------------
(* The loop over complete lines *)

TurnState == [taken : Seq(Seq(Byte)), rest : Seq(Byte), cut : BOOLEAN]
TurnStart(buf) == [taken |-> <<>>, rest |-> buf, cut |-> FALSE]

\* The lines of a state fit into line[].
LinesFit(ls) == \A k \in DOMAIN ls : Len(ls[k]) < BufferSize

\* strchr finds the first newline.
LEMMA FirstNewlineFound ==
    ASSUME NEW buf \in Seq(Byte), HasNewline(buf)
    PROVE  /\ FirstNewline(buf) \in 1..Len(buf)
           /\ buf[FirstNewline(buf)].nl
           /\ \A j \in 1..(FirstNewline(buf) - 1) : ~buf[j].nl
  <1> DEFINE n == Len(buf)
             First(k) == buf[k].nl /\ \A j \in 1..(k - 1) : ~buf[j].nl
             T == {k \in 0..n : \A j \in 1..k : ~buf[j].nl}
  <1>1. n \in Nat /\ DOMAIN buf = 1..n
    BY LenProperties
  <1>2. PICK x \in 1..n : buf[x].nl
    BY <1>1 DEF HasNewline
  <1> HIDE DEF n
  <1>3. \E k \in 1..n : First(k)
    <2> SUFFICES ASSUME \A k \in 1..n : ~First(k) PROVE FALSE
      OBVIOUS
    <2>1. 0 \in T
      BY <1>1
    <2>2. ASSUME NEW k \in 0..(n - 1), k \in T PROVE k + 1 \in T
      <3>1. k + 1 \in 1..n /\ k + 1 \in 0..n /\ (k + 1) - 1 = k
        BY <1>1
      <3>2. \A j \in 1..k : ~buf[j].nl
        BY <2>2
      <3>3. ~buf[k + 1].nl
        BY <3>1, <3>2
      <3>4. \A j \in 1..(k + 1) : j \in 1..k \/ j = k + 1
        BY <1>1
      <3> QED
        BY <3>1, <3>2, <3>3, <3>4
    <2>3. 0..n \subseteq T
      <3> HIDE DEF T
      <3> QED
        BY <1>1, <2>1, <2>2, CountUp
    <2>4. n \in T
      BY <1>1, <2>3
    <2> QED
      BY <1>1, <1>2, <2>4
  <1>4. FirstNewline(buf) = CHOOSE k \in 1..n : First(k)
    BY <1>1 DEF FirstNewline
  <1> DEFINE p == CHOOSE k \in 1..n : First(k)
  <1>5. p \in 1..n /\ First(p)
    <2> HIDE DEF First
    <2> QED
      BY <1>3
  <1> HIDE DEF p
  <1>6. FirstNewline(buf) = p
    BY <1>4 DEF p
  <1> QED
    BY <1>5, <1>6 DEF n

\* A turn that finds a newline: the line fits, and what is left is shorter.
LEMMA TakeLineTaken ==
    ASSUME NEW st \in TurnState, HasNewline(st.rest)
    PROVE  /\ TakeLine(st) \in TurnState
           /\ Len(TakeLine(st).rest) < Len(st.rest)
           /\ LinesFit(st.taken) => LinesFit(TakeLine(st).taken)
  <1> DEFINE r == st.rest
             p == FirstNewline(r)
             len == LineLen(r)
             line == SubSeq(r, 1, len)
             left == SubSeq(r, len + 2, Len(r))
  <1>1. r \in Seq(Byte) /\ st.taken \in Seq(Seq(Byte)) /\ st.cut \in BOOLEAN
    BY DEF TurnState
  <1>2. p \in 1..Len(r) /\ Len(r) \in Nat
    BY <1>1, FirstNewlineFound, LenProperties
  <1>3. len \in Nat /\ len < BufferSize /\ len + 1 <= p
    BY <1>2, SizeAssumption DEF LineLen
  <1> HIDE DEF r, p, len
  <1>4. line \in Seq(Byte) /\ Len(line) = len
    BY <1>1, <1>2, <1>3, SubSeqProperties
  <1>5. left \in Seq(Byte) /\ Len(left) < Len(r)
    <2>1. left \in Seq(Byte) /\ Len(left) = IF len + 2 <= Len(r) THEN Len(r) - (len + 2) + 1 ELSE 0
      BY <1>1, <1>2, <1>3, SubSeqProperties
    <2> QED
      BY <1>2, <1>3, <2>1
  <1> HIDE DEF line, left
  <1>6. Append(st.taken, line) \in Seq(Seq(Byte))
    BY <1>1, <1>4
  <1>7. TakeLine(st) = [taken |-> IF len > 0 THEN Append(st.taken, line) ELSE st.taken,
                        rest |-> left, cut |-> st.cut \/ p > BufferSize]
    BY DEF TakeLine, r, p, len, line, left
  <1>8. TakeLine(st) \in TurnState
    BY <1>1, <1>5, <1>6, <1>7 DEF TurnState
  <1>9. Len(TakeLine(st).rest) < Len(st.rest)
    BY <1>5, <1>7 DEF r
  <1>10. ASSUME LinesFit(st.taken) PROVE LinesFit(TakeLine(st).taken)
    <2>1. LinesFit(Append(st.taken, line))
      <3>1. ASSUME NEW k \in DOMAIN Append(st.taken, line)
            PROVE  Len(Append(st.taken, line)[k]) < BufferSize
        <4>1. Len(st.taken) \in Nat /\ DOMAIN st.taken = 1..Len(st.taken)
          BY <1>1, LenProperties
        <4>2. k \in 1..(Len(st.taken) + 1)
          BY <1>1, <1>4, AppendProperties, <3>1, LenProperties
        <4>3. CASE k = Len(st.taken) + 1
          BY <1>1, <1>3, <1>4, <4>3, AppendProperties
        <4>4. CASE k # Len(st.taken) + 1
          <5>1. k \in 1..Len(st.taken)
            BY <4>1, <4>2, <4>4
          <5>2. Append(st.taken, line)[k] = st.taken[k]
            BY <1>1, <1>4, <5>1, AppendProperties
          <5> QED
            BY <1>10, <4>1, <5>1, <5>2 DEF LinesFit
        <4> QED
          BY <4>3, <4>4
      <3> QED
        BY <3>1 DEF LinesFit
    <2> QED
      BY <1>7, <1>10, <2>1
  <1> QED
    BY <1>8, <1>9, <1>10

\* A turn of the loop takes a state to a state.
LEMMA TurnTyped ==
    ASSUME NEW st \in TurnState
    PROVE  Turn(st) \in TurnState
  BY TakeLineTaken DEF Turn

\* f holds the states of the loop over buf, turn by turn.
Turns(f, buf) ==
    /\ f \in [0..Len(buf) -> TurnState]
    /\ f[0] = TurnStart(buf)
    /\ \A k \in 1..Len(buf) : f[k] = Turn(f[k - 1])

\* The states of the loop exist and end in Drain.
LEMMA DrainStates ==
    ASSUME NEW buf \in Seq(Byte)
    PROVE  \E f : Turns(f, buf) /\ Drain(buf) = f[Len(buf)]
  <1> DEFINE n == Len(buf)
             Eq(f) == f = [k \in 0..n |-> IF k = 0 THEN TurnStart(buf) ELSE Turn(f[k - 1])]
             G == [k \in 1..n |-> [st \in TurnState |-> Turn(st)]]
  <1>1. n \in Nat
    BY LenProperties
  <1> HIDE DEF n
  <1>2. G \in [1..n -> [TurnState -> TurnState]]
    BY <1>1, TurnTyped
  <1>3. TurnStart(buf) \in TurnState
    BY DEF TurnStart, TurnState
  <1>4. PICK f \in [0..n -> TurnState] : f[0] = TurnStart(buf) /\ \A k \in 1..n : f[k] = G[k][f[k - 1]]
    <2> HIDE DEF G
    <2>1. \E f : Iterates(f, n, TurnState, TurnStart(buf), G)
      BY <1>1, <1>2, <1>3, Iterate, Zenon
    <2> QED
      BY <2>1 DEF Iterates
  <1>5. \A k \in 1..n : k - 1 \in 0..n /\ k # 0
    BY <1>1
  <1>6. \A k \in 1..n : f[k] = Turn(f[k - 1])
    BY <1>4, <1>5
  <1>7. Eq(f)
    <2>1. \A k \in 0..n : f[k] = IF k = 0 THEN TurnStart(buf) ELSE Turn(f[k - 1])
      <3>1. \A k \in 0..n : k = 0 \/ k \in 1..n
        BY <1>1
      <3> QED
        BY <1>4, <1>6, <3>1
    <2> QED
      BY <1>4, <2>1
  <1> DEFINE h == CHOOSE g : Eq(g)
  <1>8. Eq(h)
    BY <1>7
  <1>9. Drain(buf) = h[n]
    BY DEF Drain, TurnStart, n
  <1> HIDE DEF h
  <1>10. h = f
    <2>1. DOMAIN h = 0..n
      BY <1>8
    <2>2. h[0] = TurnStart(buf) /\ \A k \in 1..n : h[k] = Turn(h[k - 1])
      <3>1. 0 \in 0..n /\ \A k \in 1..n : k \in 0..n
        BY <1>1
      <3> QED
        BY <1>5, <1>8, <3>1
    <2> DEFINE T == {k \in 0..n : h[k] = f[k]}
    <2>3. 0 \in T
      BY <1>1, <1>4, <2>2
    <2>4. ASSUME NEW k \in 0..(n - 1), k \in T PROVE k + 1 \in T
      <3>1. k + 1 \in 1..n /\ k + 1 \in 0..n /\ (k + 1) - 1 = k
        BY <1>1
      <3> QED
        BY <1>6, <2>2, <2>4, <3>1
    <2>5. 0..n \subseteq T
      <3> HIDE DEF T
      <3> QED
        BY <1>1, <2>3, <2>4, CountUp
    <2>6. \A k \in 0..n : h[k] = f[k]
      BY <2>5
    <2>7. h = [k \in 0..n |-> h[k]]
      BY <1>8
    <2> QED
      BY <1>4, <2>6, <2>7
  <1>11. Turns(f, buf)
    BY <1>4, <1>6 DEF Turns, n
  <1> QED
    BY <1>9, <1>10, <1>11 DEF n

\* The loop ends without a newline in the buffer, which has not grown; every line fits.
LEMMA Drained ==
    ASSUME NEW buf \in Seq(Byte)
    PROVE  /\ Drain(buf) \in TurnState
           /\ LinesFit(Drain(buf).taken)
           /\ ~HasNewline(Drain(buf).rest)
           /\ Len(Drain(buf).rest) <= Len(buf)
  <1> DEFINE n == Len(buf)
  <1>1. PICK f : Turns(f, buf) /\ Drain(buf) = f[n]
    BY DrainStates
  <1>2. n \in Nat
    BY LenProperties
  <1>3. /\ f \in [0..n -> TurnState]
        /\ f[0] = TurnStart(buf)
        /\ \A k \in 1..n : f[k] = Turn(f[k - 1])
    BY <1>1 DEF Turns
  <1>4. TurnStart(buf).rest = buf /\ TurnStart(buf).taken = <<>>
    BY DEF TurnStart
  <1>5. Len(buf) = n
    OBVIOUS
  <1> HIDE DEF n
  <1> DEFINE Good(k) == /\ LinesFit(f[k].taken)
                        /\ Len(f[k].rest) <= n
                        /\ ~HasNewline(f[k].rest) \/ Len(f[k].rest) <= n - k
             T == {k \in 0..n : Good(k)}
  <1>6. 0 \in T
    BY <1>2, <1>3, <1>4, <1>5 DEF LinesFit
  <1>7. ASSUME NEW k \in 0..(n - 1), k \in T PROVE k + 1 \in T
    <2>1. k + 1 \in 1..n /\ k + 1 \in 0..n /\ k \in 0..n /\ (k + 1) - 1 = k
      BY <1>2
    <2>2. f[k + 1] = Turn(f[k]) /\ f[k] \in TurnState /\ f[k + 1] \in TurnState
      BY <1>3, <2>1
    <2>3. f[k].rest \in Seq(Byte) /\ f[k + 1].rest \in Seq(Byte)
      BY <2>2 DEF TurnState
    <2>4. Len(f[k].rest) \in Nat /\ Len(f[k + 1].rest) \in Nat
      BY <2>3, LenProperties
    <2>5. Good(k)
      BY <1>7
    <2>6. CASE HasNewline(f[k].rest)
      <3>1. /\ Len(f[k + 1].rest) < Len(f[k].rest)
            /\ LinesFit(f[k + 1].taken)
        BY <2>2, <2>5, <2>6, TakeLineTaken DEF Turn
      <3>2. Len(f[k].rest) <= n - k
        BY <2>5, <2>6
      <3>3. Len(f[k + 1].rest) <= n - (k + 1) /\ Len(f[k + 1].rest) <= n
        <4>1. \A a, b \in Nat : a < b /\ b <= n - k => a <= n - (k + 1) /\ a <= n
          BY <1>2, <2>1
        <4> QED
          BY <2>4, <3>1, <3>2, <4>1
      <3> QED
        BY <2>1, <3>1, <3>3
    <2>7. CASE ~HasNewline(f[k].rest)
      <3>1. f[k + 1] = f[k]
        BY <2>2, <2>7 DEF Turn
      <3> QED
        BY <2>1, <2>5, <2>7, <3>1
    <2> QED
      BY <2>6, <2>7
  <1>8. Good(n) /\ f[n] \in TurnState
    <2>1. 0..n \subseteq T
      <3> HIDE DEF T
      <3> QED
        BY <1>2, <1>6, <1>7, CountUp
    <2> QED
      BY <1>2, <1>3, <2>1
  <1>9. ~HasNewline(f[n].rest)
    <2>1. f[n].rest \in Seq(Byte)
      BY <1>8 DEF TurnState
    <2>2. Len(f[n].rest) \in Nat /\ DOMAIN f[n].rest = 1..Len(f[n].rest)
      BY <2>1, LenProperties
    <2>3. CASE Len(f[n].rest) <= n - n
      <3>1. DOMAIN f[n].rest = {}
        BY <1>2, <2>2, <2>3
      <3> QED
        BY <3>1 DEF HasNewline
    <2> QED
      BY <1>8, <2>3
  <1> QED
    BY <1>1, <1>5, <1>8, <1>9

----------------------------------------------------------------------------
(* The framing of a stream that arrives in two parts *)

\* Two framings that agree on the bytes so far agree on their states.
LEMMA FramesPrefix ==
    ASSUME NEW x \in Seq(Byte), NEW y \in Seq(Byte), NEW f, NEW g, Frames(f, x \o y), Frames(g, x)
    PROVE  f[Len(x)] = g[Len(x)]
  <1> DEFINE n == Len(x)
             T == {k \in 0..n : f[k] = g[k]}
  <1>1. n \in Nat /\ Len(y) \in Nat
    BY LenProperties
  <1>2. Len(x \o y) = n + Len(y) /\ \A k \in 1..n : (x \o y)[k] = x[k]
    BY <1>1, ConcatProperties
  <1>3. \A k \in 1..n : k \in 1..Len(x \o y)
    BY <1>1, <1>2
  <1>4. \A k \in 1..n : f[k] = FrameByte(f[k - 1], x[k]) /\ g[k] = FrameByte(g[k - 1], x[k])
    BY <1>2, <1>3 DEF Frames
  <1>5. f[0] = g[0]
    BY DEF Frames
  <1> HIDE DEF n
  <1>6. 0 \in T
    BY <1>1, <1>5
  <1>7. ASSUME NEW k \in 0..(n - 1), k \in T PROVE k + 1 \in T
    <2>1. k + 1 \in 1..n /\ k + 1 \in 0..n /\ (k + 1) - 1 = k
      BY <1>1
    <2> QED
      BY <1>4, <1>7, <2>1
  <1>8. 0..n \subseteq T
    <2> HIDE DEF T
    <2> QED
      BY <1>1, <1>6, <1>7, CountUp
  <1>9. n \in 0..n
    BY <1>1
  <1> QED
    BY <1>8, <1>9 DEF n

\* Without a newline nothing is taken.
LEMMA FramesQuiet ==
    ASSUME NEW r \in Seq(Byte), NEW y \in Seq(Byte), ~HasNewline(r), NEW f, Frames(f, r \o y)
    PROVE  f[Len(r)] = [taken |-> <<>>, rest |-> r]
  <1> DEFINE n == Len(r)
             T == {k \in 0..n : f[k] = [taken |-> <<>>, rest |-> SubSeq(r, 1, k)]}
  <1>1. n \in Nat /\ Len(y) \in Nat /\ DOMAIN r = 1..n
    BY LenProperties
  <1>2. Len(r \o y) = n + Len(y) /\ \A k \in 1..n : (r \o y)[k] = r[k]
    BY <1>1, ConcatProperties
  <1>3. \A k \in 1..n : k \in 1..Len(r \o y)
    BY <1>1, <1>2
  <1>4. \A k \in 1..n : f[k] = FrameByte(f[k - 1], r[k]) /\ ~r[k].nl /\ r[k] \in Byte
    BY <1>1, <1>2, <1>3, ElementOfSeq DEF Frames, HasNewline
  <1>5. f[0] = FrameStart
    BY DEF Frames
  <1>6. SubSeq(r, 1, n) = r
    BY SubSeqFull
  <1>7. \A k \in 1..n : SubSeq(r, 1, k) = Append(SubSeq(r, 1, k - 1), r[k])
    <2>1. ASSUME NEW k \in 1..n PROVE SubSeq(r, 1, k) = Append(SubSeq(r, 1, k - 1), r[k])
      <3>1. 1 \in 1..Len(r) /\ k \in 1..Len(r)
        BY <1>1
      <3>2. SubSeq(r, 1, k) = SubSeq(r, 1, k - 1) \o <<r[k]>>
        BY <3>1, SubSeqRecursiveSecond
      <3>3. \A i \in 1..(k - 1) : r[i] \in Byte
        BY <1>1, <1>4
      <3>4. SubSeq(r, 1, k - 1) \in Seq(Byte)
        BY <1>1, <3>3, SubSeqProperties
      <3> QED
        BY <1>4, <3>2, <3>4, AppendIsConcat
    <2> QED
      BY <2>1
  <1> HIDE DEF n
  <1>8. 0 \in T
    <2>1. SubSeq(r, 1, 0) = <<>>
      BY SubSeqEmpty
    <2> QED
      BY <1>1, <1>5, <2>1 DEF FrameStart
  <1>9. ASSUME NEW k \in 0..(n - 1), k \in T PROVE k + 1 \in T
    <2>1. k + 1 \in 1..n /\ k + 1 \in 0..n /\ (k + 1) - 1 = k
      BY <1>1
    <2>2. f[k + 1] = [taken |-> f[k].taken, rest |-> Append(f[k].rest, r[k + 1])]
      BY <1>4, <2>1 DEF FrameByte
    <2>3. f[k].taken = <<>> /\ f[k].rest = SubSeq(r, 1, k)
      BY <1>9
    <2>4. SubSeq(r, 1, k + 1) = Append(SubSeq(r, 1, k), r[k + 1])
      BY <1>7, <2>1
    <2>5. f[k + 1] = [taken |-> <<>>, rest |-> SubSeq(r, 1, k + 1)]
      BY <2>2, <2>3, <2>4
    <2> QED
      BY <2>1, <2>5
  <1>10. 0..n \subseteq T
    <2> HIDE DEF T
    <2> QED
      BY <1>1, <1>8, <1>9, CountUp
  <1>11. n \in T
    BY <1>1, <1>10
  <1> QED
    BY <1>6, <1>11 DEF n

\* Bytes without a newline are one unfinished line.
LEMMA FramingQuiet ==
    ASSUME NEW r \in Seq(Byte), ~HasNewline(r)
    PROVE  Framing(r) = [taken |-> <<>>, rest |-> r]
  <1>1. PICK f : Frames(f, r) /\ Framing(r) = f[Len(r)]
    BY FramingStates
  <1>2. r \o <<>> = r /\ <<>> \in Seq(Byte)
    BY ConcatEmptySeq, EmptySeq
  <1> QED
    BY <1>1, <1>2, FramesQuiet

\* Framing yields lines and a rest.
LEMMA FramingTyped ==
    ASSUME NEW x \in Seq(Byte)
    PROVE  Framing(x) \in FrameState
  <1>1. PICK f : Frames(f, x) /\ Framing(x) = f[Len(x)]
    BY FramingStates
  <1>2. Len(x) \in 0..Len(x)
    BY LenProperties
  <1> QED
    BY <1>1, <1>2 DEF Frames

\* What the framing holds back has no newline.
LEMMA FramingRestQuiet ==
    ASSUME NEW x \in Seq(Byte)
    PROVE  ~HasNewline(Framing(x).rest)
  <1>1. PICK f : Frames(f, x) /\ Framing(x) = f[Len(x)]
    BY FramingStates
  <1> DEFINE n == Len(x)
             T == {k \in 0..n : ~HasNewline(f[k].rest)}
  <1>2. n \in Nat /\ \A k \in 1..n : x[k] \in Byte
    BY LenProperties, ElementOfSeq
  <1>3. /\ f \in [0..n -> FrameState]
        /\ f[0] = FrameStart
        /\ \A k \in 1..n : f[k] = FrameByte(f[k - 1], x[k])
    BY <1>1 DEF Frames
  <1> HIDE DEF n
  <1>4. ~HasNewline(<<>>)
    BY DEF HasNewline
  <1>5. 0 \in T
    BY <1>2, <1>3, <1>4 DEF FrameStart
  <1>6. ASSUME NEW k \in 0..(n - 1), k \in T PROVE k + 1 \in T
    <2>1. k + 1 \in 1..n /\ k + 1 \in 0..n /\ k \in 0..n /\ (k + 1) - 1 = k
      BY <1>2
    <2>2. f[k + 1] = FrameByte(f[k], x[k + 1]) /\ x[k + 1] \in Byte /\ f[k].rest \in Seq(Byte)
      BY <1>2, <1>3, <2>1 DEF FrameState
    <2>3. ~HasNewline(f[k].rest)
      BY <1>6
    <2>4. CASE x[k + 1].nl
      BY <1>4, <2>1, <2>2, <2>4 DEF FrameByte
    <2>5. CASE ~x[k + 1].nl
      <3> DEFINE q == f[k].rest
                 b == x[k + 1]
      <3>1. f[k + 1].rest = Append(q, b)
        BY <2>2, <2>5 DEF FrameByte
      <3>2. Len(q) \in Nat /\ DOMAIN q = 1..Len(q) /\ DOMAIN Append(q, b) = 1..(Len(q) + 1)
        BY <2>2, LenProperties, AppendProperties
      <3>3. ASSUME NEW i \in 1..(Len(q) + 1) PROVE ~Append(q, b)[i].nl
        <4>1. CASE i = Len(q) + 1
          BY <2>2, <2>5, <4>1, AppendProperties
        <4>2. CASE i # Len(q) + 1
          <5>1. i \in 1..Len(q)
            BY <3>2, <4>2
          <5>2. Append(q, b)[i] = q[i]
            BY <2>2, <5>1, AppendProperties
          <5> QED
            BY <2>3, <3>2, <5>1, <5>2 DEF HasNewline
        <4> QED
          BY <4>1, <4>2
      <3>4. ~HasNewline(Append(q, b))
        BY <3>2, <3>3 DEF HasNewline
      <3> QED
        BY <2>1, <3>1, <3>4
    <2> QED
      BY <2>4, <2>5
  <1>7. 0..n \subseteq T
    <2> HIDE DEF T
    <2> QED
      BY <1>2, <1>5, <1>6, CountUp
  <1>8. n \in T
    BY <1>2, <1>7
  <1> QED
    BY <1>1, <1>8 DEF n

\* Appending to the second of two sequences.
AppendsTo(t, u, e) == Append(t \o u, e) = t \o Append(u, e)

\* Append and concatenation may be exchanged.
LEMMA AppendConcat ==
    ASSUME NEW S, NEW t \in Seq(S), NEW u \in Seq(S), NEW e \in S
    PROVE  AppendsTo(t, u, e)
  <1>1. <<e>> \in Seq(S) /\ t \o u \in Seq(S)
    BY ConcatProperties
  <1>2. Append(u, e) = u \o <<e>> /\ Append(t \o u, e) = (t \o u) \o <<e>>
    BY <1>1, AppendIsConcat
  <1> QED
    BY <1>1, <1>2, ConcatAssociative DEF AppendsTo

\* b is a, after the lines of t.
After(t, a, b) == b.taken = t \o a.taken /\ b.rest = a.rest

\* Lines taken earlier do not matter to the next byte.
LEMMA FrameByteAfter ==
    ASSUME NEW t \in Seq(Seq(Byte)), NEW a \in FrameState, NEW b \in FrameState, After(t, a, b), NEW e \in Byte
    PROVE  After(t, FrameByte(a, e), FrameByte(b, e))
  <1>1. a.taken \in Seq(Seq(Byte)) /\ a.rest \in Seq(Byte)
    BY DEF FrameState
  <1>2. b.taken = t \o a.taken /\ b.rest = a.rest
    BY DEF After
  <1>3. Append(t \o a.taken, a.rest) = t \o Append(a.taken, a.rest)
    <2>1. AppendsTo(t, a.taken, a.rest)
      BY <1>1, AppendConcat
    <2> QED
      BY <2>1 DEF AppendsTo
  <1>4. CASE e.nl
    <2>1. FrameByte(a, e) = [taken |-> IF a.rest = <<>> THEN a.taken ELSE Append(a.taken, a.rest), rest |-> <<>>]
      BY <1>4 DEF FrameByte
    <2>2. FrameByte(b, e) = [taken |-> IF b.rest = <<>> THEN b.taken ELSE Append(b.taken, b.rest), rest |-> <<>>]
      BY <1>4 DEF FrameByte
    <2>3. FrameByte(a, e).rest = <<>> /\ FrameByte(b, e).rest = <<>>
      BY <2>1, <2>2
    <2>4. CASE a.rest = <<>>
      <3>1. FrameByte(a, e).taken = a.taken /\ FrameByte(b, e).taken = b.taken
        BY <1>2, <2>1, <2>2, <2>4
      <3> QED
        BY <1>2, <2>3, <3>1 DEF After
    <2>5. CASE a.rest # <<>>
      <3>1. FrameByte(a, e).taken = Append(a.taken, a.rest) /\ FrameByte(b, e).taken = Append(b.taken, b.rest)
        BY <1>2, <2>1, <2>2, <2>5
      <3> QED
        BY <1>2, <1>3, <2>3, <3>1 DEF After
    <2> QED
      BY <2>4, <2>5
  <1>5. CASE ~e.nl
    BY <1>2, <1>5 DEF FrameByte, After
  <1> QED
    BY <1>4, <1>5

\* The framing of a stream in two parts: the lines of the first part, then those of what it
\* held back together with the second.
LEMMA FramingConcat ==
    ASSUME NEW x \in Seq(Byte), NEW y \in Seq(Byte)
    PROVE  After(Framing(x).taken, Framing(Framing(x).rest \o y), Framing(x \o y))
  <1> DEFINE F == Framing(x)
             r == F.rest
             m == Len(x)
             q == Len(r)
             n == Len(y)
  <1>1. F \in FrameState /\ F.taken \in Seq(Seq(Byte)) /\ r \in Seq(Byte)
    BY FramingTyped DEF FrameState
  <1>2. x \o y \in Seq(Byte) /\ r \o y \in Seq(Byte)
    BY <1>1, ConcatProperties
  <1>3. m \in Nat /\ q \in Nat /\ n \in Nat
    BY <1>1, LenProperties
  <1>4. Len(x \o y) = m + n /\ Len(r \o y) = q + n
    BY <1>1, ConcatProperties
  <1>5. \A k \in 1..n : (x \o y)[m + k] = y[k] /\ (r \o y)[q + k] = y[k] /\ y[k] \in Byte
    <2>1. ASSUME NEW k \in 1..n
          PROVE  (x \o y)[m + k] = y[k] /\ (r \o y)[q + k] = y[k] /\ y[k] \in Byte
      <3>1. /\ m + k \in 1..(m + n) /\ ~(m + k <= m) /\ (m + k) - m = k
            /\ q + k \in 1..(q + n) /\ ~(q + k <= q) /\ (q + k) - q = k
        BY <1>3
      <3>2. (x \o y)[m + k] = y[k]
        BY <3>1, ConcatProperties
      <3>3. (r \o y)[q + k] = y[k]
        BY <1>1, <3>1, ConcatProperties
      <3> QED
        BY <3>2, <3>3, ElementOfSeq
    <2> QED
      BY <2>1
  <1>6. PICK f : Frames(f, x \o y) /\ Framing(x \o y) = f[m + n]
    BY <1>2, <1>4, FramingStates
  <1>7. PICK g : Frames(g, r \o y) /\ Framing(r \o y) = g[q + n]
    BY <1>2, <1>4, FramingStates
  <1>8. f[m] = F
    <2>1. PICK h : Frames(h, x) /\ Framing(x) = h[Len(x)]
      BY FramingStates
    <2> QED
      BY <1>6, <2>1, FramesPrefix
  <1>9. g[q] = [taken |-> <<>>, rest |-> r]
    BY <1>1, <1>7, FramesQuiet, FramingRestQuiet
  <1>10. /\ f \in [0..(m + n) -> FrameState]
         /\ \A k \in 1..(m + n) : f[k] = FrameByte(f[k - 1], (x \o y)[k])
    BY <1>4, <1>6 DEF Frames
  <1>11. /\ g \in [0..(q + n) -> FrameState]
         /\ \A k \in 1..(q + n) : g[k] = FrameByte(g[k - 1], (r \o y)[k])
    BY <1>4, <1>7 DEF Frames
  <1>12. After(F.taken, g[q], f[m])
    BY <1>1, <1>8, <1>9, ConcatEmptySeq DEF After
  <1> DEFINE T == {k \in 0..n : After(F.taken, g[q + k], f[m + k])}
  <1> HIDE DEF F, r, m, q, n
  <1>13. 0 \in T
    <2>1. q + 0 = q /\ m + 0 = m /\ 0 \in 0..n
      BY <1>3
    <2> QED
      BY <1>12, <2>1
  <1>14. ASSUME NEW k \in 0..(n - 1), k \in T PROVE k + 1 \in T
    <2>1. /\ k + 1 \in 1..n /\ k + 1 \in 0..n
          /\ m + (k + 1) \in 1..(m + n) /\ (m + (k + 1)) - 1 = m + k /\ m + k \in 0..(m + n)
          /\ q + (k + 1) \in 1..(q + n) /\ (q + (k + 1)) - 1 = q + k /\ q + k \in 0..(q + n)
      BY <1>3
    <2>2. f[m + (k + 1)] = FrameByte(f[m + k], y[k + 1]) /\ f[m + k] \in FrameState
      BY <1>5, <1>10, <2>1
    <2>3. g[q + (k + 1)] = FrameByte(g[q + k], y[k + 1]) /\ g[q + k] \in FrameState
      BY <1>5, <1>11, <2>1
    <2>4. y[k + 1] \in Byte
      BY <1>5, <2>1
    <2>5. After(F.taken, g[q + k], f[m + k])
      BY <1>14
    <2>6. After(F.taken, g[q + (k + 1)], f[m + (k + 1)])
      BY <1>1, <2>2, <2>3, <2>4, <2>5, FrameByteAfter
    <2> QED
      BY <2>1, <2>6
  <1>15. 0..n \subseteq T
    <2> HIDE DEF T
    <2> QED
      BY <1>3, <1>13, <1>14, CountUp
  <1>16. n \in T
    BY <1>3, <1>15
  <1> QED
    BY <1>6, <1>7, <1>16 DEF F, r

\* The framing of a line and its newline.
LEMMA FramingLine ==
    ASSUME NEW line \in Seq(Byte), ~HasNewline(line), NEW b \in Byte, b.nl
    PROVE  Framing(line \o <<b>>) = [taken |-> IF line = <<>> THEN <<>> ELSE <<line>>, rest |-> <<>>]
  <1> DEFINE z == line \o <<b>>
             n == Len(line)
  <1>1. <<b>> \in Seq(Byte) /\ n \in Nat
    BY LenProperties
  <1>2. z \in Seq(Byte) /\ Len(z) = n + 1 /\ z[n + 1] = b
    BY <1>1, ConcatProperties
  <1>3. PICK f : Frames(f, z) /\ Framing(z) = f[n + 1]
    BY <1>2, FramingStates
  <1>4. f[n] = [taken |-> <<>>, rest |-> line]
    BY <1>1, <1>3, FramesQuiet
  <1>5. f[n + 1] = FrameByte(f[n], b)
    <2>1. n + 1 \in 1..Len(z) /\ (n + 1) - 1 = n
      BY <1>1, <1>2
    <2> QED
      BY <1>2, <1>3, <2>1 DEF Frames
  <1>6. Append(<<>>, line) = <<line>>
    OBVIOUS
  <1> QED
    BY <1>3, <1>4, <1>5, <1>6 DEF FrameByte

----------------------------------------------------------------------------
(* The loop computes the framing *)

Associates(s, t, u) == (s \o t) \o u = s \o (t \o u)

\* Concatenation is associative.
LEMMA Associative ==
    ASSUME NEW S, NEW s \in Seq(S), NEW t \in Seq(S), NEW u \in Seq(S)
    PROVE  Associates(s, t, u)
  BY ConcatAssociative DEF Associates

\* A turn that cuts nothing: the lines taken and the framing of what is left do not change.
LEMMA TakeLineFrames ==
    ASSUME NEW st \in TurnState, NEW B \in FrameState, HasNewline(st.rest), ~TakeLine(st).cut,
           After(st.taken, Framing(st.rest), B)
    PROVE  After(TakeLine(st).taken, Framing(TakeLine(st).rest), B)
  <1> DEFINE r == st.rest
             p == FirstNewline(r)
             line == SubSeq(r, 1, p - 1)
             left == SubSeq(r, p + 1, Len(r))
             x == line \o <<r[p]>>
             L == IF line = <<>> THEN <<>> ELSE <<line>>
  <1>1. r \in Seq(Byte) /\ st.taken \in Seq(Seq(Byte)) /\ st.cut \in BOOLEAN
    BY DEF TurnState
  <1>2. p \in 1..Len(r) /\ Len(r) \in Nat /\ r[p].nl /\ \A j \in 1..(p - 1) : ~r[j].nl
    BY <1>1, FirstNewlineFound, LenProperties
  <1>3. \A j \in 1..Len(r) : r[j] \in Byte
    BY <1>1, ElementOfSeq
  <1>4. TakeLine(st) = [taken |-> IF p - 1 > 0 THEN Append(st.taken, line) ELSE st.taken,
                        rest |-> left, cut |-> st.cut \/ p > BufferSize]
    <2>1. ~(p > BufferSize)
      BY DEF TakeLine
    <2>2. LineLen(r) = p - 1 /\ (p - 1) + 2 = p + 1
      BY <1>2, <2>1, SizeAssumption DEF LineLen
    <2> QED
      BY <2>2 DEF TakeLine
  <1> HIDE DEF r, p
  <1>5. line \in Seq(Byte) /\ Len(line) = p - 1 /\ ~HasNewline(line)
    <2>1. \A j \in 1..(p - 1) : r[j] \in Byte
      BY <1>2, <1>3
    <2>2. p - 1 \in Nat
      BY <1>2
    <2>3. /\ line \in Seq(Byte)
          /\ Len(line) = IF 1 <= p - 1 THEN (p - 1) - 1 + 1 ELSE 0
          /\ \A i \in 1..((p - 1) - 1 + 1) : line[i] = r[1 + i - 1]
      BY <2>1, <2>2, SubSeqProperties
    <2>4. Len(line) = p - 1
      BY <2>2, <2>3
    <2>5. \A i \in 1..(p - 1) : line[i] = r[i]
      BY <2>2, <2>3
    <2>6. DOMAIN line = 1..(p - 1)
      BY <2>3, <2>4, LenProperties
    <2> QED
      BY <1>2, <2>3, <2>4, <2>5, <2>6 DEF HasNewline
  <1>6. left \in Seq(Byte)
    BY <1>1, <1>2, <1>3, SubSeqProperties
  <1>7. x \in Seq(Byte) /\ r = x \o left
    <2>1. SubSeq(r, 1, p) = x
      <3>1. 1 \in 1..Len(r)
        BY <1>2
      <3> QED
        BY <1>1, <1>2, <3>1, SubSeqRecursiveSecond
    <2>2. r = SubSeq(r, 1, p) \o left
      <3>1. SubSeq(r, 1, p) \o SubSeq(r, p + 1, Len(r)) = SubSeq(r, 1, Len(r))
        BY <1>1, <1>2, ConcatAdjacentSubSeq
      <3>2. SubSeq(r, 1, Len(r)) = r
        BY <1>1, SubSeqFull
      <3> QED
        BY <3>1, <3>2
    <2>3. <<r[p]>> \in Seq(Byte)
      BY <1>2, <1>3
    <2>4. x \in Seq(Byte)
      BY <1>5, <2>3, ConcatProperties
    <2> QED
      BY <2>1, <2>2, <2>4
  <1> HIDE DEF left, line
  <1>8. Framing(x) = [taken |-> L, rest |-> <<>>]
    BY <1>2, <1>3, <1>5, FramingLine
  <1> HIDE DEF x
  <1>9. After(L, Framing(left), Framing(r))
    <2>1. After(Framing(x).taken, Framing(Framing(x).rest \o left), Framing(x \o left))
      BY <1>6, <1>7, FramingConcat
    <2>2. <<>> \o left = left
      BY <1>6, ConcatEmptySeq
    <2> HIDE DEF L
    <2>3. Framing(x).taken = L /\ Framing(x).rest = <<>>
      BY <1>8
    <2> QED
      BY <1>7, <2>1, <2>2, <2>3
  <1>10. L \in Seq(Seq(Byte))
    BY <1>5
  <1>11. TakeLine(st).taken = st.taken \o L /\ TakeLine(st).rest = left
    <2>1. CASE line = <<>>
      <3>1. ~(p - 1 > 0)
        BY <1>5, <2>1
      <3> QED
        BY <1>1, <1>4, <2>1, <3>1, ConcatEmptySeq
    <2>2. CASE line # <<>>
      <3>1. p - 1 > 0
        BY <1>2, <1>5, <2>2, EmptySeq
      <3>2. Append(st.taken, line) = st.taken \o <<line>>
        BY <1>1, <1>5, AppendIsConcat
      <3> QED
        BY <1>4, <2>2, <3>1, <3>2
    <2> QED
      BY <2>1, <2>2
  <1> HIDE DEF L
  <1>12. Framing(left).taken \in Seq(Seq(Byte))
    BY <1>6, FramingTyped DEF FrameState
  <1>13. Associates(st.taken, L, Framing(left).taken)
    BY <1>1, <1>10, <1>12, Associative
  <1>14. B.taken = st.taken \o Framing(r).taken /\ B.rest = Framing(r).rest
    BY DEF After, r
  <1>15. Framing(r).taken = L \o Framing(left).taken /\ Framing(r).rest = Framing(left).rest
    BY <1>9 DEF After
  <1> QED
    BY <1>11, <1>13, <1>14, <1>15 DEF After, Associates

\* Unless it cuts a line, the loop takes the lines of the framing and leaves its rest.
LEMMA DrainFrames ==
    ASSUME NEW buf \in Seq(Byte), ~Drain(buf).cut
    PROVE  Drain(buf).taken = Framing(buf).taken /\ Drain(buf).rest = Framing(buf).rest
  <1> DEFINE n == Len(buf)
             B == Framing(buf)
  <1>1. PICK f : Turns(f, buf) /\ Drain(buf) = f[n]
    BY DrainStates
  <1>2. n \in Nat /\ B \in FrameState
    BY LenProperties, FramingTyped
  <1>3. /\ f \in [0..n -> TurnState]
        /\ f[0] = TurnStart(buf)
        /\ \A k \in 1..n : f[k] = Turn(f[k - 1])
    BY <1>1 DEF Turns
  <1>4. f[0].rest = buf /\ f[0].taken = <<>>
    BY <1>3 DEF TurnStart
  <1>5. After(f[0].taken, Framing(f[0].rest), B)
    <2>1. B.taken \in Seq(Seq(Byte))
      BY <1>2 DEF FrameState
    <2>2. <<>> \o B.taken = B.taken
      BY <2>1, ConcatEmptySeq
    <2> QED
      BY <1>4, <2>2 DEF After
  <1> DEFINE Good(k) == f[k].cut \/ After(f[k].taken, Framing(f[k].rest), B)
             T == {k \in 0..n : Good(k)}
  <1> HIDE DEF n, B
  <1>6. 0 \in T
    BY <1>2, <1>5
  <1>7. ASSUME NEW k \in 0..(n - 1), k \in T PROVE k + 1 \in T
    <2>1. k + 1 \in 1..n /\ k + 1 \in 0..n /\ k \in 0..n /\ (k + 1) - 1 = k
      BY <1>2
    <2>2. f[k + 1] = Turn(f[k]) /\ f[k] \in TurnState
      BY <1>3, <2>1
    <2>3. Good(k)
      BY <1>7
    <2>4. CASE HasNewline(f[k].rest)
      <3>1. f[k + 1] = TakeLine(f[k])
        BY <2>2, <2>4 DEF Turn
      <3>2. f[k].cut => f[k + 1].cut
        <4>1. f[k + 1].cut = (f[k].cut \/ FirstNewline(f[k].rest) > BufferSize)
          BY <3>1 DEF TakeLine
        <4> QED
          BY <4>1, Zenon
      <3>3. ASSUME ~f[k + 1].cut PROVE After(f[k + 1].taken, Framing(f[k + 1].rest), B)
        BY <1>2, <2>2, <2>3, <2>4, <3>1, <3>2, <3>3, TakeLineFrames
      <3> QED
        BY <2>1, <3>3
    <2>5. CASE ~HasNewline(f[k].rest)
      BY <2>1, <2>2, <2>3, <2>5 DEF Turn
    <2> QED
      BY <2>4, <2>5
  <1>8. Good(n)
    <2>1. 0..n \subseteq T
      <3> HIDE DEF T
      <3> QED
        BY <1>2, <1>6, <1>7, CountUp
    <2> QED
      BY <1>2, <2>1
  <1>9. After(f[n].taken, Framing(f[n].rest), B)
    BY <1>1, <1>8
  <1>10. /\ f[n] \in TurnState /\ ~HasNewline(f[n].rest)
         /\ f[n].rest \in Seq(Byte) /\ f[n].taken \in Seq(Seq(Byte))
    BY <1>1, Drained DEF TurnState
  <1>11. Framing(f[n].rest) = [taken |-> <<>>, rest |-> f[n].rest]
    BY <1>10, FramingQuiet
  <1>12. f[n].taken \o <<>> = f[n].taken
    BY <1>10, ConcatEmptySeq
  <1>13. B.taken = f[n].taken \o Framing(f[n].rest).taken /\ B.rest = Framing(f[n].rest).rest
    BY <1>9 DEF After
  <1>14. B.taken = f[n].taken /\ B.rest = f[n].rest
    BY <1>11, <1>12, <1>13
  <1> QED
    BY <1>1, <1>14 DEF B

----------------------------------------------------------------------------
(* What the actions do to the table *)

\* What Free and Connected say of the slots.
LEMMA TableFacts ==
    /\ \A s : s \in Slot \ Free <=> s \in Slot /\ client_socks[s] # NoConn
    /\ \A s \in Slot : s \in Free <=> client_socks[s] = NoConn
    /\ \A c : c \in Connected <=> \E s \in Slot : client_socks[s] # NoConn /\ client_socks[s] = c
  BY DEF Free, Connected

\* The same after a step.
LEMMA TableFactsPrimed ==
    /\ \A s : s \in Slot \ Free' <=> s \in Slot /\ client_socks'[s] # NoConn
    /\ \A s \in Slot : s \in Free' <=> client_socks'[s] = NoConn
    /\ \A c : c \in Connected' <=> \E s \in Slot : client_socks'[s] # NoConn /\ client_socks'[s] = c
  BY DEF Free, Connected

\* chunk is read from slot s, after is where the loop ends, drop says that the bytes held were dropped.
ReadAs(s, chunk, after, drop) ==
    /\ recv_buf' = [recv_buf EXCEPT ![s] = after.rest]
    /\ read' = [read EXCEPT ![client_socks[s]] = @ \o chunk]
    /\ lines' = [lines EXCEPT ![client_socks[s]] = @ \o after.taken]
    /\ intact' = [intact EXCEPT ![client_socks[s]] = @ /\ ~drop /\ ~after.cut]
    /\ LinesFit(after.taken)
    /\ Len(after.rest) < 2 * BufferSize
    /\ ~drop /\ ~after.cut =>
          /\ after.taken = Framing(recv_buf[s] \o chunk).taken
          /\ after.rest = Framing(recv_buf[s] \o chunk).rest

\* A chunk, with the bytes' positions, is appended to what was read; the loop then runs over
\* the buffer with the chunk, or over the chunk alone.
LEMMA ReadFacts ==
    ASSUME TcpTypeOK, NEW s \in Slot, NEW flags \in Chunks, ReadData(s, flags)
    PROVE  /\ client_socks[s] \in Conn
           /\ \E chunk \in Seq(Byte), after \in TurnState, drop \in BOOLEAN : ReadAs(s, chunk, after, drop)
  <1> DEFINE c     == client_socks[s]
             chunk == [k \in DOMAIN flags |-> [from |-> c, at |-> Len(read[c]) + k, nl |-> flags[k]]]
             drop  == Overflows(Len(recv_buf[s]), Len(flags))
             base  == IF drop THEN <<>> ELSE recv_buf[s]
             after == Drain(base \o chunk)
  <1>1. c \in Conn
    BY TableFacts DEF TcpTypeOK, ReadData
  <1>2. read[c] \in Seq(Byte) /\ recv_buf[s] \in Seq(Byte)
    BY <1>1 DEF TcpTypeOK
  <1>3. Len(read[c]) \in Nat /\ Len(recv_buf[s]) \in Nat
    BY <1>2, LenProperties
  <1>4. PICK n \in 1..(BufferSize - 1) : flags \in [1..n -> BOOLEAN]
    BY DEF Chunks
  <1>5. n \in Nat /\ DOMAIN flags = 1..n /\ Len(flags) = n
    <2>1. n \in Nat /\ DOMAIN flags = 1..n
      BY <1>4, SizeAssumption
    <2>2. flags \in Seq(BOOLEAN)
      BY <1>4, <2>1, SeqDef
    <2> QED
      BY <1>4, <2>1, <2>2, LenProperties
  <1>6. chunk \in Seq(Byte) /\ Len(chunk) = n
    <2>1. \A k \in 1..n : [from |-> c, at |-> Len(read[c]) + k, nl |-> flags[k]] \in Byte
      BY <1>1, <1>3, <1>4, <1>5 DEF Byte
    <2>2. chunk \in [1..n -> Byte]
      BY <1>5, <2>1
    <2> HIDE DEF chunk
    <2>3. chunk \in Seq(Byte)
      BY <1>5, <2>2, SeqDef
    <2> QED
      BY <1>5, <2>2, <2>3, LenProperties
  <1>7. drop \in BOOLEAN /\ (drop <=> Len(recv_buf[s]) + n >= 2 * BufferSize)
    BY <1>5 DEF Overflows
  <1>8. /\ recv_buf' = [recv_buf EXCEPT ![s] = after.rest]
        /\ read' = [read EXCEPT ![c] = @ \o chunk]
        /\ lines' = [lines EXCEPT ![c] = @ \o after.taken]
        /\ intact' = [intact EXCEPT ![c] = @ /\ ~drop /\ ~after.cut]
    BY DEF ReadData
  <1> HIDE DEF chunk, drop, c
  <1>9. base \in Seq(Byte) /\ Len(base) = IF drop THEN 0 ELSE Len(recv_buf[s])
    BY <1>2, EmptySeq
  <1>10. base \o chunk \in Seq(Byte) /\ Len(base \o chunk) = Len(base) + n
    BY <1>6, <1>9, ConcatProperties
  <1>11. Len(base \o chunk) < 2 * BufferSize
    BY <1>3, <1>4, <1>5, <1>7, <1>9, <1>10, SizeAssumption
  <1>12. ~drop => base = recv_buf[s]
    OBVIOUS
  <1>13. after \in TurnState /\ LinesFit(after.taken) /\ Len(after.rest) <= Len(base \o chunk)
    BY <1>10, Drained
  <1>14. Len(after.rest) \in Nat /\ Len(base \o chunk) \in Nat
    BY <1>10, <1>13, LenProperties DEF TurnState
  <1>15. Len(after.rest) < 2 * BufferSize
    BY <1>11, <1>13, <1>14, SizeAssumption
  <1>16. ~drop /\ ~after.cut => /\ after.taken = Framing(recv_buf[s] \o chunk).taken
                                /\ after.rest = Framing(recv_buf[s] \o chunk).rest
    <2> HIDE DEF base
    <2> QED
      BY <1>10, <1>12, DrainFrames
  <1>17. ReadAs(s, chunk, after, drop)
    <2> HIDE DEF after
    <2> QED
      BY <1>8, <1>13, <1>15, <1>16 DEF ReadAs, c
  <1> HIDE DEF after
  <1> QED
    BY <1>1, <1>6, <1>7, <1>13, <1>17 DEF c

----------------------------------------------------------------------------
(* The inductive invariant *)

\* Every step keeps the types.
LEMMA TypeStep ==
    ASSUME TcpTypeOK, [TcpNext]_tcpVars
    PROVE  TcpTypeOK'
  <1> USE DEF TcpTypeOK
  <1>1. ASSUME NEW c \in Conn, NEW s \in Slot, Accept(c, s) PROVE TcpTypeOK'
    BY <1>1 DEF Accept
  <1>2. ASSUME NEW c \in Conn, Reject(c) PROVE TcpTypeOK'
    BY <1>2 DEF Reject, tcpVars, serverVars
  <1>3. ASSUME NEW s \in Slot, NEW flags \in Chunks, ReadData(s, flags) PROVE TcpTypeOK'
    <2>1. PICK chunk \in Seq(Byte), after \in TurnState, drop \in BOOLEAN : ReadAs(s, chunk, after, drop)
      <3> HIDE DEF TcpTypeOK
      <3> QED
        BY <1>3, ReadFacts
    <2>2. after.rest \in Seq(Byte) /\ after.taken \in Seq(Seq(Byte)) /\ after.cut \in BOOLEAN
      BY DEF TurnState
    <2>3. client_socks[s] \in Conn
      <3> HIDE DEF TcpTypeOK
      <3> QED
        BY <1>3, ReadFacts
    <2>4. PICK c \in Conn : c = client_socks[s]
      BY <2>3
    <2>5. read[c] \o chunk \in Seq(Byte) /\ lines[c] \o after.taken \in Seq(Seq(Byte))
      <3>1. read[c] \in Seq(Byte) /\ lines[c] \in Seq(Seq(Byte))
        OBVIOUS
      <3> QED
        BY <2>2, <3>1, ConcatProperties
    <2>6. recv_buf' \in [Slot -> Seq(Byte)]
      BY <2>1, <2>2 DEF ReadAs
    <2>7. read' \in [Conn -> Seq(Byte)] /\ lines' \in [Conn -> Seq(Seq(Byte))]
      BY <2>1, <2>4, <2>5 DEF ReadAs
    <2>8. intact' \in [Conn -> BOOLEAN]
      BY <2>1 DEF ReadAs
    <2> QED
      BY <1>3, <2>6, <2>7, <2>8 DEF ReadData
  <1>4. ASSUME NEW s \in Slot, CallOwner(s) PROVE TcpTypeOK'
    BY <1>4 DEF CallOwner
  <1>5. ASSUME NEW s \in Slot, OwnerReturns(s) PROVE TcpTypeOK'
    BY <1>5 DEF OwnerReturns, TellOwner, Forget
  <1>6. ASSUME NEW s \in Slot, OwnerDisconnects(s) PROVE TcpTypeOK'
    BY <1>6 DEF OwnerDisconnects, TellOwner
  <1>7. ASSUME NEW s \in Slot, ReadError(s) PROVE TcpTypeOK'
    BY <1>7 DEF ReadError, Forget
  <1>8. CASE tcp_server_cleanup
    <2>1. read' \in [Conn -> Seq(Byte)] /\ lines' \in [Conn -> Seq(Seq(Byte))] /\ intact' \in [Conn -> BOOLEAN]
      BY <1>8 DEF tcp_server_cleanup, Forget
    <2>2. lost' \in [Slot -> {"none", "told", "error", "cleanup"}]
      BY <1>8 DEF tcp_server_cleanup
    <2> QED
      BY <1>8, <2>1, <2>2 DEF tcp_server_cleanup
  <1>9. CASE tcp_server_init
    BY <1>9 DEF tcp_server_init
  <1>10. CASE UNCHANGED tcpVars
    BY <1>10 DEF tcpVars, serverVars
  <1> QED
    BY <1>1, <1>2, <1>3, <1>4, <1>5, <1>6, <1>7, <1>8, <1>9, <1>10
       DEF TcpNext, ReadEof, tcp_server_client_disconnect

\* recv_buf and the lines only change by reading; the rest forgets.
LEMMA BuffersStep ==
    ASSUME TcpTypeOK, BuffersHold, [TcpNext]_tcpVars
    PROVE  BuffersHold'
  <1>1. \A s \in Slot : Len(recv_buf[s]) < 2 * BufferSize
    BY DEF BuffersHold
  <1>2. \A c \in Conn : LinesFit(lines[c])
    BY DEF BuffersHold, LinesFit
  <1>3. LinesFit(<<>>) /\ Len(<<>>) < 2 * BufferSize
    BY SizeAssumption DEF LinesFit
  <1> SUFFICES /\ \A s \in Slot : Len(recv_buf'[s]) < 2 * BufferSize
               /\ \A c \in Conn : LinesFit(lines'[c])
    BY DEF BuffersHold, LinesFit
  <1>4. ASSUME UNCHANGED recv_buf, UNCHANGED lines
        PROVE  /\ \A s \in Slot : Len(recv_buf'[s]) < 2 * BufferSize
               /\ \A c \in Conn : LinesFit(lines'[c])
    BY <1>1, <1>2, <1>4
  <1>5. ASSUME UNCHANGED recv_buf, NEW gone, Forget(gone)
        PROVE  /\ \A s \in Slot : Len(recv_buf'[s]) < 2 * BufferSize
               /\ \A c \in Conn : LinesFit(lines'[c])
    BY <1>1, <1>2, <1>3, <1>5 DEF Forget
  <1>6. ASSUME NEW s \in Slot, NEW flags \in Chunks, ReadData(s, flags)
        PROVE  /\ \A r \in Slot : Len(recv_buf'[r]) < 2 * BufferSize
               /\ \A d \in Conn : LinesFit(lines'[d])
    <2>1. PICK c \in Conn : c = client_socks[s]
      BY <1>6, ReadFacts
    <2>2. PICK chunk \in Seq(Byte), after \in TurnState, drop \in BOOLEAN : ReadAs(s, chunk, after, drop)
      BY <1>6, ReadFacts
    <2>3. lines[c] \in Seq(Seq(Byte)) /\ after.taken \in Seq(Seq(Byte))
      BY DEF TcpTypeOK, TurnState
    <2>4. LinesFit(lines[c] \o after.taken)
      <3> DEFINE a == lines[c]
                 b == after.taken
      <3>1. /\ Len(a) \in Nat /\ Len(b) \in Nat /\ DOMAIN a = 1..Len(a) /\ DOMAIN b = 1..Len(b)
            /\ DOMAIN (a \o b) = 1..(Len(a) + Len(b))
        BY <2>3, LenProperties, ConcatProperties
      <3>2. LinesFit(a) /\ LinesFit(b)
        BY <1>2, <2>2 DEF ReadAs
      <3>3. \A k \in 1..(Len(a) + Len(b)) : (a \o b)[k] = IF k <= Len(a) THEN a[k] ELSE b[k - Len(a)]
        BY <2>3, ConcatProperties
      <3> HIDE DEF a, b
      <3>4. ASSUME NEW k \in 1..(Len(a) + Len(b)) PROVE Len((a \o b)[k]) < BufferSize
        <4>1. CASE k <= Len(a)
          <5>1. k \in DOMAIN a
            BY <3>1, <4>1
          <5> QED
            BY <3>2, <3>3, <4>1, <5>1 DEF LinesFit
        <4>2. CASE ~(k <= Len(a))
          <5>1. k - Len(a) \in DOMAIN b
            BY <3>1, <4>2
          <5> QED
            BY <3>2, <3>3, <4>2, <5>1 DEF LinesFit
        <4> QED
          BY <4>1, <4>2
      <3> QED
        BY <3>1, <3>4 DEF LinesFit, a, b
    <2>5. recv_buf \in [Slot -> Seq(Byte)] /\ lines \in [Conn -> Seq(Seq(Byte))]
      BY DEF TcpTypeOK
    <2>6. \A r \in Slot : Len(recv_buf'[r]) < 2 * BufferSize
      BY <1>1, <2>2, <2>5 DEF ReadAs
    <2>7. \A d \in Conn : lines'[d] = IF d = c THEN lines[c] \o after.taken ELSE lines[d]
      BY <2>1, <2>2, <2>5 DEF ReadAs
    <2> QED
      BY <1>2, <2>4, <2>6, <2>7
  <1>7. CASE tcp_server_init
    BY <1>2, <1>3, <1>7 DEF tcp_server_init
  <1> QED
    BY <1>4, <1>5, <1>6, <1>7
       DEF TcpNext, Accept, Reject, ReadEof, tcp_server_client_disconnect, CallOwner, OwnerReturns,
           OwnerDisconnects, ReadError, tcp_server_cleanup, tcpVars, serverVars

\* Every step keeps the owner's mapping in step, but inside a callback.
LEMMA MappingStep ==
    ASSUME TcpTypeOK, TableInStep, MappingInStep, [TcpNext]_tcpVars
    PROVE  MappingInStep'
  <1> SUFFICES ASSUME NEW r \in Slot, calls'[r] = 0, known'[r] # client_socks'[r]
               PROVE  client_socks'[r] = NoConn /\ (lost'[r] = "error" \/ ~listening')
    BY DEF MappingInStep
  <1>1. calls[r] = 0 /\ known[r] # client_socks[r]
          => client_socks[r] = NoConn /\ (lost[r] = "error" \/ ~listening)
    BY DEF MappingInStep
  <1> DEFINE Goal == client_socks'[r] = NoConn /\ (lost'[r] = "error" \/ ~listening')
  <1> USE DEF TcpTypeOK
  <1>2. ASSUME NEW c \in Conn, NEW s \in Slot, Accept(c, s) PROVE Goal
    BY <1>1, <1>2 DEF Accept, Running
  <1>3. ASSUME NEW c \in Conn, Reject(c) PROVE Goal
    BY <1>1, <1>3 DEF Reject, tcpVars, serverVars
  <1>4. ASSUME NEW s \in Slot, NEW flags \in Chunks, ReadData(s, flags) PROVE Goal
    BY <1>1, <1>4 DEF ReadData
  <1>5. ASSUME NEW s \in Slot, CallOwner(s) PROVE Goal
    BY <1>1, <1>5 DEF CallOwner
  <1>6. ASSUME NEW s \in Slot, OwnerReturns(s) PROVE Goal
    BY <1>1, <1>6 DEF OwnerReturns, TellOwner
  <1>7. ASSUME NEW s \in Slot, OwnerDisconnects(s) PROVE Goal
    BY <1>1, <1>7 DEF OwnerDisconnects, TellOwner
  <1>8. ASSUME NEW s \in Slot, ReadError(s) PROVE Goal
    BY <1>1, <1>8 DEF ReadError
  <1>9. CASE tcp_server_cleanup
    BY <1>9 DEF tcp_server_cleanup
  <1>10. CASE tcp_server_init
    BY <1>10, TableFacts DEF tcp_server_init, TableInStep
  <1>11. CASE UNCHANGED tcpVars
    BY <1>1, <1>11 DEF tcpVars, serverVars
  <1> QED
    BY <1>2, <1>3, <1>4, <1>5, <1>6, <1>7, <1>8, <1>9, <1>10, <1>11
       DEF TcpNext, ReadEof, tcp_server_client_disconnect

\* Every step keeps connections in one slot each, and callbacks on slots in use.
LEMMA TableStep ==
    ASSUME TcpTypeOK, TableInStep, [TcpNext]_tcpVars
    PROVE  TableInStep'
  <1> DEFINE Unique(socks) == \A s, r \in Slot : socks[s] # NoConn /\ socks[s] = socks[r] => s = r
             Has(socks, c) == \E s \in Slot : socks[s] # NoConn /\ socks[s] = c
             Calls == \A s \in Slot : (calls'[s] > 0 \/ client_socks'[s] # NoConn => listening')
                                      /\ (calls'[s] > 0 => client_socks'[s] # NoConn)
             Known == \A c \in Conn : Has(client_socks', c) \/ (read'[c] = <<>> /\ lines'[c] = <<>>)
             Goal == Unique(client_socks') /\ Calls /\ Known
  <1>1. Unique(client_socks)
    BY TableFacts DEF TableInStep
  <1>2. \A c \in Conn : Has(client_socks, c) \/ (read[c] = <<>> /\ lines[c] = <<>>)
    BY TableFacts DEF TableInStep
  <1>3. \A s \in Slot : (calls[s] > 0 \/ client_socks[s] # NoConn => listening)
                        /\ (calls[s] > 0 => client_socks[s] # NoConn)
    BY TableFacts DEF TableInStep
  <1>4. ASSUME Goal PROVE TableInStep'
    <2>1. \A s, r \in Slot \ Free' : client_socks'[s] = client_socks'[r] => s = r
      BY <1>4, TableFactsPrimed
    <2>2. \A c \in Conn \ Connected' : read'[c] = <<>> /\ lines'[c] = <<>>
      BY <1>4, TableFactsPrimed
    <2>3. \A s \in Slot : calls'[s] > 0 \/ s \notin Free' => listening'
      BY <1>4, TableFactsPrimed
    <2>4. \A s \in Slot : calls'[s] > 0 => s \notin Free'
      BY <1>4, TableFactsPrimed
    <2> QED
      BY <2>1, <2>2, <2>3, <2>4 DEF TableInStep
  <1>5. ASSUME NEW c \in Conn, NEW s \in Slot, Accept(c, s) PROVE Goal
    <2>1. /\ client_socks \in [Slot -> Conn \cup {NoConn}]
          /\ client_socks' = [client_socks EXCEPT ![s] = c]
          /\ read' = read /\ lines' = lines /\ calls' = calls /\ listening' = listening /\ listening
      BY <1>5 DEF Accept, Running, TcpTypeOK
    <2>2. client_socks[s] = NoConn /\ ~Has(client_socks, c) /\ c # NoConn
      BY <1>5, TableFacts, TableAssumption DEF Accept, client_slot
    <2>3. Unique(client_socks')
      BY <1>1, <2>1, <2>2
    <2>4. Known
      BY <1>2, <2>1, <2>2
    <2>5. Calls
      BY <1>3, <2>1, <2>2
    <2> QED
      BY <2>3, <2>4, <2>5
  <1>6. ASSUME NEW c \in Conn, Reject(c) PROVE Goal
    BY <1>1, <1>2, <1>3, <1>6 DEF Reject, tcpVars, serverVars
  <1>7. ASSUME NEW s \in Slot, NEW flags \in Chunks, ReadData(s, flags) PROVE Goal
    <2>1. client_socks' = client_socks /\ calls' = calls /\ listening' = listening
      BY <1>7 DEF ReadData
    <2>2. PICK c \in Conn : c = client_socks[s]
      BY <1>7, ReadFacts
    <2>3. \A d \in Conn : d # c => read'[d] = read[d] /\ lines'[d] = lines[d]
      <3>1. PICK chunk \in Seq(Byte), after \in TurnState, drop \in BOOLEAN : ReadAs(s, chunk, after, drop)
        BY <1>7, ReadFacts
      <3> QED
        BY <2>2, <3>1 DEF ReadAs, TcpTypeOK
    <2>4. Has(client_socks, c)
      BY <2>2, TableAssumption
    <2>5. Known
      BY <1>2, <2>1, <2>3, <2>4
    <2> QED
      BY <1>1, <1>3, <2>1, <2>5
  <1>8. ASSUME NEW s \in Slot, CallOwner(s) PROVE Goal
    <2>1. client_socks' = client_socks /\ read' = read /\ lines' = lines /\ listening' = listening
      BY <1>8 DEF CallOwner
    <2>2. client_socks[s] # NoConn /\ listening
      BY <1>8, TableFacts DEF CallOwner, Running
    <2>3. \A r \in Slot : calls'[r] > 0 => r = s \/ calls[r] > 0
      BY <1>8 DEF CallOwner, TcpTypeOK
    <2>4. Calls
      BY <1>3, <2>1, <2>2, <2>3
    <2> QED
      BY <1>1, <1>2, <2>1, <2>4
  <1>9. ASSUME NEW s \in Slot, client_socks' = [client_socks EXCEPT ![s] = NoConn],
               Forget({client_socks[s]}), listening' = listening, calls'[s] = 0,
               \A r \in Slot : r # s => calls'[r] = calls[r]
        PROVE  Goal
    <2>1. client_socks \in [Slot -> Conn \cup {NoConn}]
      BY DEF TcpTypeOK
    <2>2. \A r \in Slot : client_socks'[r] = IF r = s THEN NoConn ELSE client_socks[r]
      BY <1>9, <2>1
    <2>3. \A c \in Conn : /\ read'[c] = IF c = client_socks[s] THEN <<>> ELSE read[c]
                          /\ lines'[c] = IF c = client_socks[s] THEN <<>> ELSE lines[c]
      BY <1>9 DEF Forget
    <2>4. Unique(client_socks')
      BY <1>1, <2>2
    <2>5. Known
      <3> SUFFICES ASSUME NEW c \in Conn
                   PROVE  Has(client_socks', c) \/ (read'[c] = <<>> /\ lines'[c] = <<>>)
        OBVIOUS
      <3>1. CASE c = client_socks[s]
        BY <2>3, <3>1
      <3>2. CASE c # client_socks[s]
        BY <1>2, <2>2, <2>3, <3>2
      <3> QED
        BY <3>1, <3>2
    <2>6. Calls
      BY <1>3, <1>9, <2>2
    <2> QED
      BY <2>4, <2>5, <2>6
  <1>10. ASSUME NEW s \in Slot, OwnerReturns(s) PROVE Goal
    BY <1>9, <1>10 DEF OwnerReturns, TcpTypeOK
  <1>11. ASSUME NEW s \in Slot, OwnerDisconnects(s) PROVE Goal
    <2>1. client_socks' = client_socks /\ read' = read /\ lines' = lines /\ listening' = listening
      BY <1>11 DEF OwnerDisconnects
    <2>2. calls[s] > 0 /\ \A r \in Slot : calls'[r] > 0 => r = s \/ calls[r] > 0
      BY <1>11 DEF OwnerDisconnects, TcpTypeOK
    <2>3. Calls
      BY <1>3, <2>1, <2>2
    <2> QED
      BY <1>1, <1>2, <2>1, <2>3
  <1>12. ASSUME NEW s \in Slot, ReadError(s) PROVE Goal
    BY <1>9, <1>12 DEF ReadError, Running, TcpTypeOK
  <1>13. ASSUME tcp_server_cleanup PROVE Goal
    <2>1. (\A s \in Slot : client_socks'[s] = NoConn /\ calls'[s] = 0)
      BY <1>13 DEF tcp_server_cleanup, Running
    <2>2. \A c \in Conn : /\ read'[c] = IF c \in Connected THEN <<>> ELSE read[c]
                          /\ lines'[c] = IF c \in Connected THEN <<>> ELSE lines[c]
      BY <1>13 DEF tcp_server_cleanup, Forget
    <2>3. Known
      BY <1>2, <2>2, TableFacts
    <2>4. Unique(client_socks')
      BY <2>1
    <2>5. Calls
      BY <2>1
    <2> QED
      BY <2>3, <2>4, <2>5
  <1>14. ASSUME tcp_server_init PROVE Goal
    BY <1>1, <1>2, <1>3, <1>14 DEF tcp_server_init
  <1>15. ASSUME UNCHANGED tcpVars PROVE Goal
    BY <1>1, <1>2, <1>3, <1>15 DEF tcpVars, serverVars
  <1> HIDE DEF Goal
  <1> QED
    BY <1>4, <1>5, <1>6, <1>7, <1>8, <1>10, <1>11, <1>12, <1>13, <1>14, <1>15
       DEF TcpNext, ReadEof, tcp_server_client_disconnect

\* No bytes are no lines and no rest.
LEMMA FramingEmpty == Framing(<<>>).taken = <<>> /\ Framing(<<>>).rest = <<>>
  <1>1. <<>> \in Seq(Byte) /\ ~HasNewline(<<>>)
    BY EmptySeq DEF HasNewline
  <1>2. Framing(<<>>) = [taken |-> <<>>, rest |-> <<>>]
    BY <1>1, FramingQuiet, Zenon
  <1> QED
    BY <1>2

\* The lines and the buffer of a connection are the framing of what was read from it.
LEMMA FramingStep ==
    ASSUME TcpTypeOK, TableInStep, FramingExact, [TcpNext]_tcpVars
    PROVE  FramingExact'
  <1> DEFINE Exact(c, r) == intact[c] => /\ lines[c] = Framing(read[c]).taken
                                         /\ recv_buf[r] = Framing(read[c]).rest
             ExactNext(c, r) == intact'[c] => /\ lines'[c] = Framing(read'[c]).taken
                                              /\ recv_buf'[r] = Framing(read'[c]).rest
  <1>1. \A r \in Slot : client_socks[r] # NoConn => Exact(client_socks[r], r)
    BY TableFacts DEF FramingExact
  <1>2. \A s, r \in Slot : client_socks[s] # NoConn /\ client_socks[s] = client_socks[r] => s = r
    BY TableFacts DEF TableInStep
  <1>3. client_socks \in [Slot -> Conn \cup {NoConn}] /\ NoConn \notin Conn
    BY TableAssumption DEF TcpTypeOK
  <1> SUFFICES ASSUME NEW r \in Slot, client_socks'[r] # NoConn
               PROVE  ExactNext(client_socks'[r], r)
    BY TableFactsPrimed DEF FramingExact
  <1> DEFINE Goal == ExactNext(client_socks'[r], r)
  <1>4. ASSUME UNCHANGED <<client_socks, intact, lines, read, recv_buf>> PROVE Goal
    BY <1>1, <1>4
  <1>5. ASSUME NEW c \in Conn, NEW s \in Slot, Accept(c, s) PROVE Goal
    <2>1. /\ client_socks' = [client_socks EXCEPT ![s] = c]
          /\ intact' = [intact EXCEPT ![c] = recv_buf[s] = <<>>]
          /\ recv_buf' = recv_buf /\ read' = read /\ lines' = lines
      BY <1>5 DEF Accept
    <2>2. c \notin Connected
      BY <1>5 DEF Accept
    <2>3. intact \in [Conn -> BOOLEAN]
      BY DEF TcpTypeOK
    <2>4. CASE r = s
      <3>1. client_socks'[r] = c /\ intact'[c] = (recv_buf[s] = <<>>)
        BY <1>3, <2>1, <2>3, <2>4
      <3>2. read[c] = <<>> /\ lines[c] = <<>>
        BY <2>2 DEF TableInStep
      <3> QED
        BY <2>1, <2>4, <3>1, <3>2, FramingEmpty
    <2>5. CASE r # s
      <3>1. client_socks'[r] = client_socks[r] /\ client_socks[r] # NoConn
        BY <1>3, <2>1, <2>5
      <3>2. client_socks[r] # c /\ client_socks[r] \in Conn
        BY <1>3, <2>2, <3>1, TableFacts
      <3>3. intact'[client_socks[r]] = intact[client_socks[r]]
        BY <2>1, <2>3, <3>2
      <3> QED
        BY <1>1, <2>1, <3>1, <3>3
    <2> QED
      BY <2>4, <2>5
  <1>6. ASSUME NEW s \in Slot, NEW flags \in Chunks, ReadData(s, flags) PROVE Goal
    <2>1. client_socks' = client_socks /\ client_socks[s] # NoConn
      BY <1>6, TableFacts DEF ReadData
    <2>2. PICK c \in Conn : c = client_socks[s]
      BY <1>6, ReadFacts
    <2>3. PICK chunk \in Seq(Byte), after \in TurnState, drop \in BOOLEAN : ReadAs(s, chunk, after, drop)
      BY <1>6, ReadFacts
    <2>4. /\ recv_buf \in [Slot -> Seq(Byte)] /\ intact \in [Conn -> BOOLEAN]
          /\ read \in [Conn -> Seq(Byte)] /\ lines \in [Conn -> Seq(Seq(Byte))]
      BY DEF TcpTypeOK
    <2>5. CASE r = s
      <3>1. /\ recv_buf'[s] = after.rest
            /\ read'[c] = read[c] \o chunk
            /\ lines'[c] = lines[c] \o after.taken
            /\ intact'[c] = (intact[c] /\ ~drop /\ ~after.cut)
        BY <2>2, <2>3, <2>4 DEF ReadAs
      <3>2. SUFFICES ASSUME intact'[c]
                     PROVE  /\ lines'[c] = Framing(read'[c]).taken
                            /\ recv_buf'[s] = Framing(read'[c]).rest
        BY <2>1, <2>2, <2>5
      <3>3. intact[c] /\ ~drop /\ ~after.cut
        BY <3>1, <3>2, Zenon
      <3>4. lines[c] = Framing(read[c]).taken /\ recv_buf[s] = Framing(read[c]).rest
        BY <1>1, <2>1, <2>2, <3>3
      <3>5. After(Framing(read[c]).taken, Framing(Framing(read[c]).rest \o chunk), Framing(read[c] \o chunk))
        BY <2>4, FramingConcat
      <3>6. /\ Framing(read[c] \o chunk).taken = Framing(read[c]).taken \o Framing(recv_buf[s] \o chunk).taken
            /\ Framing(read[c] \o chunk).rest = Framing(recv_buf[s] \o chunk).rest
        BY <3>4, <3>5 DEF After
      <3>7. after.taken = Framing(recv_buf[s] \o chunk).taken /\ after.rest = Framing(recv_buf[s] \o chunk).rest
        BY <2>3, <3>3 DEF ReadAs
      <3> QED
        BY <3>1, <3>4, <3>6, <3>7
    <2>6. CASE r # s
      <3>1. client_socks[r] # c /\ client_socks[r] \in Conn
        BY <1>2, <1>3, <2>1, <2>2, <2>6
      <3>2. PICK d \in Conn : d = client_socks[r]
        BY <3>1
      <3>3. recv_buf'[r] = recv_buf[r] /\ read'[d] = read[d] /\ lines'[d] = lines[d] /\ intact'[d] = intact[d]
        BY <2>2, <2>3, <2>4, <2>6, <3>1, <3>2 DEF ReadAs
      <3> QED
        BY <1>1, <2>1, <3>2, <3>3
    <2> QED
      BY <2>5, <2>6
  <1>7. ASSUME NEW s \in Slot, client_socks' = [client_socks EXCEPT ![s] = NoConn],
               Forget({client_socks[s]}), UNCHANGED recv_buf
        PROVE  Goal
    <2>1. r # s /\ client_socks'[r] = client_socks[r] /\ client_socks[r] # NoConn
      BY <1>3, <1>7
    <2>2. PICK d \in Conn : d = client_socks[r]
      BY <1>3, <2>1
    <2>3. d # client_socks[s]
      BY <1>2, <2>1, <2>2
    <2>4. read'[d] = read[d] /\ lines'[d] = lines[d]
      BY <1>7, <2>3 DEF Forget
    <2>5. intact'[d] = (d \in {client_socks[s]} \/ intact[d]) /\ intact[d] \in BOOLEAN
      BY <1>7 DEF Forget, TcpTypeOK
    <2>6. intact'[d] => intact[d]
      BY <2>3, <2>5
    <2> QED
      BY <1>1, <1>7, <2>1, <2>2, <2>4, <2>6
  <1>8. ASSUME tcp_server_cleanup PROVE Goal
    BY <1>8 DEF tcp_server_cleanup
  <1>9. ASSUME tcp_server_init PROVE Goal
    BY <1>9, TableFacts DEF tcp_server_init, TableInStep
  <1> HIDE DEF Goal
  <1>10. Goal
    BY <1>4, <1>5, <1>6, <1>7, <1>8, <1>9
       DEF TcpNext, Reject, ReadEof, tcp_server_client_disconnect, CallOwner, OwnerReturns,
           OwnerDisconnects, ReadError, tcpVars, serverVars
  <1> QED
    BY <1>10 DEF Goal

\* The server starts in its invariant.
LEMMA ServerInit == TcpInit => ServerInvariant
  <1> SUFFICES ASSUME TcpInit PROVE ServerInvariant
    OBVIOUS
  <1>1. TcpTypeOK
    BY EmptySeq DEF TcpInit, TcpTypeOK
  <1>2. TableInStep
    BY TableFacts DEF TcpInit, TableInStep
  <1>3. MappingInStep
    BY DEF TcpInit, MappingInStep
  <1>4. BuffersHold
    BY SizeAssumption DEF TcpInit, BuffersHold
  <1>5. FramingExact
    BY TableFacts DEF TcpInit, FramingExact
  <1> QED
    BY <1>1, <1>2, <1>3, <1>4, <1>5 DEF ServerInvariant

\* Every step keeps the invariant.
LEMMA ServerStep == ServerInvariant /\ [TcpNext]_tcpVars => ServerInvariant'
  BY TypeStep, TableStep, MappingStep, BuffersStep, FramingStep DEF ServerInvariant

\* The invariant holds throughout.
LEMMA ServerInvariantHolds == TcpSpec => []ServerInvariant
  BY ServerInit, ServerStep, PTL DEF TcpSpec

----------------------------------------------------------------------------
(* The theorems *)

\* tcp_server_run: however TCP cuts the stream and whatever other clients do, on_receive gets
\* exactly the lines of the stream, and the buffer the unfinished one.
THEOREM LinesExact == TcpSpec => []FramingExact
  <1>1. ServerInvariant => FramingExact
    BY DEF ServerInvariant
  <1> QED
    BY <1>1, ServerInvariantHolds, PTL

\* tcp_server_run: neither recv_buf nor line[] is written past its end.
THEOREM NoOverrun == TcpSpec => []BuffersHold
  <1>1. ServerInvariant => BuffersHold
    BY DEF ServerInvariant
  <1> QED
    BY <1>1, ServerInvariantHolds, PTL

\* tcp_server_run and its callbacks: outside a callback the owner takes every slot for the
\* connection it holds, but for the slots that a read error has freed.
THEOREM OwnerMapsSlots == TcpSpec => []OwnerInStep
  <1>1. ServerInvariant => OwnerInStep
    BY DEF ServerInvariant, MappingInStep, OwnerInStep, Running
  <1> QED
    BY <1>1, ServerInvariantHolds, PTL

=============================================================================
