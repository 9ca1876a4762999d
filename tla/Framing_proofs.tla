--------------------------- MODULE Framing_proofs ---------------------------
(***************************************************************************)
(* Proofs about the readers' framing, for every alphabet, every table of   *)
(* frame lengths and every checksum.                                       *)
(***************************************************************************)
EXTENDS Framing, SequenceTheorems, TLAPS

LEMMA SubSeqSame ==
    ASSUME NEW s \in Seq(Bytes), NEW t \in Seq(Bytes), NEW m \in Nat, NEW n \in Nat,
           NEW d \in Int, m >= 1, n <= Len(s), m + d >= 1, n + d <= Len(t),
           \A i \in m .. n : s[i] = t[i + d]
    PROVE  SubSeq(s, m, n) = SubSeq(t, m + d, n + d)
  <1> DEFINE u == SubSeq(s, m, n)
             v == SubSeq(t, m + d, n + d)
  <1>1. \A i \in m .. n : s[i] \in Bytes
    OBVIOUS
  <1>2. \A i \in m + d .. n + d : t[i] \in Bytes
    OBVIOUS
  <1>3. /\ u \in Seq(Bytes)
        /\ Len(u) = IF m <= n THEN n - m + 1 ELSE 0
        /\ \A i \in 1 .. n - m + 1 : u[i] = s[m + i - 1]
    BY <1>1, SubSeqProperties
  <1>4. /\ v \in Seq(Bytes)
        /\ Len(v) = IF m + d <= n + d THEN (n + d) - (m + d) + 1 ELSE 0
        /\ \A i \in 1 .. (n + d) - (m + d) + 1 : v[i] = t[m + d + i - 1]
    <2>1. m + d \in Int /\ n + d \in Int
      OBVIOUS
    <2> HIDE DEF v
    <2> QED BY <1>2, <2>1, SubSeqProperties DEF v
  <1> HIDE DEF u, v
  <1>5. Len(u) = Len(v)
    BY <1>3, <1>4
  <1>6. ASSUME NEW i \in 1 .. Len(u) PROVE u[i] = v[i]
    <2>1. m + i - 1 \in m .. n /\ i \in 1 .. n - m + 1
      BY <1>3
    <2>2. u[i] = s[m + i - 1] /\ v[i] = t[m + d + i - 1]
      BY <1>3, <1>4, <2>1
    <2>3. (m + i - 1) + d = m + d + i - 1
      BY <2>1
    <2> QED BY <2>1, <2>2, <2>3
  <1> QED BY <1>3, <1>4, <1>5, <1>6, SeqEqual DEF u, v

\* Where the buffer lies in the stream.
LEMMA BufferPlace ==
    ASSUME TypeOK
    PROVE  /\ FirstKept \in Nat /\ FirstKept >= 1
           /\ FirstKept + Len(buf) = Len(read) + 1
           /\ \A i \in 1 .. Len(buf) : buf[i] = read[FirstKept + i - 1]
  BY DEF TypeOK, FirstKept

\* The frame at the front of the buffer is the frame there in the stream.
LEMMA PacketPlace ==
    ASSUME TypeOK, Complete
    PROVE  /\ FrameLength[Sof] \in 2 .. MaxLength
           /\ Sof = <<read[FirstKept], read[FirstKept + 1]>>
           /\ FirstKept + FrameLength[Sof] - 1 <= Len(read)
           /\ Packet = SubSeq(read, FirstKept, FirstKept + FrameLength[Sof] - 1)
  <1> DEFINE n == FrameLength[Sof]
  <1>1. n \in 2 .. MaxLength /\ n \in Nat /\ n <= Len(buf)
    BY FramingAssumption DEF Complete, Started, Starts
  <1>2. buf[1] = read[FirstKept] /\ buf[2] = read[FirstKept + 1]
    BY <1>1, BufferPlace
  <1>3. FirstKept + n - 1 <= Len(read)
    BY <1>1, BufferPlace
  <1>4. Packet = SubSeq(read, FirstKept, FirstKept + n - 1)
    <2> DEFINE d == FirstKept - 1
    <2>1. d \in Int /\ 1 + d >= 1 /\ n + d <= Len(read)
      BY <1>1, <1>3, BufferPlace
    <2>2. \A i \in 1 .. n : buf[i] = read[i + d]
      <3>1. \A i \in 1 .. n : i \in 1 .. Len(buf) /\ i + d = FirstKept + i - 1
        BY <1>1, BufferPlace
      <3> QED BY <3>1, BufferPlace
    <2> HIDE DEF n, d
    <2>3. SubSeq(buf, 1, n) = SubSeq(read, 1 + d, n + d)
      BY <1>1, <2>1, <2>2, SubSeqSame DEF TypeOK
    <2>4. 1 + d = FirstKept /\ n + d = FirstKept + n - 1
      BY <1>1, BufferPlace DEF d
    <2>5. Packet = SubSeq(buf, 1, n)
      BY DEF Packet, n
    <2> QED BY <2>3, <2>4, <2>5
  <1> QED BY <1>1, <1>2, <1>3, <1>4 DEF Sof

\* Dropping bytes from the front.
LEMMA RestPlace ==
    ASSUME TypeOK, NEW n \in Nat, n <= Len(buf), buf' = Rest(n), read' = read
    PROVE  /\ buf' \in Seq(Bytes) /\ Len(buf') = Len(buf) - n
           /\ \A i \in 1 .. Len(buf') : buf'[i] = read'[Len(read') - Len(buf') + i]
           /\ FirstKept' = FirstKept + n
  <1>1. \A i \in n + 1 .. Len(buf) : buf[i] \in Bytes
    BY DEF TypeOK
  <1>2. /\ buf' \in Seq(Bytes)
        /\ Len(buf') = IF n + 1 <= Len(buf) THEN Len(buf) - (n + 1) + 1 ELSE 0
        /\ \A i \in 1 .. Len(buf) - (n + 1) + 1 : buf'[i] = buf[(n + 1) + i - 1]
    <2>1. n + 1 \in Int /\ Len(buf) \in Int
      BY DEF TypeOK
    <2> QED BY <1>1, <2>1, SubSeqProperties DEF Rest
  <1>3. Len(buf') = Len(buf) - n /\ Len(read) \in Nat /\ Len(buf) \in Nat
    BY <1>2 DEF TypeOK
  <1>4. ASSUME NEW i \in 1 .. Len(buf')
        PROVE  buf'[i] = read'[Len(read') - Len(buf') + i]
    <2>1. buf'[i] = buf[n + i] /\ n + i \in 1 .. Len(buf)
      BY <1>2, <1>3
    <2>2. buf[n + i] = read[Len(read) - Len(buf) + (n + i)]
      BY <2>1 DEF TypeOK
    <2>3. Len(read) - Len(buf) + (n + i) = Len(read') - Len(buf') + i
      BY <1>3, <2>1
    <2> QED BY <2>1, <2>2, <2>3
  <1>5. FirstKept' = FirstKept + n
    BY <1>3 DEF FirstKept
  <1> QED BY <1>2, <1>3, <1>4, <1>5

\* One more byte changes nothing about those before it.
LEMMA AppendKeeps ==
    ASSUME TypeOK, NEW b \in Bytes, read' = Append(read, b)
    PROVE  /\ read' \in Seq(Bytes) /\ Len(read') = Len(read) + 1
           /\ \A i \in 1 .. Len(read) : read'[i] = read[i]
           /\ \A i, j \in 1 .. Len(read) : SubSeq(read', i, j) = SubSeq(read, i, j)
  <1>1. /\ read' \in Seq(Bytes) /\ Len(read') = Len(read) + 1
        /\ \A i \in 1 .. Len(read) : read'[i] = read[i]
    BY DEF TypeOK
  <1>2. ASSUME NEW i \in 1 .. Len(read), NEW j \in 1 .. Len(read)
        PROVE  SubSeq(read', i, j) = SubSeq(read, i, j)
    <2>1. i \in Nat /\ j \in Nat /\ i >= 1 /\ j <= Len(read) /\ j + 0 <= Len(read')
      BY <1>1 DEF TypeOK
    <2>2. \A k \in i .. j : read[k] = read'[k + 0]
      BY <1>1, <2>1
    <2>3. SubSeq(read, i, j) = SubSeq(read', i + 0, j + 0)
      BY <1>1, <2>1, <2>2, SubSeqSame DEF TypeOK
    <2> QED BY <2>1, <2>3
  <1> QED BY <1>1, <1>2
-----------------------------------------------------------------------------

LEMMA InitHolds == Init => IInv
  BY DEF Init, IInv, TypeOK, HandledBehind, HandledIntact, EveryByteDecided, FirstKept

LEMMA StepType ==
    ASSUME TypeOK, HandledBehind, [Next]_vars
    PROVE  TypeOK' /\ HandledBehind'
  <1>1. ASSUME NEW b \in Bytes, Read(b) PROVE TypeOK' /\ HandledBehind'
    <2>1. /\ read' \in Seq(Bytes) /\ Len(read') = Len(read) + 1
          /\ \A i \in 1 .. Len(read) : read'[i] = read[i]
      BY <1>1, AppendKeeps DEF Read
    <2>2. buf' \in Seq(Bytes) /\ Len(buf') = Len(buf) + 1
      BY <1>1 DEF Read, TypeOK
    <2>3. ASSUME NEW i \in 1 .. Len(buf')
          PROVE  buf'[i] = read'[Len(read') - Len(buf') + i]
      <3>1. CASE i \in 1 .. Len(buf)
        <4>1. buf'[i] = buf[i] /\ buf[i] = read[Len(read) - Len(buf) + i]
          BY <1>1, <3>1 DEF Read, TypeOK
        <4>2. /\ Len(read) - Len(buf) + i \in 1 .. Len(read)
              /\ Len(read) - Len(buf) + i = Len(read') - Len(buf') + i
          BY <2>1, <2>2, <3>1 DEF TypeOK
        <4> QED BY <2>1, <4>1, <4>2
      <3>2. CASE i = Len(buf) + 1
        <4>1. buf'[i] = b /\ read'[Len(read) + 1] = b
          BY <1>1, <3>2 DEF Read, TypeOK
        <4>2. Len(read') - Len(buf') + i = Len(read) + 1
          BY <2>1, <2>2, <3>2 DEF TypeOK
        <4> QED BY <4>1, <4>2
      <3> QED BY <2>2, <3>1, <3>2 DEF TypeOK
    <2>4. FirstKept' = FirstKept /\ handled' = handled /\ handled' \subseteq Places'
      BY <1>1, <2>1, <2>2 DEF Read, TypeOK, FirstKept, Places
    <2> QED BY <2>1, <2>2, <2>3, <2>4 DEF TypeOK, HandledBehind
  <1>2. ASSUME NoStart \/ Broken PROVE TypeOK' /\ HandledBehind'
    <2>1. 1 <= Len(buf) /\ buf' = Rest(1) /\ read' = read /\ handled' = handled
      BY <1>2, PacketPlace DEF NoStart, Broken, Complete, Started, TypeOK
    <2>2. /\ buf' \in Seq(Bytes) /\ Len(buf') = Len(buf) - 1
          /\ \A i \in 1 .. Len(buf') : buf'[i] = read'[Len(read') - Len(buf') + i]
          /\ FirstKept' = FirstKept + 1
      BY <2>1, RestPlace
    <2> QED BY <2>1, <2>2, BufferPlace DEF TypeOK, HandledBehind, Places
  <1>3. ASSUME Handle PROVE TypeOK' /\ HandledBehind'
    <2> DEFINE n == FrameLength[Sof]
    <2>1. n \in Nat /\ n >= 2 /\ n <= Len(buf) /\ FirstKept + n - 1 <= Len(read)
      BY <1>3, PacketPlace DEF Handle, Complete
    <2>2. /\ buf' = Rest(n) /\ read' = read
          /\ handled' = handled \cup {<<FirstKept, FirstKept + n - 1>>}
      BY <1>3 DEF Handle
    <2> HIDE DEF n
    <2>3. /\ buf' \in Seq(Bytes) /\ Len(buf') = Len(buf) - n
          /\ \A i \in 1 .. Len(buf') : buf'[i] = read'[Len(read') - Len(buf') + i]
          /\ FirstKept' = FirstKept + n
      BY <2>1, <2>2, RestPlace
    <2>4. <<FirstKept, FirstKept + n - 1>> \in Places'
      BY <2>1, <2>2, BufferPlace DEF Places
    <2>5. handled' \subseteq Places' /\ Len(buf') <= Len(read')
      BY <2>1, <2>2, <2>3, <2>4 DEF TypeOK, Places
    <2>6. HandledBehind'
      <3> SUFFICES ASSUME NEW f \in handled' PROVE f[1] <= f[2] /\ f[2] < FirstKept'
        BY DEF HandledBehind
      <3>1. CASE f \in handled
        BY <2>1, <2>3, <3>1, BufferPlace DEF HandledBehind, TypeOK, Places
      <3>2. CASE f = <<FirstKept, FirstKept + n - 1>>
        BY <2>1, <2>3, <3>2, BufferPlace
      <3> QED BY <2>2, <3>1, <3>2
    <2> QED BY <2>2, <2>3, <2>5, <2>6 DEF TypeOK
  <1>4. CASE UNCHANGED vars
    BY <1>4 DEF vars, TypeOK, HandledBehind, Places, FirstKept
  <1> QED BY <1>1, <1>2, <1>3, <1>4 DEF Next

LEMMA StepIntact ==
    ASSUME IInv, [Next]_vars
    PROVE  HandledIntact'
  <1>1. ASSUME NEW b \in Bytes, Read(b) PROVE HandledIntact'
    <2>1. ASSUME NEW f \in handled PROVE Intact(f)'
      <3>1. Intact(f) /\ f \in Places
        BY DEF IInv, HandledIntact, TypeOK
      <3>2. /\ Len(read') = Len(read) + 1
            /\ \A i \in 1 .. Len(read) : read'[i] = read[i]
            /\ \A i, j \in 1 .. Len(read) : SubSeq(read', i, j) = SubSeq(read, i, j)
        BY <1>1, AppendKeeps DEF Read, IInv
      <3>3. read'[f[1]] = read[f[1]] /\ read'[f[1] + 1] = read[f[1] + 1]
        BY <3>1, <3>2 DEF Intact, Places
      <3>4. SubSeq(read', f[1], f[2]) = SubSeq(read, f[1], f[2])
        BY <3>1, <3>2 DEF Places
      <3>5. Len(read) \in Nat /\ f[1] \in 1 .. Len(read) /\ f[2] \in 1 .. Len(read)
        BY <3>1 DEF IInv, TypeOK, Places
      <3> DEFINE sof == <<read[f[1]], read[f[1] + 1]>>
      <3>6. /\ f[1] + 1 <= Len(read) /\ f[2] <= Len(read)
            /\ sof \in Starts /\ f[2] = f[1] + FrameLength[sof] - 1
            /\ Valid(SubSeq(read, f[1], f[2]))
        BY <3>1 DEF Intact
      <3>7. sof = <<read'[f[1]], read'[f[1] + 1]>>
        BY <3>3
      <3> HIDE DEF sof
      <3>8. f[1] + 1 <= Len(read') /\ f[2] <= Len(read')
        BY <3>2, <3>5, <3>6
      <3>9. Valid(SubSeq(read', f[1], f[2]))
        BY <3>4, <3>6
      <3> QED BY <3>6, <3>7, <3>8, <3>9 DEF Intact
    <2>2. handled' = handled
      BY <1>1 DEF Read
    <2> QED BY <2>1, <2>2 DEF HandledIntact, IInv, Overlap
  <1>2. CASE UNCHANGED <<read, handled>>
    BY <1>2 DEF HandledIntact, IInv, Intact, Overlap
  <1>3. ASSUME Handle PROVE HandledIntact'
    <2> DEFINE n == FrameLength[Sof]
               g == <<FirstKept, FirstKept + n - 1>>
    <2>a. TypeOK /\ Complete /\ Valid(Packet) /\ Sof \in Starts
      BY <1>3 DEF Handle, Complete, Started, IInv
    <2>b. n \in Nat /\ n >= 2 /\ FirstKept + n - 1 <= Len(read)
      BY <2>a, PacketPlace
    <2>c. Sof = <<read[FirstKept], read[FirstKept + 1]>> /\ Sof \in Starts
      BY <2>a, PacketPlace
    <2>d. Packet = SubSeq(read, FirstKept, FirstKept + n - 1) /\ Valid(Packet)
      BY <2>a, PacketPlace
    <2>1. /\ n \in Nat /\ n >= 2 /\ FirstKept + n - 1 <= Len(read)
          /\ Sof = <<read[FirstKept], read[FirstKept + 1]>> /\ Sof \in Starts
          /\ Packet = SubSeq(read, FirstKept, FirstKept + n - 1) /\ Valid(Packet)
          /\ FirstKept \in Nat /\ FirstKept >= 1
      BY <2>a, <2>b, <2>c, <2>d, BufferPlace
    <2>2. g[1] = FirstKept /\ g[2] = FirstKept + n - 1
      OBVIOUS
    <2>3. Intact(g)
      BY <2>1, <2>2 DEF Intact, IInv, TypeOK
    <2>4. read' = read /\ handled' = handled \cup {g}
      BY <1>3 DEF Handle
    <2>5. \A f \in handled : ~Overlap(f, g) /\ ~Overlap(g, f)
      BY <2>1, <2>2 DEF IInv, HandledBehind, TypeOK, Places, Overlap
    <2>6. \A f \in handled' : Intact(f)'
      BY <2>3, <2>4 DEF HandledIntact, IInv, Intact
    <2> HIDE DEF g
    <2> QED BY <2>4, <2>5, <2>6 DEF HandledIntact, IInv, Overlap
  <1> QED BY <1>1, <1>2, <1>3 DEF Next, NoStart, Broken, vars

LEMMA StepDecided ==
    ASSUME IInv, [Next]_vars
    PROVE  EveryByteDecided'
  <1> USE DEF IInv
  <1>1. ASSUME NEW b \in Bytes, Read(b) PROVE EveryByteDecided'
    <2>1. /\ Len(read') = Len(read) + 1
          /\ \A i \in 1 .. Len(read) : read'[i] = read[i]
          /\ \A i, j \in 1 .. Len(read) : SubSeq(read', i, j) = SubSeq(read, i, j)
      BY <1>1, AppendKeeps DEF Read
    <2>2. FirstKept' = FirstKept /\ handled' = handled
      BY <1>1 DEF Read, FirstKept, TypeOK
    <2>3. ASSUME NEW i \in 1 .. FirstKept - 1, i < Len(read), Rejected(i)
          PROVE  i < Len(read') /\ Rejected(i)'
      <3> DEFINE sof == <<read[i], read[i + 1]>>
                 end == i + FrameLength[sof] - 1
      <3>1. i \in 1 .. Len(read) /\ i + 1 \in 1 .. Len(read) /\ Len(read) \in Nat
        BY <2>3, BufferPlace DEF TypeOK
      <3>2. sof = <<read'[i], read'[i + 1]>>
        BY <2>1, <3>1
      <3>3. sof \in Starts => end <= Len(read) /\ ~Valid(SubSeq(read, i, end))
        BY <2>3 DEF Rejected
      <3>4. sof \in Starts => end \in 1 .. Len(read)
        <4> SUFFICES ASSUME sof \in Starts PROVE end \in 1 .. Len(read)
          OBVIOUS
        <4>1. FrameLength[sof] \in 2 .. MaxLength
          BY FramingAssumption DEF Starts
        <4> HIDE DEF sof
        <4> QED BY <3>1, <3>3, <4>1
      <3> HIDE DEF sof
      <3>5. sof \in Starts => end <= Len(read') /\ ~Valid(SubSeq(read', i, end))
        <4> HIDE DEF end
        <4> SUFFICES ASSUME sof \in Starts
                     PROVE  end <= Len(read') /\ ~Valid(SubSeq(read', i, end))
          OBVIOUS
        <4>1. end <= Len(read')
          BY <2>1, <3>1, <3>4
        <4>2. SubSeq(read', i, end) = SubSeq(read, i, end)
          BY <2>1, <3>1, <3>4
        <4> QED BY <3>3, <4>1, <4>2
      <3> QED BY <2>1, <3>1, <3>2, <3>5 DEF Rejected
    <2> QED BY <2>2, <2>3 DEF EveryByteDecided
  \* The byte at the front is dropped for a reason.
  <1>2. ASSUME read' = read, handled' = handled, FirstKept' = FirstKept + 1,
               FirstKept < Len(read), Rejected(FirstKept)
        PROVE  EveryByteDecided'
    <2> SUFFICES ASSUME NEW i \in 1 .. FirstKept
                 PROVE  \/ \E f \in handled : f[1] <= i /\ i <= f[2]
                        \/ i < Len(read) /\ Rejected(i)
      <3>1. FirstKept' - 1 = FirstKept
        BY <1>2, BufferPlace
      <3>2. \A i : Rejected(i)' <=> Rejected(i)
        BY <1>2 DEF Rejected
      <3> QED BY <1>2, <3>1, <3>2 DEF EveryByteDecided
    <2>1. CASE i = FirstKept
      BY <1>2, <2>1
    <2>2. CASE i \in 1 .. FirstKept - 1
      BY <2>2 DEF EveryByteDecided
    <2> QED BY <2>1, <2>2, BufferPlace
  <1>3. ASSUME NoStart PROVE EveryByteDecided'
    <2>1. /\ Len(buf) >= 2 /\ Sof \notin Starts
          /\ buf' = Rest(1) /\ read' = read /\ handled' = handled
      BY <1>3 DEF NoStart
    <2>2. FirstKept' = FirstKept + 1
      BY <2>1, RestPlace DEF TypeOK
    <2>3. Sof = <<read[FirstKept], read[FirstKept + 1]>> /\ FirstKept < Len(read)
      BY <2>1, BufferPlace DEF Sof, TypeOK
    <2>4. Rejected(FirstKept)
      BY <2>1, <2>3 DEF Rejected
    <2> QED BY <1>2, <2>1, <2>2, <2>3, <2>4
  <1>4. ASSUME Broken PROVE EveryByteDecided'
    <2>1. /\ Complete /\ ~Valid(Packet)
          /\ buf' = Rest(1) /\ read' = read /\ handled' = handled
      BY <1>4 DEF Broken
    <2>2. FirstKept' = FirstKept + 1
      BY <2>1, RestPlace DEF TypeOK, Complete, Started
    <2>3. Sof = <<read[FirstKept], read[FirstKept + 1]>>
      BY <2>1, PacketPlace
    <2>4. /\ FirstKept + FrameLength[Sof] - 1 <= Len(read)
          /\ ~Valid(SubSeq(read, FirstKept, FirstKept + FrameLength[Sof] - 1))
      BY <2>1, PacketPlace
    <2>5. FirstKept < Len(read)
      BY <2>1, BufferPlace DEF Complete, Started, TypeOK
    <2>6. Rejected(FirstKept)
      BY <2>3, <2>4 DEF Rejected
    <2> QED BY <1>2, <2>1, <2>2, <2>5, <2>6
  <1>5. ASSUME Handle PROVE EveryByteDecided'
    <2> DEFINE n == FrameLength[Sof]
               g == <<FirstKept, FirstKept + n - 1>>
    <2>1. n \in Nat /\ n >= 2 /\ n <= Len(buf)
      BY <1>5, PacketPlace DEF Handle, Complete
    <2>2. buf' = Rest(n) /\ read' = read /\ handled' = handled \cup {g}
      BY <1>5 DEF Handle
    <2> HIDE DEF n
    <2>3. FirstKept' = FirstKept + n
      BY <2>1, <2>2, RestPlace
    <2> SUFFICES ASSUME NEW i \in 1 .. FirstKept + n - 1
                 PROVE  \/ \E f \in handled' : f[1] <= i /\ i <= f[2]
                        \/ i < Len(read) /\ Rejected(i)
      <3>1. FirstKept' - 1 = FirstKept + n - 1
        BY <2>1, <2>3, BufferPlace
      <3>2. \A i : Rejected(i)' <=> Rejected(i)
        BY <2>2 DEF Rejected
      <3> QED BY <2>2, <3>1, <3>2 DEF EveryByteDecided
    <2>4. CASE i \in 1 .. FirstKept - 1
      BY <2>2, <2>4 DEF EveryByteDecided
    <2>5. CASE i \in FirstKept .. FirstKept + n - 1
      <3>1. g[1] <= i /\ i <= g[2] /\ g \in handled'
        BY <2>2, <2>5
      <3> QED BY <3>1
    <2> QED BY <2>1, <2>4, <2>5, BufferPlace
  <1>6. CASE UNCHANGED vars
    BY <1>6 DEF vars, EveryByteDecided, Rejected, FirstKept
  <1> QED BY <1>1, <1>3, <1>4, <1>5, <1>6 DEF Next

-----------------------------------------------------------------------------
(* The results *)

\* Every byte the reader of receive_packets is past belongs to a handled frame
\* or begins none, whatever the stream, the lengths and the checksum.
THEOREM FramingInvariant == Spec => []IInv
  <1>1. IInv /\ [Next]_vars => IInv'
    <2> SUFFICES ASSUME IInv, [Next]_vars PROVE IInv'
      OBVIOUS
    <2>1. TypeOK' /\ HandledBehind'
      BY StepType DEF IInv
    <2> QED BY <2>1, StepIntact, StepDecided DEF IInv
  <1> QED BY InitHolds, <1>1, PTL DEF Spec

LEMMA SkipsNothing == IInv => NoFrameSkipped
  <1> SUFFICES ASSUME IInv, NEW f \in Places, Intact(f), f[1] < FirstKept
               PROVE  \E g \in handled : Overlap(f, g)
    BY DEF NoFrameSkipped
  <1>1. f[1] \in 1 .. Len(read) /\ f[2] \in 1 .. Len(read) /\ Len(read) \in Nat
    BY DEF Places, IInv, TypeOK
  <1>2. f[1] \in 1 .. FirstKept - 1
    BY <1>1, BufferPlace DEF IInv
  <1>3. f[1] <= f[2]
    <2> DEFINE n == FrameLength[<<read[f[1]], read[f[1] + 1]>>]
    <2>1. n \in 2 .. MaxLength /\ f[2] = f[1] + n - 1
      BY FramingAssumption DEF Intact, Starts
    <2> QED BY <1>1, <2>1
  <1>4. ~Rejected(f[1])
    BY DEF Rejected, Intact
  <1>5. PICK g \in handled : g[1] <= f[1] /\ f[1] <= g[2]
    BY <1>2, <1>4 DEF IInv, EveryByteDecided
  <1>6. g[1] \in Nat /\ g[2] \in Nat
    BY DEF IInv, TypeOK, Places
  <1> QED BY <1>1, <1>3, <1>5, <1>6 DEF Overlap

\* No intact frame is lost to what precedes it in the stream.
THEOREM NothingSkipped == Spec => []NoFrameSkipped
  BY FramingInvariant, SkipsNothing, PTL

\* A false start of frame delays an intact frame by less than one frame's
\* length (the break of receive_packets' inner loop).
THEOREM NothingDelayed == Spec => []NoFrameDelayed
  <1>1. IInv => NoFrameDelayed
    <2> SUFFICES ASSUME IInv, Waiting, NEW f \in Places, Intact(f),
                        f[1] + MaxLength <= Len(read) + 1
                 PROVE  \E g \in handled : Overlap(f, g)
      BY DEF NoFrameDelayed
    <2>1. MaxLength >= 2 /\ MaxLength \in Nat
      BY FramingAssumption DEF Intact, Starts
    <2>2. Len(buf) < MaxLength
      <3>1. CASE Len(buf) < 2
        BY <2>1, <3>1 DEF IInv, TypeOK
      <3>2. CASE Started /\ ~Complete
        <4>1. FrameLength[Sof] \in 2 .. MaxLength
          BY <3>2, FramingAssumption DEF Started, Starts
        <4> QED BY <2>1, <3>2, <4>1 DEF Complete, IInv, TypeOK
      <3> QED BY <3>1, <3>2 DEF Waiting
    <2>3. f[1] < FirstKept
      BY <2>1, <2>2, BufferPlace DEF IInv, Places, TypeOK
    <2> QED BY <2>3, SkipsNothing DEF NoFrameSkipped
  <1> QED BY <1>1, FramingInvariant, PTL
=============================================================================
