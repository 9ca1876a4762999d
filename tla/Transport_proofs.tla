--------------------------- MODULE Transport_proofs ---------------------------
(***************************************************************************)
(* Writes exclude each other, a pending read waits on a live connection    *)
(* and is_idle tells the truth about what was read and written, for any    *)
(* number of writers.                                                      *)
(***************************************************************************)
EXTENDS Transport, SequenceTheorems, TLAPS

\* Everything the invariant says of the tasks and of the lock.
Lock == \A w \in Writers : at[w] \in Inside => Holds(w)

\* A new place for one task changes no other's.
LEMMA GoesKeepsType ==
    ASSUME TypeOK, NEW a \in Actors, NEW place, Goes(a, place),
           IF a = Reader THEN place \in ReaderPlaces ELSE place \in WriterPlaces
    PROVE  /\ at' \in [Actors -> ReaderPlaces \cup WriterPlaces]
           /\ at'[Reader] \in ReaderPlaces
           /\ \A w \in Writers : at'[w] \in WriterPlaces
           /\ \A b \in Actors \ {a} : at'[b] = at[b]
           /\ at'[a] = place
  BY WritersAssumption DEF TypeOK, Goes, Actors

\* Waking the reader concerns no writer, and leaves no read pending.
LEMMA WokenFacts ==
    ASSUME TypeOK, NEW place \in {"eof", "failed"}
    PROVE  /\ ReaderWoken(place) \in [Actors -> ReaderPlaces \cup WriterPlaces]
           /\ ReaderWoken(place)[Reader] \in ReaderPlaces \ {"reading"}
           /\ \A w \in Writers : ReaderWoken(place)[w] = at[w]
  BY WritersAssumption DEF TypeOK, ReaderWoken, Actors, ReaderPlaces, Reader

\* A task that lost the connection keeps the lock if it has it, and leaves no
\* pending read on the connection it closes.
LEMMA LostStep ==
    ASSUME IInv, NEW a \in Actors, Lost(a), a \in Writers => Holds(a)
    PROVE  IInv'
  <1> USE DEF IInv
  <1>0. "reader" \notin Writers /\ Reader \in Actors
    BY WritersAssumption DEF Reader, Actors
  <1>1. /\ at' \in [Actors -> ReaderPlaces \cup WriterPlaces]
        /\ at'[a] = "sleeping"
        /\ \A b \in Actors \ {a} : at'[b] = ReaderWoken("eof")[b]
    BY WokenFacts DEF Lost, ReaderPlaces
  <1>2. at'[Reader] \in ReaderPlaces \ {"reading"}
    <2>1. CASE a = Reader BY <2>1, <1>1 DEF ReaderPlaces
    <2>2. CASE a # Reader BY <2>2, <1>0, <1>1, WokenFacts
    <2> QED BY <2>1, <2>2
  <1>3. \A w \in Writers : at'[w] = IF w = a THEN "sleeping" ELSE at[w]
    BY <1>0, <1>1, WokenFacts DEF Actors
  <1>4. TypeOK'
    BY <1>1, <1>2, <1>3 DEF TypeOK, Lost, Links, WriterPlaces, Inside
  <1>5. Lock'
    BY <1>3 DEF Lock, Lost, Holds
  <1>6. ReaderOnLink' /\ IdleIsQuiet'
    BY <1>2 DEF ReaderOnLink, IdleIsQuiet, Lost
  <1> QED BY <1>4, <1>5, <1>6 DEF Lock

\* Only one task holds the lock.
LEMMA HolderIsUnique ==
    ASSUME NEW v \in Writers, NEW w \in Writers, Holds(v), Holds(w)
    PROVE  v = w
  BY DEF Holds

\* Releasing the lock: nobody else was inside.
LEMMA Release ==
    ASSUME IInv, NEW w \in Writers, Holds(w), queue' = Tail(queue),
           at'[w] = "idle", \A v \in Writers \ {w} : at'[v] = at[v]
    PROVE  Lock' /\ queue' \in Seq(Writers)
  <1>1. queue' \in Seq(Writers)
    BY DEF IInv, TypeOK, Holds
  <1>2. \A v \in Writers : at'[v] \notin Inside
    BY HolderIsUnique DEF IInv, Inside
  <1> QED BY <1>1, <1>2 DEF Lock

LEMMA IInvInit == Init => IInv
  <1> SUFFICES ASSUME Init PROVE IInv
    OBVIOUS
  <1>1. /\ at[Reader] = "starting" 
        /\ \A w \in Writers : at[w] = "idle"
        /\ at \in [Actors -> ReaderPlaces \cup WriterPlaces]
    BY WritersAssumption DEF Init, Actors, Reader, ReaderPlaces, WriterPlaces
  <1>2. TypeOK
    <2>1. "starting" \in ReaderPlaces /\ "idle" \in WriterPlaces /\ "none" \in Links
      BY DEF ReaderPlaces, WriterPlaces, Links
    <2>2. queue \in Seq(Writers)
      BY DEF Init
    <2> QED BY <1>1, <2>1, <2>2 DEF TypeOK, Init
  <1> QED BY <1>1, <1>2 DEF Init, IInv, Inside, ReaderOnLink, IdleIsQuiet

LEMMA IInvNext == IInv /\ [Next]_vars => IInv'
  <1> SUFFICES ASSUME IInv, [Next]_vars PROVE IInv'
    OBVIOUS
  <1>0. /\ "reader" \notin Writers /\ Reader \in Actors /\ Reader = "reader"
        /\ TypeOK /\ Lock /\ ReaderOnLink /\ IdleIsQuiet
        /\ \A w \in Writers : w \in Actors /\ w # Reader
    BY WritersAssumption DEF Reader, Actors, IInv, Lock
  <1>q. SUFFICES TypeOK' /\ Lock' /\ ReaderOnLink' /\ IdleIsQuiet'
    BY DEF IInv, Lock
  \* Steps that move only the reader.
  <1>1. ASSUME NEW place \in ReaderPlaces, Goes(Reader, place), UNCHANGED queue
        PROVE  /\ at' \in [Actors -> ReaderPlaces \cup WriterPlaces]
               /\ at'[Reader] = place
               /\ \A w \in Writers : at'[w] = at[w]
               /\ queue' \in Seq(Writers)
               /\ Lock'
    <2>1. /\ at' \in [Actors -> ReaderPlaces \cup WriterPlaces]
          /\ at'[Reader] = place
          /\ \A w \in Writers : at'[w] = at[w]
      BY <1>0, <1>1, GoesKeepsType
    <2> QED BY <2>1, <1>0, <1>1 DEF TypeOK, Lock, Holds
  <1>2. CASE StartConnect
    BY <1>0, <1>1, <1>2 DEF StartConnect, TypeOK, Links, ReaderPlaces, ReaderOnLink, IdleIsQuiet
  <1>3. CASE StartFails
    BY <1>0, <1>1, <1>3 DEF StartFails, TypeOK, ReaderPlaces, ReaderOnLink, IdleIsQuiet
  <1>4. CASE StartAgain
    BY <1>0, <1>1, <1>4 DEF StartAgain, TypeOK, ReaderPlaces, ReaderOnLink, IdleIsQuiet
  <1>5. CASE Reset
    BY <1>0, <1>5, WokenFacts DEF Reset, TypeOK, Links, Lock, Holds, ReaderOnLink, IdleIsQuiet
  <1>6. CASE End
    BY <1>0, <1>6, WokenFacts DEF End, TypeOK, Links, Lock, Holds, ReaderOnLink, IdleIsQuiet
  <1>7. CASE Pause
    BY <1>0, <1>7 DEF Pause, TypeOK, Lock, Holds, ReaderOnLink, IdleIsQuiet
  <1>8. CASE Unheard
    BY <1>0, <1>8 DEF Unheard, TypeOK, Lock, Holds, ReaderOnLink, IdleIsQuiet
  <1>9. CASE Byte
    BY <1>0, <1>9 DEF Byte, TypeOK, Lock, Holds, ReaderOnLink, IdleIsQuiet
  <1>10. CASE EndOfFile
    <2>1. NextRead[link] \in ReaderPlaces /\ (NextRead[link] = "reading" => link = "open")
      BY <1>0 DEF NextRead, TypeOK, Links, ReaderPlaces
    <2> QED BY <1>0, <1>1, <1>10, <2>1 DEF EndOfFile, TypeOK, ReaderOnLink, IdleIsQuiet
  <1>11. CASE ReadRaises
    BY <1>0, <1>11, LostStep DEF ReadRaises, IInv, Lock
  <1>12. CASE ReaderReconnects
    BY <1>0, <1>1, <1>12 DEF ReaderReconnects, TypeOK, Links, ReaderPlaces, ReaderOnLink, IdleIsQuiet
  <1>13. ASSUME NEW a \in Actors, SleepOver(a)
         PROVE  IInv'
    <2>1. IF a = Reader THEN "connecting" \in ReaderPlaces ELSE "connecting" \in WriterPlaces
      BY DEF ReaderPlaces, WriterPlaces, Inside
    <2>2. /\ at' \in [Actors -> ReaderPlaces \cup WriterPlaces]
          /\ at'[Reader] \in ReaderPlaces
          /\ \A w \in Writers : at'[w] \in WriterPlaces
          /\ \A b \in Actors \ {a} : at'[b] = at[b]
          /\ at'[a] = "connecting"
      BY <1>0, <1>13, <2>1, GoesKeepsType DEF SleepOver
    <2>3. Lock'
      BY <1>0, <1>13, <2>2 DEF Lock, SleepOver, Holds, Inside
    <2>4. ReaderOnLink' /\ IdleIsQuiet' /\ TypeOK'
      BY <1>0, <1>13, <2>2 DEF SleepOver, TypeOK, ReaderOnLink, IdleIsQuiet
    <2> QED BY <2>3, <2>4 DEF IInv, Lock
  <1>14. ASSUME NEW a \in Actors, ReconnectFails(a)
         PROVE  IInv'
    BY <1>0, <1>14, LostStep DEF ReconnectFails, Lock, Inside
  <1>15. ASSUME NEW w \in Writers, Request(w)
         PROVE  IInv'
    <2>1. /\ at' \in [Actors -> ReaderPlaces \cup WriterPlaces]
          /\ at'[Reader] = at[Reader]
          /\ \A v \in Writers : at'[v] = IF v = w THEN "queued" ELSE at[v]
      BY <1>0, <1>15, GoesKeepsType DEF Request, WriterPlaces
    <2>2. queue' \in Seq(Writers) /\ \A v \in Writers : Holds(v) => Holds(v)'
      BY <1>0, <1>15 DEF Request, TypeOK, Holds
    <2>3. Lock'
      BY <1>0, <2>1, <2>2 DEF Lock, Inside
    <2>4. ReaderOnLink' /\ IdleIsQuiet' /\ TypeOK'
      BY <1>0, <1>15, <2>1, <2>2 DEF Request, TypeOK, ReaderOnLink, IdleIsQuiet, WriterPlaces
    <2> QED BY <2>3, <2>4 DEF IInv, Lock
  <1>16. ASSUME NEW w \in Writers, Busy(w) \/ Write(w)
         PROVE  IInv'
    <2>0. Holds(w) /\ queue' = Tail(queue) /\ Goes(w, "idle") /\ UNCHANGED link
      BY <1>16 DEF Busy, Write, Sent
    <2>1. /\ at' \in [Actors -> ReaderPlaces \cup WriterPlaces]
          /\ at'[Reader] = at[Reader]
          /\ \A v \in Writers : at'[v] = IF v = w THEN "idle" ELSE at[v]
      BY <1>0, <2>0, GoesKeepsType DEF WriterPlaces
    <2>2. Lock' /\ queue' \in Seq(Writers)
      BY <2>0, <2>1, Release
    <2>3. /\ quiet' \in BOOLEAN /\ bus' \in {"still", "heard", "unheard", "sent"}
          /\ IdleIsQuiet'
      <3>1. CASE Busy(w)
        BY <1>0, <3>1 DEF Busy, TypeOK, IdleIsQuiet
      <3>2. CASE Write(w)
        <4>1. quiet' = FALSE /\ bus' \in {"sent", bus}
          BY <3>2 DEF Write, Sent, Stamped
        <4> QED BY <1>0, <4>1 DEF TypeOK, IdleIsQuiet
      <3> QED BY <1>16, <3>1, <3>2
    <2>4. ReaderOnLink' /\ TypeOK'
      BY <1>0, <2>0, <2>1, <2>2, <2>3 DEF TypeOK, ReaderOnLink, WriterPlaces
    <2> QED BY <2>2, <2>3, <2>4 DEF IInv, Lock
  <1>17. ASSUME NEW w \in Writers, WriteRaises(w) \/ DrainRaises(w)
         PROVE  IInv'
    BY <1>0, <1>17, LostStep DEF WriteRaises, DrainRaises, Lock, Inside
  <1>18. ASSUME NEW w \in Writers, WriteBreaks(w)
         PROVE  IInv'
    <2>1. /\ at' \in [Actors -> ReaderPlaces \cup WriterPlaces]
          /\ at'[Reader] = at[Reader]
          /\ \A v \in Writers : at'[v] = IF v = w THEN "draining" ELSE at[v]
      BY <1>0, <1>18, GoesKeepsType DEF WriteBreaks, WriterPlaces, Inside
    <2>2. Lock'
      BY <1>0, <1>18, <2>1 DEF Lock, WriteBreaks, Holds
    <2>3. ReaderOnLink' /\ IdleIsQuiet' /\ TypeOK'
      BY <1>0, <1>18, <2>1 DEF WriteBreaks, TypeOK, Links, ReaderOnLink, IdleIsQuiet, WriterPlaces, Inside
    <2> QED BY <2>2, <2>3 DEF IInv, Lock
  <1>19. ASSUME NEW w \in Writers, WriterReconnects(w)
         PROVE  IInv'
    <2>0. Holds(w) /\ queue' = Tail(queue) /\ link' = "open"
      BY <1>0, <1>19 DEF WriterReconnects, Sent, Lock, Inside
    <2>1. /\ at' \in [Actors -> ReaderPlaces \cup WriterPlaces]
          /\ at'[Reader] \in ReaderPlaces
          /\ \A v \in Writers : at'[v] = IF v = w THEN "idle" ELSE at[v]
      BY <1>0, <1>19, WokenFacts DEF WriterReconnects, WriterPlaces
    <2>2. Lock' /\ queue' \in Seq(Writers)
      BY <2>0, <2>1, Release
    <2>3. ReaderOnLink' /\ IdleIsQuiet' /\ TypeOK'
      BY <1>0, <1>19, <2>0, <2>1, <2>2
      DEF WriterReconnects, Sent, Stamped, TypeOK, Links, ReaderOnLink, IdleIsQuiet, WriterPlaces
    <2> QED BY <2>2, <2>3 DEF IInv, Lock
  <1>20. CASE UNCHANGED vars
    BY <1>0, <1>20 DEF vars, TypeOK, Lock, Holds, ReaderOnLink, IdleIsQuiet
  <1>21. CASE Next
    BY <1>21, <1>2, <1>3, <1>4, <1>5, <1>6, <1>7, <1>8, <1>9, <1>10, <1>11, <1>12, <1>13, <1>14,
       <1>15, <1>16, <1>17, <1>18, <1>19
    DEF Next, WriterStep, IInv, Lock
  <1> QED BY <1>20, <1>21

\* The lock and the life of the connection are respected in every behaviour.
THEOREM TransportInvariant == Spec => []IInv
  BY IInvInit, IInvNext, PTL DEF Spec

\* Only the holder of the lock is ever inside the transport, across any
\* number of failed writes and reconnections (write_if_idle).
THEOREM WritesExclude == Spec => []OneWriter
  <1>1. IInv => OneWriter
    BY HolderIsUnique DEF IInv, OneWriter
  <1> QED BY <1>1, TransportInvariant, PTL

\* is_idle never calls a bus idle on which this program has just read or
\* written a byte.
THEOREM IdleIsTruthful == Spec => []IdleIsQuiet
  <1>1. IInv => IdleIsQuiet
    BY DEF IInv
  <1> QED BY <1>1, TransportInvariant, PTL

\* A frame that cuts in on another party has waited for a reconnection:
\* nothing but WriterReconnects writes on a bus that is not quiet.
THEOREM NothingElseCutsIn == Spec => CutsInOnlyLate
  <1> DEFINE Late == \E w \in Writers : at[w] = "connecting" /\ at'[w] = "idle"
  <1>1. ASSUME IInv, [Next]_vars, bus = "heard", bus' = "sent"
        PROVE  Late
    <2>0. ~quiet /\ TypeOK
      BY <1>1 DEF IInv, IdleIsQuiet
    <2>1. CASE \E w \in Writers : WriterReconnects(w)
      <3>1. PICK w \in Writers : WriterReconnects(w)
        BY <2>1
      <3>2. w \in Actors /\ w # Reader
        BY WritersAssumption DEF Actors
      <3>3. at[w] = "connecting" /\ at'[w] = "idle"
        BY <2>0, <3>1, <3>2, WokenFacts
        DEF WriterReconnects, TypeOK, ReaderWoken
      <3> QED BY <3>3
    <2>2. CASE \E w \in Writers : WriterStep(w)
      BY <1>1, <2>0, <2>2
      DEF WriterStep, Busy, Write, WriteRaises, WriteBreaks, DrainRaises, Lost
    <2>3. CASE UNCHANGED vars
      BY <1>1, <2>3 DEF vars
    <2> QED
      BY <1>1, <2>1, <2>2, <2>3
      DEF Next, StartConnect, StartFails, StartAgain, Reset, End, Pause, Unheard, Byte, EndOfFile,
          ReadRaises, ReaderReconnects, SleepOver, ReconnectFails, Lost, Request
  <1> QED BY <1>1, TransportInvariant, PTL DEF Spec, CutsInOnlyLate

=============================================================================
