----------------------------- MODULE Transport -----------------------------
(***************************************************************************)
(* The connection to the RS485 gateway of the wall pad: the socket, the    *)
(* ReconnectingTransport around it and the BusArbitrationTransport around  *)
(* that, used by one reader (Panel.receive_packets) and by several writers *)
(* (the synchronizer and the debug frames), all tasks of one event loop.   *)
(* A step is what a task does between two suspensions.                     *)
(***************************************************************************)
EXTENDS Naturals, Sequences

CONSTANT Writers    \* the tasks that call write_if_idle

Reader == "reader"
Actors == Writers \cup {Reader}

ASSUME WritersAssumption == Reader \notin Writers

VARIABLES
  link,      \* the connection held by SocketTransport
  at,        \* where each task stands
  queue,     \* the asyncio.Lock of write_if_idle: its holder, then those who wait
  quiet,     \* is_idle(): nothing was read or written for idle_interval
  bus        \* history: the last thing that happened on the bus itself

vars == <<link, at, queue, quiet, bus>>

(* "reset" has lost its peer with an error, "ended" by an end of file;    *)
(* "closed" was closed by this program.                                   *)
Links == {"none", "open", "reset", "ended", "closed"}

(* "eof" and "failed" are a read that was woken with no bytes and with an *)
(* exception; "spinning" is a loop that never suspends again.             *)
Inside == {"draining", "sleeping", "connecting"}
ReaderPlaces == {"starting", "backoff", "reading", "eof", "failed", "sleeping",
                 "connecting", "spinning"}
WriterPlaces == {"idle", "queued"} \cup Inside

Init ==
  /\ link = "none"
  /\ at = [a \in Actors |-> IF a = Reader THEN "starting" ELSE "idle"]
  /\ queue = <<>>
  /\ quiet = FALSE
  /\ bus = "still"

Started == at[Reader] \notin {"starting", "backoff"}
Goes(a, place) == at' = [at EXCEPT ![a] = place]

-----------------------------------------------------------------------------
(* The event loop and the network                                         *)

(* A pending read is woken when its connection is lost or closed.         *)
ReaderWoken(place) == IF at[Reader] = "reading" THEN [at EXCEPT ![Reader] = place] ELSE at

Reset ==
  /\ link = "open"
  /\ link' = "reset"
  /\ at' = ReaderWoken("failed")
  /\ UNCHANGED <<queue, quiet, bus>>

End ==
  /\ link = "open"
  /\ link' = "ended"
  /\ at' = ReaderWoken("eof")
  /\ UNCHANGED <<queue, quiet, bus>>

(* idle_interval passes without anything read or written, or on the bus.  *)
Pause ==
  /\ quiet' = TRUE
  /\ bus' = "still"
  /\ UNCHANGED <<link, at, queue>>

(* Other parties talk while nobody reads: is_idle does not notice.        *)
Unheard ==
  /\ at[Reader] # "reading"
  /\ bus' = "unheard"
  /\ UNCHANGED <<link, at, queue, quiet>>

-----------------------------------------------------------------------------
(* ReconnectingTransport                                                  *)

(* connect at start-up, with its back-off; tasks start once it succeeds.  *)
StartConnect ==
  /\ at[Reader] = "starting"
  /\ link' = "open"
  /\ Goes(Reader, "reading")
  /\ UNCHANGED <<queue, quiet, bus>>

StartFails ==
  /\ at[Reader] = "starting"
  /\ Goes(Reader, "backoff")
  /\ UNCHANGED <<link, queue, quiet, bus>>

StartAgain ==
  /\ at[Reader] = "backoff"
  /\ Goes(Reader, "starting")
  /\ UNCHANGED <<link, queue, quiet, bus>>

\* Slip: closing a connection leaves its pending read alone.
LostUnwoken(a) ==
  /\ link' = IF link \in {"open", "ended"} THEN "closed" ELSE link
  /\ Goes(a, "sleeping")
  /\ UNCHANGED <<queue, quiet, bus>>

(* _reconnect up to its sleep: whatever connection there is gets closed,  *)
(* one that the other task has just opened included. A connection that    *)
(* was reset keeps its exception.                                         *)
Lost(a) ==
  /\ link' = IF link \in {"open", "ended"} THEN "closed" ELSE link
  /\ at' = [ReaderWoken("eof") EXCEPT ![a] = "sleeping"]
  /\ UNCHANGED <<queue, quiet, bus>>

\* Slip: a task waits for another one that is reconnecting already.
SleepOverPolite(a) ==
  /\ at[a] = "sleeping"
  /\ at[Reader] \notin {"eof", "failed"}
  /\ \A b \in Actors \ {a} : at[b] # "sleeping"
  /\ Goes(a, "connecting")
  /\ UNCHANGED <<link, queue, quiet, bus>>

(* The sleep lasts seconds: a reader that was woken has run by then.      *)
SleepOver(a) ==
  /\ at[a] = "sleeping"
  /\ at[Reader] \notin {"eof", "failed"}
  /\ Goes(a, "connecting")
  /\ UNCHANGED <<link, queue, quiet, bus>>

ReconnectFails(a) ==
  /\ at[a] = "connecting"
  /\ Lost(a)

(* The new connection replaces the old one, which is closed with its last *)
(* reference.                                                             *)
ReaderReconnects ==
  /\ at[Reader] = "connecting"
  /\ link' = "open"
  /\ Goes(Reader, "reading")
  /\ UNCHANGED <<queue, quiet, bus>>

-----------------------------------------------------------------------------
(* The reader: receive_packets asks for the next byte without suspending. *)

Byte ==
  /\ at[Reader] = "reading"
  /\ quiet' = FALSE
  /\ bus' = "heard"
  /\ UNCHANGED <<link, at, queue>>

(* Reading a connection that has ended returns no bytes, at once and for  *)
(* ever; one that was reset raises.                                       *)
NextRead ==
  [l \in Links |-> CASE l = "open" -> "reading" [] l = "reset" -> "sleeping" [] OTHER -> "spinning"]

EndOfFile ==
  /\ at[Reader] = "eof"
  /\ quiet' = FALSE
  /\ Goes(Reader, NextRead[link])
  /\ UNCHANGED <<link, queue, bus>>

ReadRaises ==
  /\ at[Reader] = "failed"
  /\ Lost(Reader)

-----------------------------------------------------------------------------
(* The writers: write_if_idle                                             *)

Request(w) ==
  /\ Started
  /\ at[w] = "idle"
  /\ Goes(w, "queued")
  /\ queue' = Append(queue, w)
  /\ UNCHANGED <<link, quiet, bus>>

\* Slip: everyone who waits may write.
HoldsAny(w) == w \in {queue[i] : i \in 1..Len(queue)}

Holds(w) == queue # <<>> /\ Head(queue) = w

\* Slip: a write is no activity.
UnStamped == UNCHANGED quiet

(* A frame handed to the connection is activity; one that the peer closed *)
(* takes it as well, and loses it.                                        *)
Stamped == quiet' = FALSE
Sent(w, l) ==
  /\ Stamped
  /\ bus' = IF l = "open" THEN "sent" ELSE bus
  /\ queue' = Tail(queue)

\* Slip: the lock is not released on a busy bus.
BusyLocked(w) ==
  /\ at[w] = "queued" /\ Holds(w)
  /\ ~quiet
  /\ Goes(w, "idle")
  /\ UNCHANGED <<link, queue, quiet, bus>>

Busy(w) ==
  /\ at[w] = "queued" /\ Holds(w)
  /\ ~quiet
  /\ Goes(w, "idle")
  /\ queue' = Tail(queue)
  /\ UNCHANGED <<link, quiet, bus>>

\* Slip: whether the bus is idle was looked at before the lock was taken.
WriteUnlooked(w) ==
  /\ at[w] = "queued" /\ Holds(w)
  /\ link \in {"open", "ended"}
  /\ Goes(w, "idle")
  /\ Sent(w, link)
  /\ UNCHANGED link

Write(w) ==
  /\ at[w] = "queued" /\ Holds(w)
  /\ quiet
  /\ link \in {"open", "ended"}
  /\ Goes(w, "idle")
  /\ Sent(w, link)
  /\ UNCHANGED link

(* A connection that was reset raises at once; on one that is closed, or  *)
(* turns out to be broken, the exception comes after a suspension.        *)
WriteRaises(w) ==
  /\ at[w] = "queued" /\ Holds(w)
  /\ quiet
  /\ link = "reset"
  /\ Lost(w)

WriteBreaks(w) ==
  /\ at[w] = "queued" /\ Holds(w)
  /\ quiet
  /\ link \in {"ended", "closed"}
  /\ link' = IF link = "ended" THEN "reset" ELSE link
  /\ Goes(w, "draining")
  /\ UNCHANGED <<queue, quiet, bus>>

DrainRaises(w) ==
  /\ at[w] = "draining"
  /\ Lost(w)

(* The frame goes out right after the connection, whatever the bus does.  *)
WriterReconnects(w) ==
  /\ at[w] = "connecting"
  /\ link' = "open"
  /\ at' = [ReaderWoken("eof") EXCEPT ![w] = "idle"]
  /\ Sent(w, "open")

-----------------------------------------------------------------------------
WriterStep(w) ==
  Busy(w) \/ Write(w) \/ WriteRaises(w) \/ WriteBreaks(w) \/ DrainRaises(w)

(* A spinning reader suspends no more: nothing else runs on the loop.     *)
Runs == at[Reader] # "spinning"

Next ==
  /\ Runs
  /\ \/ StartConnect \/ StartFails \/ StartAgain
     \/ Reset \/ End \/ Pause \/ Unheard
     \/ Byte \/ EndOfFile \/ ReadRaises \/ ReaderReconnects
     \/ \E a \in Actors : SleepOver(a) \/ ReconnectFails(a)
     \/ \E w \in Writers : Request(w) \/ WriterStep(w) \/ WriterReconnects(w)

Spec == Init /\ [][Next]_vars

(* The loop runs what is ready and due; of connections tried again and    *)
(* again one succeeds.                                                    *)
Fairness ==
  /\ WF_vars(Runs /\ StartAgain)
  /\ SF_vars(Runs /\ StartConnect)
  /\ WF_vars(Runs /\ (EndOfFile \/ ReadRaises))
  /\ SF_vars(Runs /\ ReaderReconnects)
  /\ \A a \in Actors : SF_vars(Runs /\ SleepOver(a))
  /\ \A w \in Writers : WF_vars(Runs /\ WriterStep(w)) /\ SF_vars(Runs /\ WriterReconnects(w))

FairSpec == Spec /\ Fairness

-----------------------------------------------------------------------------
(* Properties                                                             *)

TypeOK ==
  /\ link \in Links
  /\ at \in [Actors -> ReaderPlaces \cup WriterPlaces]
  /\ at[Reader] \in ReaderPlaces
  /\ \A w \in Writers : at[w] \in WriterPlaces
  /\ queue \in Seq(Writers)
  /\ quiet \in BOOLEAN
  /\ bus \in {"still", "heard", "unheard", "sent"}

(* However long a write takes to find a connection, no other write is in  *)
(* the transport: the lock is held across every suspension of             *)
(* write_if_idle, reconnections included.                                 *)
OneWriter == \A v, w \in Writers : at[v] \in Inside /\ at[w] \in Inside => v = w

(* A pending read waits on the connection that the writers use, and that  *)
(* connection is alive: nobody closes or replaces it under the reader     *)
(* without waking it.                                                     *)
ReaderOnLink == at[Reader] = "reading" => link = "open"

(* When is_idle says so, the last thing on the bus that this program read *)
(* or wrote is past: only what nobody read can be going on.               *)
IdleIsQuiet == quiet => bus \in {"still", "unheard"}

(* A frame that is put on the bus right after a byte of somebody else is   *)
(* one that found the bus idle and then had to wait for a reconnection:    *)
(* apart from that case, write_if_idle keeps its promise however its lock, *)
(* its suspensions and the reader's bytes interleave.                      *)
CutsInOnlyLate ==
  [][bus = "heard" /\ bus' = "sent" =>
        \E w \in Writers : at[w] = "connecting" /\ at'[w] = "idle"]_vars

IInv ==
  /\ TypeOK
  /\ \A w \in Writers : at[w] \in Inside => Holds(w)
  /\ ReaderOnLink
  /\ IdleIsQuiet

(* A reader that lost its connection, or failed to open one, reads again: *)
(* _reconnect gives up only when the loop is starved.                     *)
ReadsAgain == at[Reader] \in {"starting", "failed"} ~> at[Reader] \in {"reading", "spinning"}

(* A write that was asked for comes to an end: a busy bus, a reset        *)
(* connection and a failed reconnection all release the lock in time.     *)
WritesEnd == \A w \in Writers : at[w] = "queued" ~> (at[w] = "idle" \/ ~Runs)

(* docs/architecture.md: after a lost connection the transport reconnects *)
(* by itself; in particular it does not come to a standstill.             *)
NeverStarved == Runs

=============================================================================
