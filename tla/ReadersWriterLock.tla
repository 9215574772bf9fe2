------------------------- MODULE ReadersWriterLock -------------------------
(***************************************************************************)
(* What a lock for readers and writers that prefers writers promises: who  *)
(* may hold it, whom it makes wait, and whom it lets in.  It says nothing  *)
(* of counters, condition variables or notifications; PthreadSync, the     *)
(* library's implementation, is shown to implement it.                     *)
(***************************************************************************)
CONSTANT Threads

VARIABLE phase   \* of each thread: idle, waits for a lock, or holds one

Phases == {"idle", "wantread", "wantwrite", "read", "write"}

Is(p) == \E t \in Threads : phase[t] = p

CanRead == ~Is("write") /\ ~Is("wantwrite")
CanWrite(t) == \A u \in Threads \ {t} : phase[u] \notin {"read", "write"}

Init == phase = [t \in Threads |-> "idle"]

Move(t, from, to) ==
  /\ phase[t] \in from
  /\ phase' = [phase EXCEPT ![t] = to]

\* A lock that can be given is given at once, and makes nobody wait.
Read(t) == CanRead /\ Move(t, {"idle", "wantread"}, "read")
Write(t) == CanWrite(t) /\ Move(t, {"idle", "wantwrite"}, "write")
WaitToRead(t) == ~CanRead /\ Move(t, {"idle"}, "wantread")
WaitToWrite(t) == ~CanWrite(t) /\ Move(t, {"idle"}, "wantwrite")

\* A thread that waits may fail; one that holds a lock gives it back.
GiveUp(t) == Move(t, {"wantread", "wantwrite"}, "idle")
Release(t) == Move(t, {"read", "write"}, "idle")

Next ==
  \E t \in Threads :
    \/ Read(t) \/ Write(t) \/ WaitToRead(t) \/ WaitToWrite(t)
    \/ GiveUp(t) \/ Release(t)

Spec == Init /\ [][Next]_phase
=============================================================================
