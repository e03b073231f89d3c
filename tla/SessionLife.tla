---------------------------- MODULE SessionLife ----------------------------
(***************************************************************************)
(* What the life of a session looks like to its owner: it is up, asleep    *)
(* (hibernated), waking, exited, or removed from the list.  SessionActor   *)
(* is shown to implement this.                                             *)
(*                                                                         *)
(* An agent that sleeps can always be started again (`keeps`: its sealed   *)
(* launch is on disk).  A close by the owner is final: it ends a sleep, a  *)
(* closed session never goes to sleep, and none that has ended wakes.      *)
(***************************************************************************)
VARIABLES
    phase,  \* "up", "waking", "hibernated", "exited" or "removed"
    keeps,  \* the launch of the session is kept
    closed  \* the owner closed the session while it had not ended

vars == <<phase, keeps, closed>>

TypeOK ==
    /\ phase \in {"up", "waking", "hibernated", "exited", "removed"}
    /\ keeps \in BOOLEAN /\ closed \in BOOLEAN

Init == phase = "up" /\ keeps \in BOOLEAN /\ closed = FALSE

\* The owner closes a session that has a process, or will have one: it ends
\* later, by itself.
CloseRequested ==
    /\ phase \in {"up", "waking"}
    /\ closed' = TRUE
    /\ UNCHANGED <<phase, keeps>>

\* A close, or a launch found unusable, ends a session that sleeps.
EndAsleep ==
    /\ phase = "hibernated"
    /\ phase' = "exited" /\ keeps' = FALSE /\ closed' \in BOOLEAN

\* The process ended.  Only a session the owner did not close may sleep.
FallAsleep ==
    /\ phase \in {"up", "waking"} /\ keeps /\ ~closed
    /\ phase' = "hibernated"
    /\ UNCHANGED <<keeps, closed>>

End ==
    /\ phase \in {"up", "waking"}
    /\ phase' = "exited" /\ keeps' = (keeps /\ ~closed)
    /\ UNCHANGED closed

\* A session that has exited by itself goes to sleep to be woken.
SleepAgain ==
    /\ phase = "exited" /\ keeps /\ ~closed
    /\ phase' = "hibernated"
    /\ UNCHANGED <<keeps, closed>>

Wake ==
    /\ phase = "hibernated" /\ ~closed
    /\ phase' = "waking"
    /\ UNCHANGED <<keeps, closed>>

Awake ==
    /\ phase = "waking"
    /\ phase' = "up"
    /\ UNCHANGED <<keeps, closed>>

LoseLaunch ==
    /\ phase = "exited"
    /\ keeps' = FALSE
    /\ UNCHANGED <<phase, closed>>

Remove ==
    /\ phase \in {"hibernated", "exited"}
    /\ phase' = "removed" /\ keeps' = FALSE
    /\ UNCHANGED closed

Next ==
    \/ CloseRequested \/ EndAsleep \/ FallAsleep \/ End \/ SleepAgain
    \/ Wake \/ Awake \/ LoseLaunch \/ Remove

Spec == Init /\ [][Next]_vars
=============================================================================
