-------------------------- MODULE VertexExecution --------------------------
(***************************************************************************)
(* What the asynchronous engine promises the programmer of a vertex        *)
(* program, without machines, fibers, schedulers or calls: every message   *)
(* signalled to a vertex is given to exactly one run of its program, a     *)
(* vertex has one run at a time, and the engine ends when no message is    *)
(* left.  An engine that has been stopped may lose messages.               *)
(***************************************************************************)
CONSTANTS Vertex, Message, Machine

VARIABLES
  pending,          \* pending[v]: messages signalled to v and not yet given to a run
  executed,         \* messages that were given to a run
  running,          \* vertices whose program runs
  stopped,          \* a time-out, or a call of stop(), has been seen
  ended             \* machines that know that the engine has ended

vars == <<pending, executed, running, stopped, ended>>

Waiting == UNION {pending[v] : v \in Vertex}

Init ==
  /\ pending \in [Vertex -> SUBSET Message]
  /\ executed = {}
  /\ running = {}
  /\ stopped = FALSE
  /\ ended = {}

\* Only running programs signal.
Signal(v, m) ==
  /\ running # {}
  /\ m \notin executed \cup Waiting
  /\ pending' = [pending EXCEPT ![v] = @ \cup {m}]
  /\ UNCHANGED <<executed, running, stopped, ended>>

\* A run takes some of the messages of its vertex, combined into one.
Run(v) ==
  /\ v \notin running
  /\ \E S \in (SUBSET pending[v]) \ {{}} :
       /\ pending' = [pending EXCEPT ![v] = @ \ S]
       /\ executed' = executed \cup S
  /\ running' = running \cup {v}
  /\ UNCHANGED <<stopped, ended>>

Finish(v) ==
  /\ v \in running
  /\ running' = running \ {v}
  /\ UNCHANGED <<pending, executed, stopped, ended>>

Stop ==
  /\ stopped' = TRUE
  /\ UNCHANGED <<pending, executed, running, ended>>

Lose(v) ==
  /\ stopped
  /\ \E S \in SUBSET pending[v] : pending' = [pending EXCEPT ![v] = S]
  /\ UNCHANGED <<executed, running, stopped, ended>>

End(k) ==
  /\ running = {}
  /\ stopped \/ Waiting = {}
  /\ ended' = ended \cup {k}
  /\ UNCHANGED <<pending, executed, running, stopped>>

Next ==
  \/ \E v \in Vertex : Run(v) \/ Finish(v) \/ Lose(v)
  \/ \E v \in Vertex, m \in Message : Signal(v, m)
  \/ Stop
  \/ \E k \in Machine : End(k)

Spec == Init /\ [][Next]_vars

=============================================================================
