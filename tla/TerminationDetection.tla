------------------------ MODULE TerminationDetection ------------------------
(***************************************************************************)
(* What the distributed consensus promises its callers, stated without     *)
(* tokens, counters, locks or condition variables.  A process is busy when *)
(* it has work queued or running; pending[p] counts the task-carrying RPC  *)
(* calls on their way to p.  A process may only be told that consensus is  *)
(* achieved (async_consensus::is_done) when nobody is busy and nothing     *)
(* that could make somebody busy is on its way.                            *)
(***************************************************************************)
EXTENDS Naturals

CONSTANT Proc       \* the machines, 0 .. numprocs()-1 in the code

VARIABLES
  busy,             \* busy[p]: p has queued or running work
  pending,          \* pending[p]: task calls sent to p and not yet delivered
  detected          \* detected[p]: p has been told that consensus is achieved

vars == <<busy, pending, detected>>

TypeOK ==
  /\ busy \in [Proc -> BOOLEAN]
  /\ pending \in [Proc -> Nat]
  /\ detected \in [Proc -> BOOLEAN]

Quiescent == \A p \in Proc : ~busy[p] /\ pending[p] = 0

Init ==
  /\ busy \in [Proc -> BOOLEAN]
  /\ pending = [p \in Proc |-> 0]
  /\ detected = [p \in Proc |-> FALSE]

\* Only a process that is doing something can create work elsewhere.
Send(p, q) ==
  /\ busy[p]
  /\ pending' = [pending EXCEPT ![q] = @ + 1]
  /\ UNCHANGED <<busy, detected>>

Receive(p) ==
  /\ pending[p] > 0
  /\ pending' = [pending EXCEPT ![p] = @ - 1]
  /\ busy' = [busy EXCEPT ![p] = TRUE]
  /\ UNCHANGED detected

Finish(p) ==
  /\ busy[p]
  /\ busy' = [busy EXCEPT ![p] = FALSE]
  /\ UNCHANGED <<pending, detected>>

Detect(p) ==
  /\ Quiescent
  /\ detected' = [detected EXCEPT ![p] = TRUE]
  /\ UNCHANGED <<busy, pending>>

\* A new run of the engine: every process knew, then all of them start over.
Restart ==
  /\ \A p \in Proc : detected[p]
  /\ busy' \in [Proc -> BOOLEAN]
  /\ detected' = [p \in Proc |-> FALSE]
  /\ UNCHANGED pending

Next ==
  \/ \E p, q \in Proc : Send(p, q)
  \/ \E p \in Proc : Receive(p) \/ Finish(p) \/ Detect(p)
  \/ Restart

Spec == Init /\ [][Next]_vars

-----------------------------------------------------------------------------
\* A process that has been told is right: no work is left and none is on its
\* way, and none can appear until every process has been told.
DetectionSound == (\E p \in Proc : detected[p]) => Quiescent

=============================================================================
