-------------------------- MODULE BulkSynchronous --------------------------
(***************************************************************************)
(* What the synchronous engines promise (the Execution Semantics of        *)
(* powerlyra_sync_engine.hpp), on a graph that is not cut: in a super-step *)
(* the vertices that were signalled in the last one receive their          *)
(* messages; they all gather before any of them applies, and all apply     *)
(* before any of them scatters.                                            *)
(*                                                                         *)
(* A signal to a vertex id is a call that nobody waits for.  It may be     *)
(* received in a later super-step, or forgotten: that is what the engines  *)
(* keep of it.                                                             *)
(***************************************************************************)
EXTENDS GasPrograms

VARIABLES
  mode,
  stage,       \* "receive", "apply", "scatter" or "ended"
  data,        \* vertex data
  signalled,   \* vertices with messages, for the next super-step to receive
  box,         \* their messages
  active,      \* vertices of this super-step, what they have received, ...
  received,
  total,       \* ... what they have gathered and are still to apply, ...
  outgoing     \* ... and the edges they are still to signal along

vars == <<mode, stage, data, signalled, box, active, received, total, outgoing>>

Init ==
  /\ mode \in Mode
  /\ stage = "receive"
  /\ data = [v \in Vertex |-> InitialData]
  /\ signalled \subseteq Vertex
  /\ box = [v \in Vertex |-> IF v \in signalled /\ ~mode.plain THEN {Start} ELSE {}]
  /\ active = {}
  /\ received = [v \in Vertex |-> {}]
  /\ total = [v \in Vertex |-> Zero]
  /\ outgoing = [v \in Vertex |-> {}]

Receive(v) ==
  /\ stage = "receive" /\ v \in signalled
  /\ active' = active \cup {v}
  /\ \E taken \in SUBSET box[v] : \E late \in SUBSET box[v] :
       /\ taken \cup late = box[v]
       /\ received' = [received EXCEPT ![v] = taken]
       /\ box' = [box EXCEPT ![v] = late]
       /\ \/ signalled' = signalled \ {v} /\ late = {}
          \/ mode.by_id /\ UNCHANGED signalled
  /\ UNCHANGED <<mode, stage, data, total, outgoing>>

Forget(v) ==
  /\ mode.by_id /\ v \in signalled
  /\ signalled' \in {signalled, signalled \ {v}}
  /\ \E rest \in SUBSET box[v] : box' = [box EXCEPT ![v] = rest]
  /\ UNCHANGED <<mode, stage, data, active, received, total, outgoing>>

\* Everything has been received: all active vertices gather.
AllReceived == signalled = {} \/ mode.by_id

Gathered(v) ==
  LET from == Along(v, gather_edges(mode, [DefaultProgram EXCEPT !.message = received[v]]))
  IN [e \in Edge |-> IF e \in from THEN data[Other(e, v)].applies ELSE 0]

Gather ==
  /\ stage = "receive" /\ AllReceived /\ active # {}
  /\ total' = [v \in Vertex |-> IF v \in active THEN Gathered(v) ELSE Zero]
  /\ stage' = "apply"
  /\ UNCHANGED <<mode, data, signalled, box, active, received, outgoing>>

Apply(v) ==
  /\ stage = "apply" /\ v \in active
  /\ data' = [data EXCEPT ![v] = Applied(@, received[v], total[v])]
  /\ active' = active \ {v}
  /\ received' = [received EXCEPT ![v] = {}]
  /\ total' = [total EXCEPT ![v] = Zero]
  /\ outgoing' \in {[outgoing EXCEPT ![v] = out] : out \in {{}, Along(v, mode.scatter)}}
  /\ UNCHANGED <<mode, stage, signalled, box>>

StartScatter ==
  /\ stage = "apply" /\ active = {}
  /\ stage' = "scatter"
  /\ UNCHANGED <<mode, data, signalled, box, active, received, total, outgoing>>

\* A vertex signals along some of its edges: those of one replica.
Scatter(v, out) ==
  /\ stage = "scatter" /\ out # {}
  /\ outgoing' = [outgoing EXCEPT ![v] = @ \ out]
  /\ signalled' = signalled \cup {Other(e, v) : e \in out}
  /\ box' = [u \in Vertex |->
               box[u] \cup IF mode.plain THEN {} ELSE {e \in out : Other(e, v) = u}]
  /\ UNCHANGED <<mode, stage, data, active, received, total>>

NextSuperStep ==
  /\ stage = "scatter" /\ \A v \in Vertex : outgoing[v] = {}
  /\ stage' = "receive"
  /\ UNCHANGED <<mode, data, signalled, box, active, received, total, outgoing>>

\* Between two super-steps: because nobody is signalled, or the number of
\* iterations or a call of stop() ends the run.
End(stopped) ==
  /\ stage = "receive" /\ active = {}
  /\ AllReceived \/ stopped
  /\ stage' = "ended"
  /\ UNCHANGED <<mode, data, signalled, box, active, received, total, outgoing>>

Next(stopped) ==
  \/ \E v \in Vertex : Receive(v) \/ Forget(v) \/ Apply(v) \/ \E out \in SUBSET outgoing[v] : Scatter(v, out)
  \/ Gather \/ StartScatter \/ NextSuperStep \/ End(stopped)

=============================================================================
