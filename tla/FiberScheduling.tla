-------------------------- MODULE FiberScheduling --------------------------
(***************************************************************************)
(* What the fiber scheduler promises its users: a fiber runs on at most    *)
(* one worker, sleeps only when it asked to and has left its worker, and   *)
(* ends once.                                                              *)
(***************************************************************************)
CONSTANTS Fiber, Worker

VARIABLES
  status,    \* what each fiber is doing
  on         \* the workers whose stack pointer is in it

vars == <<status, on>>

Init ==
  /\ status = [f \in Fiber |-> "unborn"]
  /\ on = [f \in Fiber |-> {}]

Become(f, from, to) ==
  /\ status[f] = from
  /\ status' = [status EXCEPT ![f] = to]

Launch(f) == Become(f, "unborn", "runnable") /\ UNCHANGED on

Run(f, w) ==
  /\ Become(f, "runnable", "running")
  /\ on[f] = {}
  /\ on' = [on EXCEPT ![f] = {w}]

Leave(f, to) ==
  /\ Become(f, "running", to)
  /\ on' = [on EXCEPT ![f] = {}]

Wake(f) == Become(f, "asleep", "runnable") /\ UNCHANGED on

Next ==
  \E f \in Fiber :
    \/ Launch(f)
    \/ \E w \in Worker : Run(f, w)
    \/ \E to \in {"runnable", "asleep", "dead"} : Leave(f, to)
    \/ Wake(f)

Spec == Init /\ [][Next]_vars
=============================================================================
