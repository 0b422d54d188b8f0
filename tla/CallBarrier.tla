---------------------------- MODULE CallBarrier ----------------------------
(***************************************************************************)
(* What full_barrier() gives: machines issue calls to each other between   *)
(* barriers, and a machine leaves a barrier when all have entered it and   *)
(* all calls issued before it have been run, on whichever machine.  What   *)
(* dc.hpp promises has no exception; the code has one, stated by Enter:    *)
(* calls are run, then settled, and a machine that enters before a call it *)
(* has run is settled may miss the calls of the machine that issued it.    *)
(***************************************************************************)
EXTENDS Integers

CONSTANTS Proc

VARIABLES
  entered, left,     \* how many barriers each machine has entered, and left
  issued,            \* calls from one machine to another
  executed, settled, \* those of them that are run, and run and counted
  missed             \* the machines whose calls each may leave without

vars == <<entered, left, issued, executed, settled, missed>>

Inside(p) == left[p] < entered[p]

Init ==
  /\ entered = [p \in Proc |-> 0]
  /\ left = entered
  /\ issued = [p \in Proc |-> [q \in Proc |-> 0]]
  /\ executed = issued
  /\ settled = issued
  /\ missed = [p \in Proc |-> {}]

Issue(p, q) ==
  /\ ~Inside(p)
  /\ issued' = [issued EXCEPT ![p][q] = @ + 1]
  /\ UNCHANGED <<entered, left, executed, settled, missed>>

Execute(p, q) ==
  /\ executed[p][q] < issued[p][q]
  /\ executed' = [executed EXCEPT ![p][q] = @ + 1]
  /\ UNCHANGED <<entered, left, issued, settled, missed>>

Settle(p, q) ==
  /\ settled[p][q] < executed[p][q]
  /\ settled' = [settled EXCEPT ![p][q] = @ + 1]
  /\ UNCHANGED <<entered, left, issued, executed, missed>>

Unsettled(p) == {q \in Proc : settled[q][p] < executed[q][p]}

Enter(p) ==
  /\ ~Inside(p)
  /\ entered' = [entered EXCEPT ![p] = @ + 1]
  /\ \E qs \in SUBSET Unsettled(p) : missed' = [missed EXCEPT ![p] = qs]
  /\ UNCHANGED <<left, issued, executed, settled>>

\* The first to leave finds every call run; after that others may issue new ones.
Leave(p) ==
  /\ Inside(p)
  /\ \A q \in Proc : entered[q] >= entered[p]
  /\ (\A q \in Proc : left[q] < entered[p]) =>
        \A to \in Proc : \A from \in Proc \ missed[to] :
          executed[from][to] = issued[from][to]
  /\ left' = [left EXCEPT ![p] = @ + 1]
  /\ UNCHANGED <<entered, issued, executed, settled, missed>>

Next ==
  \E p \in Proc : \/ Enter(p) \/ Leave(p)
                 \/ \E q \in Proc : Issue(p, q) \/ Execute(p, q) \/ Settle(p, q)

Spec == Init /\ [][Next]_vars

=============================================================================
