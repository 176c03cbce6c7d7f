------------------------------ MODULE LiveFeed ------------------------------
(***************************************************************************)
(* What live streaming promises the consumers of a run's events, whatever  *)
(* queues, buffers and threads lie between them: each consumer, whenever it *)
(* connects, is given the run's events from the first one on, in order and *)
(* without a gap, and is told the end only when the run has ended and it   *)
(* has been given all of them.                                             *)
(***************************************************************************)
EXTENDS Integers, Sequences

CONSTANTS Readers, Last

VARIABLES
  produced,   \* how many events the run has emitted: they are 1, 2, ...
  over,       \* whether the run has ended
  delivered,  \* reader -> the events it was given
  told        \* the readers told that the run is over

vars == <<produced, over, delivered, told>>

Produce ==
  /\ ~over /\ produced < Last
  /\ produced' = produced + 1
  /\ UNCHANGED <<over, delivered, told>>

Finish ==
  /\ ~over
  /\ over' = TRUE
  /\ UNCHANGED <<produced, delivered, told>>

Deliver(r) ==
  /\ r \notin told
  /\ Len(delivered[r]) < produced
  /\ delivered' = [delivered EXCEPT ![r] = Append(@, Len(@) + 1)]
  /\ UNCHANGED <<produced, over, told>>

Tell(r) ==
  /\ r \notin told
  /\ over /\ Len(delivered[r]) = produced
  /\ told' = told \cup {r}
  /\ UNCHANGED <<produced, over, delivered>>

Init ==
  /\ produced = 0 /\ over = FALSE
  /\ delivered = [r \in Readers |-> <<>>]
  /\ told = {}

Next == Produce \/ Finish \/ (\E r \in Readers : Deliver(r) \/ Tell(r))

Spec == Init /\ [][Next]_vars
=============================================================================
