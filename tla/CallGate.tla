------------------------------ MODULE CallGate -------------------------------
(***************************************************************************)
(* What the API gatekeeper promises its callers, with no counter, pruning, *)
(* retry or drain loop in sight.  A call starts at once when its service   *)
(* has room in both windows and under the concurrency cap; otherwise it    *)
(* waits its turn, or is refused when the waiting line is full.  A waiting *)
(* call is claimed only from the head of its line and only when both       *)
(* windows have room (the promise says nothing of the cap there), and      *)
(* counts in the windows from then on.  A claimed call starts in its own   *)
(* time, perhaps after one claimed later, or is lost; nothing else is.  A  *)
(* call starts at most once and is among the running until it ends.        *)
(***************************************************************************)
EXTENDS Integers, Sequences, FiniteSets

CONSTANTS Calls, Services, ServiceOf, LimitsOf, Minute, Hour

VARIABLES time, admitted, waiting, claimed, running, ended, refused, lost

vars == <<time, admitted, waiting, claimed, running, ended, refused, lost>>

Waiting == UNION {{waiting[s][i] : i \in DOMAIN waiting[s]} : s \in Services}

Fresh == Calls \ (Waiting \cup claimed \cup running \cup ended \cup refused \cup lost)

AdmittedWithin(s, window) == {i \in DOMAIN admitted[s] : admitted[s][i] > time - window}

WindowsHaveRoom(s) ==
  /\ Cardinality(AdmittedWithin(s, Minute)) < LimitsOf[s].requests_per_minute
  /\ Cardinality(AdmittedWithin(s, Hour)) < LimitsOf[s].requests_per_hour

UnderCap(s) ==
  Cardinality({c \in running : ServiceOf[c] = s}) < LimitsOf[s].concurrent_max

Admit(s) == admitted' = [admitted EXCEPT ![s] = Append(@, time)]

Start(c) ==
  /\ c \in Fresh
  /\ WindowsHaveRoom(ServiceOf[c]) /\ UnderCap(ServiceOf[c])
  /\ Admit(ServiceOf[c])
  /\ running' = running \cup {c}
  /\ UNCHANGED <<time, waiting, claimed, ended, refused, lost>>

Defer(c) ==
  LET s == ServiceOf[c]
  IN  /\ c \in Fresh
      /\ ~(WindowsHaveRoom(s) /\ UnderCap(s))
      /\ Len(waiting[s]) < LimitsOf[s].queue_max_depth
      /\ waiting' = [waiting EXCEPT ![s] = Append(@, c)]
      /\ UNCHANGED <<time, admitted, claimed, running, ended, refused, lost>>

Refuse(c) ==
  LET s == ServiceOf[c]
  IN  /\ c \in Fresh
      /\ ~(WindowsHaveRoom(s) /\ UnderCap(s))
      /\ Len(waiting[s]) = LimitsOf[s].queue_max_depth
      /\ refused' = refused \cup {c}
      /\ UNCHANGED <<time, admitted, waiting, claimed, running, ended, lost>>

Claim(s) ==
  /\ waiting[s] # <<>>
  /\ WindowsHaveRoom(s)
  /\ Admit(s)
  /\ waiting' = [waiting EXCEPT ![s] = Tail(@)]
  /\ claimed' = claimed \cup {Head(waiting[s])}
  /\ UNCHANGED <<time, running, ended, refused, lost>>

StartClaimed(c) ==
  /\ c \in claimed
  /\ claimed' = claimed \ {c}
  /\ running' = running \cup {c}
  /\ UNCHANGED <<time, admitted, waiting, ended, refused, lost>>

Lose(c) ==
  /\ c \in claimed
  /\ claimed' = claimed \ {c}
  /\ lost' = lost \cup {c}
  /\ UNCHANGED <<time, admitted, waiting, running, ended, refused>>

End(c) ==
  /\ c \in running
  /\ running' = running \ {c}
  /\ ended' = ended \cup {c}
  /\ UNCHANGED <<time, admitted, waiting, claimed, refused, lost>>

Pass ==
  /\ time' = time + 1
  /\ UNCHANGED <<admitted, waiting, claimed, running, ended, refused, lost>>

Init ==
  /\ time = 0
  /\ admitted = [s \in Services |-> <<>>]
  /\ waiting = [s \in Services |-> <<>>]
  /\ claimed = {} /\ running = {} /\ ended = {} /\ refused = {} /\ lost = {}

Next ==
  \/ Pass
  \/ \E c \in Calls : Start(c) \/ Defer(c) \/ Refuse(c) \/ StartClaimed(c) \/ Lose(c) \/ End(c)
  \/ \E s \in Services : Claim(s)

Spec == Init /\ [][Next]_vars
=============================================================================
