--------------------------- MODULE SearchPromise ---------------------------
(***************************************************************************)
(* What a debater's model may rely on when it searches the web: whatever   *)
(* the provider, the network and the gatekeeper do, a search is answered   *)
(* once and in the end, with texts that are safe to read, possibly none.   *)
(* It is refused only where the request or the configuration is at fault.  *)
(***************************************************************************)
CONSTANTS
  Callers,   \* threads that search
  SafeTexts  \* what is safe to give to a model

VARIABLES
  asked,   \* caller -> "idle", or whether what it asked for is "sound" or "faulty"
  answer   \* caller -> the kind of its answer and the texts in it

vars == <<asked, answer>>

Ask(c) ==
  /\ asked[c] = "idle"
  /\ \E fault \in {"sound", "faulty"} : asked' = [asked EXCEPT ![c] = fault]
  /\ UNCHANGED answer

Unanswered(c) == answer[c] = <<"none", {}>>

Refuse(c) ==
  /\ asked[c] = "faulty" /\ Unanswered(c)
  /\ answer' = [answer EXCEPT ![c] = <<"refused", {}>>]
  /\ UNCHANGED asked

Serve(c) ==
  /\ asked[c] = "sound" /\ Unanswered(c)
  /\ \E texts \in SUBSET SafeTexts : answer' = [answer EXCEPT ![c] = <<"page", texts>>]
  /\ UNCHANGED asked

Init == asked = [c \in Callers |-> "idle"] /\ answer = [c \in Callers |-> <<"none", {}>>]
Next == \E c \in Callers : Ask(c) \/ Refuse(c) \/ Serve(c)
Spec == Init /\ [][Next]_vars /\ \A c \in Callers : WF_vars(Refuse(c) \/ Serve(c))
=============================================================================
