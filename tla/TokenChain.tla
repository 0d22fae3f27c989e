----------------------------- MODULE TokenChain -----------------------------
(***************************************************************************)
(* What sign-in sessions promise: a session is opened once, exchanges its  *)
(* tokens one after the other, each once, while it is open, and never      *)
(* reopens.                                                                *)
(***************************************************************************)
EXTENDS Naturals

CONSTANTS Session, Token

VARIABLES state,    \* "none", "open" or "ended"
          exchanged \* how often each token of a session was exchanged

Init ==
  /\ state = [s \in Session |-> "none"]
  /\ exchanged = [s \in Session |-> [n \in Token |-> 0]]

Open(s) ==
  /\ state[s] = "none"
  /\ state' = [state EXCEPT ![s] = "open"]
  /\ UNCHANGED exchanged

\* Token n is exchanged after all before it and none after it.
Exchange(s, n) ==
  /\ state[s] = "open"
  /\ exchanged[s] = [m \in Token |-> IF m < n THEN 1 ELSE 0]
  /\ exchanged' = [exchanged EXCEPT ![s][n] = 1]
  /\ UNCHANGED state

\* A reset ends many sessions at once.
End(ended) ==
  /\ \A s \in ended : state[s] = "open"
  /\ state' = [s \in Session |-> IF s \in ended THEN "ended" ELSE state[s]]
  /\ UNCHANGED exchanged

Next ==
  \/ \E s \in Session : Open(s) \/ \E n \in Token : Exchange(s, n)
  \/ \E ended \in SUBSET Session : End(ended)

Spec == Init /\ [][Next]_<<state, exchanged>>
=============================================================================
