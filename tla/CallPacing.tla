----------------------------- MODULE CallPacing -----------------------------
(***************************************************************************)
(* What a connection with `maxConcurrentCalls` promises about the requests *)
(* given to it, without saying how: a request is pending until it is       *)
(* written, is written at most once, and no more than Limit of them await  *)
(* an answer at any moment.  CallLimiter is shown to implement this.       *)
(***************************************************************************)
EXTENDS Naturals, FiniteSets

CONSTANTS MaxSends,   \* requests are numbered 1..MaxSends in the order they are sent
          Limit       \* maxConcurrentCalls

VARIABLE stage        \* how far each request has come

Calls == 1..MaxSends
Stages == {"unsent", "pending", "out", "ended"}

In(st, s) == {c \in Calls : s[c] = st}

\* "pending" to "ended" is a request taken back or refused; "out" to "ended"
\* one answered, or lost with its socket.  Nothing is ever written twice.
Progress ==
  {<<st, st>> : st \in Stages} \cup
  {<<"unsent", "pending">>, <<"unsent", "out">>, <<"pending", "out">>,
   <<"pending", "ended">>, <<"out", "ended">>}

Init == stage = [c \in Calls |-> "unsent"]

\* One event may move several requests: an answer that makes room for the
\* next, a lost socket that takes everything written on it.
Step ==
  /\ stage' \in [Calls -> Stages]
  /\ \A c \in Calls : <<stage[c], stage'[c]>> \in Progress
  /\ Cardinality(In("out", stage')) <= Limit
  /\ \A c, d \in Calls : c < d /\ stage'[d] # "unsent" => stage'[c] # "unsent"

Spec == Init /\ [][Step]_stage
=============================================================================
