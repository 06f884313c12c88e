------------------------------ MODULE WorkQueue ------------------------------
(***************************************************************************)
(* What the event queue promises, without rows, attempts or delays.  Work  *)
(* that has been asked for stays due until a worker that claimed it after  *)
(* it was asked for has handled it; a claim is exclusive, and giving one   *)
(* up, for whatever reason, leaves the work due.                           *)
(***************************************************************************)
EXTENDS Naturals

CONSTANTS Work, Workers

VARIABLES
  asked,     \* how often each piece of work was asked for
  due,       \* work asked for and not yet finished
  claimed,   \* what each worker is at work on
  handled    \* the part of its claim a worker has handled

wqvars == <<asked, due, claimed, handled>>

Claimed == UNION {claimed[w] : w \in Workers}

WQInit ==
  /\ asked = [e \in Work |-> 0]
  /\ due = {}
  /\ claimed = [w \in Workers |-> {}]
  /\ handled = [w \in Workers |-> {}]

\* A request never joins a claim: it would be taken for handled with it.
Ask(e) ==
  /\ e \in Work \ Claimed
  /\ asked' = [asked EXCEPT ![e] = @ + 1]
  /\ due' = due \union {e}
  /\ UNCHANGED <<claimed, handled>>

Claim(w, S) ==
  /\ claimed[w] = {}
  /\ S \subseteq due \ Claimed
  /\ claimed' = [claimed EXCEPT ![w] = S]
  /\ UNCHANGED <<asked, due, handled>>

Handle(w, D) ==
  /\ D \subseteq claimed[w]
  /\ handled' = [handled EXCEPT ![w] = D]
  /\ UNCHANGED <<asked, due, claimed>>

\* The worker gives its claim up; D, all of it handled, is no longer due.
Finish(w, D) ==
  /\ D \subseteq handled[w]
  /\ due' = due \ D
  /\ claimed' = [claimed EXCEPT ![w] = {}]
  /\ handled' = [handled EXCEPT ![w] = {}]
  /\ UNCHANGED asked

WQNext ==
  \/ \E e \in Work : Ask(e)
  \/ \E w \in Workers, S \in SUBSET Work : Claim(w, S) \/ Handle(w, S) \/ Finish(w, S)

WQSpec == WQInit /\ [][WQNext]_wqvars
=============================================================================
