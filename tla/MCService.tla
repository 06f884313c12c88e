------------------------------ MODULE MCService ------------------------------
(***************************************************************************)
(* Two services of a process that must go on whatever fails: the one that  *)
(* wakes its consumers when events are inserted, and the election of the   *)
(* replica that runs the crons.  Each behaviour is one of one of them,     *)
(* chosen at the start; the other stays as it is.                          *)
(***************************************************************************)
EXTENDS NotifyRouter, Leadership

VARIABLE about

routing == <<registry, chan, signalMode, buffer, senders, wire, conn, uptime, pending, unseen, pc, inserts, losses>>
election == <<lease, elector, term, starting, todo, labels, crons, down, late, faults>>
service == <<about, routing, election>>

\* Two consumers of one event name, one of which asks for a buffer, and one of another,
\* which asks for a channel without one.
MCRoutesOf == [c1 |-> {"check"}, c2 |-> {"check"}, c3 |-> {"config"}]
MCSize == [c1 |-> 0, c2 |-> 1, c3 |-> -1]
MCNoBuffer == -1

ASSUME RouterAssumption /\ LeadershipAssumption

ServiceInit == about \in {"routing", "election"} /\ Init /\ ElectionInit

Routing(A) == about = "routing" /\ A /\ UNCHANGED <<about, election>>
Electing(A) == about = "election" /\ A /\ UNCHANGED <<about, routing>>

ServiceNext ==
  \/ about = "routing" /\ Next /\ UNCHANGED <<about, election>>
  \/ about = "election" /\ ElectionNext /\ UNCHANGED <<about, routing>>

\* The fairness of each, of which NotifyRouter and Leadership say why.
RoutingFairness ==
  /\ WF_service(Routing(Dispatch)) /\ WF_service(Routing(Connect))
  /\ WF_service(Routing(Reconnect))
  /\ \A s \in Subscribers :
       /\ WF_service(Routing(Subscribe(s))) /\ WF_service(Routing(Send(s)))
       /\ WF_service(Routing(Receive(s))) /\ WF_service(Routing(Timeout(s)))
       /\ WF_service(Routing(Consume(s))) /\ WF_service(Routing(Return(s)))

ElectingFairness ==
  /\ WF_service(Electing(Expire))
  /\ \A r \in Replicas :
       /\ WF_service(Electing(Acquire(r))) /\ WF_service(Electing(GiveUp(r)))
       /\ WF_service(Electing(Release(r))) /\ WF_service(Electing(OnStoppedLeading(r)))
       /\ WF_service(Electing(StopCrons(r))) /\ WF_service(Electing(Exit(r)))
       /\ \A t \in Terms :
            /\ WF_service(Electing(ListLabelled(r, t))) /\ WF_service(Electing(Patch(r, t)))
            /\ WF_service(Electing(StartCrons(r, t)))

ServiceSpec == ServiceInit /\ [][ServiceNext]_service /\ RoutingFairness /\ ElectingFairness

\* Register: while a replica stays up, one leads and runs the crons, again and again.
LeadershipReturns == about = "election" => LedAgain
=============================================================================
