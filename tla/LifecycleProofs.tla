--------------------------- MODULE LifecycleProofs ---------------------------
(***************************************************************************)
(* Proofs about the life of the process, for every set of requests and     *)
(* every choice of the program's bounds that fits into the hard exit.      *)
(***************************************************************************)
EXTENDS Lifecycle, TLAPS

Running == {"consultation", "providers", "database"}

TypeOK ==
  /\ server \in {"binding", "listening", "closing", "closed", "failed"}
  /\ sockets \in {"kept", "destroyed"}
  /\ handler \in [Requests -> {"none", "running", "late", "done"}]
  /\ waiter \in {"none", "waiting", "idle"}
  /\ onClose \in {"armed", "waiting", "fired"}
  /\ start \in {"idle", "importing", "initializing", "recovering", "started", "failed"}
  /\ service \in {"none", "open", "late", "closed"}
  /\ providers \in {"open", "closed"}
  /\ pool \in {"open", "ended"}
  /\ stop \in [at : {"idle", "stopped", "failed"} \cup Running, deadline : Nat]
  /\ shutdown \in {"idle", "draining", "forcing", "stopping", "clean", "failed"}
  /\ time \in Nat
  /\ exited \in {"no", "clean", "hard", "unbound"}

\* No handler begun before the signal is running.
NoneEarly == \A r \in Requests : handler[r] # "running"

\* The server leads: only a closed or a failed one lets stop() begin, and nothing that
\* began before the signal runs from then on, nor once the waiter was resolved.
ServerInv ==
  /\ server = "binding" => \A r \in Requests : handler[r] = "none"
  /\ server = "failed" => shutdown = "idle" /\ IsIdle
  /\ server \in {"binding", "listening"} => shutdown = "idle"
  /\ onClose # "armed" => server = "closed"
  /\ server \in {"closing", "closed"} => shutdown # "idle"
  /\ waiter # "none" => server \in {"closing", "closed"}
  /\ waiter = "idle" => NoneEarly
  /\ stop.at # "idle" => server \in {"closed", "failed"} /\ NoneEarly
  /\ shutdown \in {"stopping", "clean"} => server = "closed" /\ stop.at # "idle"

\* How far stop() has come says what it has closed.
StageInv ==
  /\ stop.at = "stopped" => pool = "ended"
  /\ stop.at \in {"database", "stopped"} \/ pool = "ended" => providers = "closed"
  /\ stop.at \in {"providers", "database", "stopped"} \/ providers = "closed" =>
       service # "open" /\ stop.at # "idle"
  /\ shutdown = "clean" => stop.at = "stopped"

\* As long as the shutdown has not failed it is within its bounds.
TimeInv ==
  /\ shutdown = "idle" => time = 0
  /\ shutdown = "draining" => time <= Drain
  /\ shutdown = "forcing" => time <= Drain + Grace
  /\ shutdown = "stopping" => time <= Drain + Grace + StopBound
  /\ shutdown # "failed" => stop.deadline <= Drain + Grace + StopBound
  /\ exited = "hard" => shutdown = "failed"

LifecycleInv == TypeOK /\ ServerInv /\ StageInv /\ TimeInv

USE DEF Running

-----------------------------------------------------------------------------
\* The invariant holds of a process that is binding its port.
LEMMA LifecycleInvInit == Init => LifecycleInv
BY LifecycleAssumption
DEF Init, LifecycleInv, TypeOK, ServerInv, StageInv, TimeInv, NoneEarly, IsBusy, IsIdle

\* Every step keeps it: the server's own, a handler's, the startup's, a timer's, stop()'s.
LEMMA LifecycleInvStep == LifecycleInv /\ [Next]_vars => LifecycleInv'
<1> SUFFICES ASSUME LifecycleInv, [Next]_vars
             PROVE  LifecycleInv'
  OBVIOUS
<1>a. TypeOK /\ ServerInv /\ StageInv /\ TimeInv
  BY DEF LifecycleInv
<1>b. /\ Drain \in Nat /\ Grace \in Nat /\ StopBound \in Nat /\ HardExit \in Nat
      /\ Drain + Grace + StopBound < HardExit
  BY LifecycleAssumption
<1> USE <1>a, <1>b DEF LifecycleInv, TypeOK, ServerInv, StageInv, TimeInv, NoneEarly, IsBusy, IsIdle,
                       IsSignalled,
                       http, app, BeginsStop, StopsAt
<1>1. CASE Listens
  BY <1>1 DEF Listens
<1>2. CASE BindFails
  BY <1>2 DEF BindFails
<1>3. CASE BindErrorThrown
  BY <1>3 DEF BindErrorThrown
<1>4. ASSUME NEW r \in Requests, RequestArrives(r)
      PROVE  LifecycleInv'
  BY <1>4 DEF RequestArrives
<1>5. ASSUME NEW r \in Requests, RequestEnds(r)
      PROVE  LifecycleInv'
  BY <1>5 DEF RequestEnds
<1>6. CASE StartFails \/ KeyImported \/ ServiceMade \/ Recovered
  BY <1>6 DEF StartFails, KeyImported, ServiceMade, Recovered
<1>7. CASE Signal
  BY <1>7 DEF Signal
<1>8. CASE ServerCloses
  BY <1>8 DEF ServerCloses
<1>9. CASE CloseListenerStops
  BY <1>9 DEF CloseListenerStops
<1>10. CASE Drained
  BY <1>10 DEF Drained
<1>11. CASE DrainTimesOut
  BY <1>11 DEF DrainTimesOut
<1>12. CASE GraceTimesOut
  BY <1>12 DEF GraceTimesOut
<1>13. CASE ConsultationCloses
  BY <1>13 DEF ConsultationCloses
<1>14. CASE ProvidersClose
  BY <1>14 DEF ProvidersClose
<1>15. CASE PoolEnds
  BY <1>15 DEF PoolEnds
<1>16. CASE StopFails
  BY <1>16 DEF StopFails
<1>17. CASE ShutdownEnds
  BY <1>17 DEF ShutdownEnds
<1>18. CASE CleanExit
  BY <1>18 DEF CleanExit
<1>19. CASE HardExits
  BY <1>19 DEF HardExits
<1>20. CASE Tick
  BY <1>20 DEF Tick, IsDue
<1>21. CASE UNCHANGED vars
  BY <1>21 DEF vars
<1> QED
  BY <1>1, <1>2, <1>3, <1>4, <1>5, <1>6, <1>7, <1>8, <1>9, <1>10, <1>11, <1>12, <1>13, <1>14,
     <1>15, <1>16, <1>17, <1>18, <1>19, <1>20, <1>21 DEF Next, Works

\* It always holds.
LEMMA LifecycleInvHolds == Spec => []LifecycleInv
BY LifecycleInvInit, LifecycleInvStep, PTL DEF Spec

\* Whatever hangs or fails, and however many requests are in progress or come late on
\* connections that were kept, nothing is torn down under a request that was being handled
\* at the signal, and the teardown's order is kept (shutdownGodaddyServer, stop).
THEOREM TeardownIsInOrder == Spec => []TeardownInOrder
<1>1. LifecycleInv => TeardownInOrder
  BY DEF LifecycleInv, TypeOK, ServerInv, StageInv, NoneEarly, TeardownInOrder
<1> QED  BY <1>1, LifecycleInvHolds, PTL

\* For all bounds whose sum is below the hard exit, the hard exit never cuts a shutdown
\* that has not failed, and is disarmed only when everything is closed.
THEOREM HardExitIsLast == Spec => []HardExitIsTheLastResort
<1>1. LifecycleInv => HardExitIsTheLastResort
  BY DEF LifecycleInv, TypeOK, ServerInv, StageInv, TimeInv, HardExitIsTheLastResort
<1> QED  BY <1>1, LifecycleInvHolds, PTL
=============================================================================
