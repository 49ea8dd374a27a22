------------------------- MODULE AppLifecycleProofs -------------------------
(***************************************************************************)
(* Proofs about AppLifecycle, for every number of regions and attempts.    *)
(* TypeOK also says that app.Error is not sent to after it was closed,     *)
(* which is so only when no tenant is linked while Close runs.             *)
(***************************************************************************)
EXTENDS AppLifecycle, TLAPS

Open(i) == conn[i] \in {"up", "lost"}

\* app.close leaves no Connection open behind it, and nothing opens one until the next
\* pubsubConnect; only the Connection the loop is working on is being connected.
Released ==
    /\ loop \in {"off", "install", "delay"} => \A i \in Regions : ~Open(i)
    /\ loop = "close" => \A i \in Regions : i < at => ~Open(i)
    /\ \A i \in Regions : conn[i] = "connecting" => loop = "connecting" /\ at = i

\* Close ends after the loop, and app.Error is closed by nobody else.
LoopFirst ==
    /\ closer = "done" => LoopEnded
    /\ errorCh = "closed" => closer = "done"

IInv == TypeOK /\ Released /\ LoopFirst

\* The numbers of regions.
LEMMA Numbers ==
    /\ 1 \in Regions
    /\ \A i \in Regions : i \in Nat /\ 1 <= i /\ i <= NumRegions
    /\ \A i \in Regions : i < NumRegions => i + 1 \in Regions
  BY RegionBound DEF Regions

LEMMA InvInit == Init => IInv
<1> SUFFICES ASSUME Init PROVE IInv
  OBVIOUS
<1>1. 0 \in 0 .. MaxAttempts
  BY RegionBound
<1>2. TypeOK
  BY <1>1, Numbers DEF Init, TypeOK
<1>3. Released /\ LoopFirst
  BY DEF Init, Released, LoopFirst, Open
<1>4. QED BY <1>2, <1>3 DEF IInv

LEMMA InvStep == ~LinkDuringClose /\ IInv /\ [Next]_vars => IInv'
<1> SUFFICES ASSUME ~LinkDuringClose, IInv, [Next]_vars PROVE IInv'
  OBVIOUS
<1> USE Numbers, RegionBound
<1> USE DEF IInv, TypeOK, Released, LoopFirst, LoopEnded, Open, NextRegion, ReportError,
            connVars, loopVars, closeVars
<1>1. ASSUME NEW i \in Regions, ConnectionLost(i) PROVE IInv'
  BY <1>1 DEF ConnectionLost
<1>2. CASE StartPubsubConnect
  BY <1>2 DEF StartPubsubConnect
<1>3. CASE Install
  BY <1>3 DEF Install
<1>4. CASE Connect \/ ConnectSucceeds
  BY <1>4 DEF Connect, ConnectSucceeds
<1>5. CASE ConnectFails
  BY <1>5 DEF ConnectFails, Fails
<1>6. CASE Subscribed \/ SubscribeFails
  BY <1>6 DEF Subscribed, SubscribeFails, Fails
<1>7. ASSUME NEW i \in Regions, ErrorReceived(i) PROVE IInv'
  BY <1>7 DEF ErrorReceived
<1>8. CASE LoopDisconnects
  BY <1>8 DEF LoopDisconnects, Disconnect
<1>9. CASE DelayElapses \/ LoopReturns
  BY <1>9 DEF DelayElapses, LoopReturns, WatchesDone
<1>10. CASE Close \/ CloseCancels
  BY <1>10 DEF Close, CloseCancels, CancelAttempt
<1>11. CASE CloseDisconnects
  BY <1>11 DEF CloseDisconnects, Disconnect
<1>12. CASE CloseReturns \/ ReadError
  BY <1>12 DEF CloseReturns, ReadError
<1>13. CASE UNCHANGED vars
  BY <1>13 DEF vars
<1>14. QED
  BY <1>1, <1>2, <1>3, <1>4, <1>5, <1>6, <1>7, <1>8, <1>9, <1>10, <1>11, <1>12, <1>13
     DEF Next, Loop, Closing

\* The variables of the App keep their types, and app.Error is never used after Close has
\* closed it, unless a tenant is linked meanwhile (app.go:354-369, 877-930).
THEOREM TypeCorrect == ~LinkDuringClose /\ Spec => []TypeOK
<1>1. IInv => TypeOK
  BY DEF IInv
<1>2. CASE ~LinkDuringClose
  <2>1. IInv /\ [Next]_vars => IInv'
    BY <1>2, InvStep
  <2>2. QED BY <1>1, <2>1, InvInit, PTL DEF Spec
<1>3. QED BY <1>2

\* Every Connection that was up is disconnected before the loop drops it, for any number of
\* regions, whichever of them fails and while Close runs beside it (app.go:383-428, 886-915).
THEOREM NoneDropped == ~LinkDuringClose /\ Spec => DroppedDisconnected
<1>1. IInv /\ [Next]_vars =>
        [\A i \in Regions : conn'[i] = "new" => conn[i] \notin {"up", "lost"}]_vars
  <2> SUFFICES ASSUME IInv, Next, NEW i \in Regions, conn'[i] = "new", conn[i] \in {"up", "lost"}
               PROVE FALSE
    OBVIOUS
  <2> USE Numbers DEF IInv, TypeOK, Released, Open, connVars, loopVars
  <2>1. ASSUME NEW j \in Regions, ConnectionLost(j) PROVE FALSE
    BY <2>1 DEF ConnectionLost
  <2>2. CASE StartPubsubConnect \/ Close \/ ReadError \/ CloseCancels \/ CloseReturns
    BY <2>2 DEF StartPubsubConnect, Close, ReadError, CloseCancels, CancelAttempt, CloseReturns
  <2>3. CASE Install
    BY <2>3 DEF Install
  <2>4. CASE Connect \/ ConnectSucceeds \/ ConnectFails
    BY <2>4 DEF Connect, ConnectSucceeds, ConnectFails
  <2>5. CASE Subscribed \/ SubscribeFails \/ DelayElapses \/ LoopReturns
    BY <2>5 DEF Subscribed, SubscribeFails, DelayElapses, LoopReturns
  <2>6. ASSUME NEW j \in Regions, ErrorReceived(j) PROVE FALSE
    BY <2>6 DEF ErrorReceived
  <2>7. CASE LoopDisconnects \/ CloseDisconnects
    BY <2>7 DEF LoopDisconnects, CloseDisconnects, Disconnect
  <2>8. QED
    BY <2>1, <2>2, <2>3, <2>4, <2>5, <2>6, <2>7 DEF Next, Loop, Closing
<1>2. CASE ~LinkDuringClose
  <2>1. IInv /\ [Next]_vars => IInv'
    BY <1>2, InvStep
  <2>2. QED BY <1>1, <2>1, InvInit, PTL DEF Spec, DroppedDisconnected
<1>3. QED BY <1>2

-----------------------------------------------------------------------------
(* What Close releases. *)

\* Close is not called while the loop installs, connects and subscribes the regions.
Connects == loop \in {"install", "connect", "connecting", "subscribe"}
CloseWhenConnected == [][Close => ~Connects]_vars

\* After Close has begun, the regions behind it are released, and the loop connects none.
ClosedBehind ==
    /\ closer # "idle" <=> ctxDone
    /\ closer = "idle" => closeAt = 1
    /\ ctxDone => ~Connects
    /\ \A i \in Regions : i < closeAt \/ closer \in {"wait", "done"} => ~Open(i)

LEMMA ClosedBehindStep ==
    ASSUME ~LinkDuringClose, IInv, ClosedBehind, [Next]_vars, [Close => ~Connects]_vars
    PROVE  ClosedBehind'
<1> USE Numbers DEF IInv, TypeOK, ClosedBehind, Connects, Open, NextRegion, connVars, loopVars, closeVars
<1>1. ASSUME NEW i \in Regions, ConnectionLost(i) PROVE ClosedBehind'
  BY <1>1 DEF ConnectionLost
<1>2. CASE StartPubsubConnect
  BY <1>2 DEF StartPubsubConnect
<1>3. CASE Install \/ Connect \/ ConnectSucceeds \/ ConnectFails
  <2>1. ~ctxDone /\ closer = "idle" /\ closeAt = 1
    BY <1>3 DEF Install, Connect, ConnectSucceeds, ConnectFails
  <2>2. UNCHANGED closeVars
    BY <1>3 DEF Install, Connect, ConnectSucceeds, ConnectFails
  <2>3. QED
    BY <2>1, <2>2
<1>4. CASE Subscribed \/ SubscribeFails
  BY <1>4 DEF Subscribed, SubscribeFails, Fails
<1>5. ASSUME NEW i \in Regions, ErrorReceived(i) PROVE ClosedBehind'
  BY <1>5 DEF ErrorReceived
<1>6. CASE LoopDisconnects
  BY <1>6 DEF LoopDisconnects, Disconnect
<1>7. CASE DelayElapses \/ LoopReturns
  BY <1>7 DEF DelayElapses, LoopReturns, WatchesDone
<1>8. CASE Close
  <2>1. ~Connects
    BY <1>8 DEF Close, vars
  <2>2. QED
    BY <1>8, <2>1 DEF Close
<1>9. CASE CloseCancels \/ CloseReturns \/ ReadError
  BY <1>9 DEF CloseCancels, CancelAttempt, CloseReturns, ReadError
<1>10. CASE CloseDisconnects
  <2>1. /\ closer = "close" /\ ctxDone' = ctxDone /\ loop' = loop
        /\ conn' = [conn EXCEPT ![closeAt] = IF @ \in {"up", "lost"} THEN "down" ELSE @]
    BY <1>10 DEF CloseDisconnects, Disconnect
  <2>2. \A i \in Regions : i <= closeAt => ~Open(i)'
    BY <2>1
  <2>3. \/ closeAt < NumRegions /\ closeAt' = closeAt + 1 /\ closer' = "close"
        \/ closeAt = NumRegions /\ closer' = "wait"
    BY <1>10, RegionBound DEF CloseDisconnects
  <2>4. QED
    BY <2>1, <2>2, <2>3
<1>11. CASE UNCHANGED vars
  BY <1>11 DEF vars
<1>12. QED
  BY <1>1, <1>2, <1>3, <1>4, <1>5, <1>6, <1>7, <1>8, <1>9, <1>10, <1>11
     DEF Next, Loop, Closing

\* Close leaves a Connection up only when it is called while the loop connects the regions:
\* called at any other time, also while a lost region is being handled, it releases all of them,
\* for any number of regions (app.go:354-369, 383-428).
THEOREM ReleasedOnClose ==
    ~LinkDuringClose /\ Spec /\ CloseWhenConnected => []CloseReleases
<1>1. Init => ClosedBehind
  BY Numbers DEF Init, ClosedBehind, Connects, Open
<1>2. ClosedBehind => CloseReleases
  BY DEF ClosedBehind, CloseReleases, Open
<1>3. CASE ~LinkDuringClose
  <2>1. IInv /\ ClosedBehind /\ [Next]_vars /\ [Close => ~Connects]_vars
          => IInv' /\ ClosedBehind'
    BY <1>3, InvStep, ClosedBehindStep
  <2>2. QED BY <1>1, <1>2, <2>1, InvInit, PTL DEF Spec, CloseWhenConnected
<1>4. QED BY <1>3
=============================================================================
