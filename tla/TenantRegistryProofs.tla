------------------------ MODULE TenantRegistryProofs ------------------------
(***************************************************************************)
(* Proofs about TenantRegistry, for every set of tenants, devices and      *)
(* regions and every bound on what the environment does.                   *)
(***************************************************************************)
EXTENDS TenantRegistry, TLAPS

AppPcs == {"idle", "setTenant", "fetch", "store", "removeTenant", "removeDevices", "delete"}
SubPcs == {"idle", "loadDevices", "loadDevice", "lookup", "handler", "removeTenant",
           "removeDevices"}

\* Who may be where, and what a thread holds there.
ThreadOK(th) ==
    /\ th = "app" => Pc(th) \in AppPcs
    /\ th = "loop" => Pc(th) \in {"idle", "range", "fetch", "store"}
    /\ th \in Fetchers /\ Pc(th) \notin {"idle", "range"} => Tenant(th) \in Tenants
    /\ th \in Regions =>
         /\ Pc(th) \in SubPcs
         /\ Pc(th) # "idle" => Msg(th) \in Messages /\ Tenant(th) = Msg(th).tenant
         /\ Pc(th) \in {"loadDevice", "lookup"} => Type(th) # "app:disconnect"
         /\ Pc(th) = "loadDevice" => Type(th) # "device:activate"
HeldOK(r) == Pc(r) \in {"loadDevice", "lookup"} /\ deviceMap[Tenant(r)] # NoMap
Bookkeeping == (\A th \in Threads : ThreadOK(th)) /\ (\A r \in held : HeldOK(r))

\* Link k of t is over for good: nobody can put it in tenantMap again.
Over(t, k) ==
    /\ k <= links /\ grant[t] # k /\ tenantMap[t] # k
    /\ Pc("app") = "setTenant" /\ Tenant("app") = t => at["app"].link # k
Own(m) == m.type = "app:disconnect" /\ m.byApp

\* A link whose end the application asked for is over when its app:disconnect is sent.
Granted == \A t \in Tenants : grant[t] <= links
Removed == Pc("app") \in {"removeDevices", "delete"} => tenantMap[Tenant("app")] = 0
InStream(m) == \E r \in Regions : \E k \in 1..Len(stream[r]) : stream[r][k] = m
StreamOver == \A m \in Messages : InStream(m) /\ Own(m) => Over(m.tenant, m.link)
HandledOver(r) ==
    Pc(r) # "idle" /\ Own(Msg(r)) =>
        Over(Msg(r).tenant, Msg(r).link) /\ at[r].link # Msg(r).link
Unlinked == Granted /\ Removed /\ StreamOver /\ (\A r \in Regions : HandledOver(r))

RInv == TypeOK /\ Bookkeeping /\ Unlinked

LEMMA MessageFields ==
    ASSUME NEW m \in Messages
    PROVE  /\ m.tenant \in Tenants /\ m.link \in 1..MaxLinks /\ m # <<>>
           /\ m.type # "app:disconnect" => m.device \in Devices
  BY DEF Messages

LEMMA MessagesMade ==
    /\ \A y \in {"device:activate", "device:deactivate", "data"}, t \in Tenants, d \in Devices,
          k \in 1..MaxLinks :
          [type |-> y, tenant |-> t, device |-> d, link |-> k] \in Messages
    /\ \A t \in Tenants, k \in 1..MaxLinks, b \in BOOLEAN :
          [type |-> "app:disconnect", tenant |-> t, link |-> k, byApp |-> b] \in Messages
  BY DEF Messages

\* A message is added at the end of a stream, or taken from its front.
LEMMA Sent ==
    ASSUME stream \in [Regions -> Seq(Messages)], NEW r \in Regions, NEW m \in Messages, Send(r, m)
    PROVE  /\ stream' \in [Regions -> Seq(Messages)]
           /\ \A q \in Messages : InStream(q)' => InStream(q) \/ q = m
  BY DEF Send, InStream
LEMMA Taken ==
    ASSUME stream \in [Regions -> Seq(Messages)], NEW r \in Regions, stream[r] # <<>>,
           stream' = [stream EXCEPT ![r] = Tail(@)]
    PROVE  /\ stream' \in [Regions -> Seq(Messages)]
           /\ Head(stream[r]) \in Messages /\ InStream(Head(stream[r]))
           /\ \A q \in Messages : InStream(q)' => InStream(q)
<1>1. \A k \in 1..Len(Tail(stream[r])) :
        Tail(stream[r])[k] = stream[r][k + 1] /\ k + 1 \in 1..Len(stream[r])
  OBVIOUS
<1>2. Head(stream[r]) \in Messages /\ InStream(Head(stream[r]))
  BY DEF InStream
<1>3. QED
  BY <1>1, <1>2 DEF InStream

LEMMA IdleIsPlace == Idle \in Places
  BY RegistryAssumption DEF Idle, Places, Labels

LEMMA RInvInit == Init => RInv
<1> SUFFICES ASSUME Init PROVE RInv
  OBVIOUS
<1> USE RegistryAssumption DEF Init, Pc, Tenant, Msg
<1>1. TypeOK
  <2>1. at \in [Threads -> Places]
    BY IdleIsPlace
  <2>2. /\ tenantMap \in [Tenants -> 0..MaxLinks] /\ grant \in [Tenants -> 0..MaxLinks]
        /\ links \in 1..MaxLinks
    OBVIOUS
  <2>3. stream \in [Regions -> Seq(Messages)]
    OBVIOUS
  <2>4. deviceMap \in [Tenants -> (SUBSET Devices) \cup {NoMap}]
    OBVIOUS
  <2>5. /\ cloud \in [Tenants -> SUBSET Devices] /\ list \in [Fetchers -> SUBSET Devices]
        /\ todo \subseteq Tenants /\ held \subseteq Regions
        /\ late \subseteq Fetchers /\ stale \subseteq Tenants
    OBVIOUS
  <2>6. /\ call \in {"none", "LinkTenant", "SetTenant", "UnlinkTenant"}
        /\ result \in {"none", "tenant", "error", "unlinked", "nothing"}
        /\ started \in BOOLEAN
    OBVIOUS
  <2>7. changes \in 0..MaxChanges /\ reloads \in 0..MaxReloads
    <3>1. MaxChanges \in Nat /\ MaxReloads \in Nat /\ changes = 0 /\ reloads = 0
      OBVIOUS
    <3>2. QED
      BY <3>1
  <2>8. QED
    BY <2>1, <2>2, <2>3, <2>4, <2>5, <2>6, <2>7, Zenon DEF TypeOK
<1>2. Bookkeeping
  BY DEF Bookkeeping, ThreadOK, AppPcs, SubPcs, Threads, Fetchers, Idle
<1>3. \A r \in Regions : Len(stream[r]) = 0
  OBVIOUS
<1>4. Unlinked
  BY <1>3, 1..0 = {}
  DEF Unlinked, Granted, Removed, StreamOver, InStream, HandledOver, Threads, Fetchers, Idle
<1>5. QED
  BY <1>1, <1>2, <1>4 DEF RInv

\* What the three ways to move a thread do.
Moved(th) ==
    /\ at' \in [Threads -> Places]
    /\ \A o \in Threads \ {th} : at'[o] = at[o]
LEMMA Moves ==
    ASSUME at \in [Threads -> Places], NEW th \in Threads
    PROVE  /\ \A l \in Labels : Goto(th, l) =>
                /\ Moved(th) /\ at'[th].pc = l /\ at'[th].tenant = at[th].tenant
                /\ at'[th].link = at[th].link /\ at'[th].msg = at[th].msg
           /\ Leave(th) => Moved(th) /\ at'[th] = Idle
           /\ \A l \in Labels, t \in Tenants, k \in 0..MaxLinks, m \in Messages \cup {<<>>} :
                Begin(th, l, t, k, m) =>
                /\ Moved(th) /\ at'[th].pc = l /\ at'[th].tenant = t
                /\ at'[th].link = k /\ at'[th].msg = m
<1>1. ASSUME NEW l \in Labels, Goto(th, l)
      PROVE  /\ Moved(th) /\ at'[th].pc = l /\ at'[th].tenant = at[th].tenant
             /\ at'[th].link = at[th].link /\ at'[th].msg = at[th].msg
  BY <1>1 DEF Goto, Moved, Places
<1>2. Leave(th) => Moved(th) /\ at'[th] = Idle
  BY IdleIsPlace DEF Leave, Moved
<1>3. ASSUME NEW l \in Labels, NEW t \in Tenants, NEW k \in 0..MaxLinks,
             NEW m \in Messages \cup {<<>>}, Begin(th, l, t, k, m)
      PROVE  /\ Moved(th) /\ at'[th].pc = l /\ at'[th].tenant = t
             /\ at'[th].link = k /\ at'[th].msg = m
  <2>1. [pc |-> l, tenant |-> t, link |-> k, msg |-> m] \in Places
    BY DEF Places
  <2>2. QED
    BY <1>3, <2>1 DEF Begin, Moved
<1>4. QED
  BY <1>1, <1>2, <1>3

\* What a step of one thread has to show.
LEMMA BookkeepingKept ==
    ASSUME Bookkeeping, NEW th \in Threads, Moved(th), ThreadOK(th)',
           \A r \in held' : HeldOK(r)'
    PROVE  Bookkeeping'
  BY DEF Bookkeeping, ThreadOK, Moved, Pc, Tenant, Msg, Type
LEMMA UnlinkedKept ==
    ASSUME TypeOK, Bookkeeping, Unlinked, NEW th \in Threads, Moved(th),
           \A t \in Tenants, k \in 1..MaxLinks : Over(t, k) => Over(t, k)',
           Granted', Removed', th \in Regions => HandledOver(th)',
           \A m \in Messages : InStream(m)' /\ Own(m) => InStream(m) \/ Over(m.tenant, m.link)'
    PROVE  Unlinked'
<1>1. StreamOver'
  BY MessageFields DEF Unlinked, StreamOver
<1>2. ASSUME NEW r \in Regions \ {th} PROVE HandledOver(r)'
  <2>1. at'[r] = at[r] /\ r \in Threads
    BY DEF Moved, Threads
  <2>2. ThreadOK(r) /\ HandledOver(r)
    BY <2>1 DEF Bookkeeping, Unlinked
  <2>3. CASE Pc(r) # "idle" /\ Own(Msg(r))
    <3>1. Msg(r) \in Messages
      BY <2>2, <2>3 DEF ThreadOK
    <3>2. Over(Msg(r).tenant, Msg(r).link)'
      BY <2>1, <2>2, <2>3, <3>1, MessageFields DEF HandledOver, Msg
    <3>3. QED
      BY <2>1, <2>2, <2>3, <3>2 DEF HandledOver, Msg, Pc
  <2>4. QED
    BY <2>1, <2>3 DEF HandledOver, Pc, Msg
<1>3. QED
  BY <1>1, <1>2 DEF Unlinked

\* The steps, thread by thread.
LEMMA LinkEnds ==
    ASSUME TypeOK, NEW t \in Tenants, NEW b \in BOOLEAN, EndLink(t, b)
    PROVE  /\ stream' \in [Regions -> Seq(Messages)] /\ grant' \in [Tenants -> 0..MaxLinks]
           /\ grant[t] # 0 /\ grant' = [grant EXCEPT ![t] = 0]
           /\ \A m \in Messages : InStream(m)' =>
                InStream(m) \/ (m.tenant = t /\ m.link = grant[t] /\ m.byApp = b)
<1>1. PICK r \in Regions : Send(r, [type |-> "app:disconnect", tenant |-> t,
                                    link |-> grant[t], byApp |-> b])
  BY DEF EndLink
<1>2. /\ grant[t] \in 1..MaxLinks /\ 0 \in 0..MaxLinks
      /\ stream \in [Regions -> Seq(Messages)] /\ grant \in [Tenants -> 0..MaxLinks]
  BY RegistryAssumption DEF EndLink, TypeOK
<1>3. QED
  BY <1>1, <1>2, MessagesMade, Sent DEF EndLink
LEMMA RInvApp == RInv /\ AppNext => RInv'
<1> SUFFICES ASSUME RInv, AppNext PROVE TypeOK' /\ Bookkeeping' /\ Unlinked'
  BY DEF RInv
<1> USE DEF appVars, loopVars, cloudVars, deviceVars, Pc, Tenant, Msg, AppStep, Returns
<1>0. /\ TypeOK /\ Bookkeeping /\ Unlinked /\ ThreadOK("app")
      /\ "app" \in Threads /\ "app" \in Fetchers /\ "app" \notin Regions /\ "app" # "loop"
      /\ \A r \in Regions : r \in Threads \ {"app"}
      /\ \A r \in held : r \in Regions /\ HeldOK(r)
  BY RegistryAssumption DEF RInv, Threads, Fetchers, Bookkeeping, TypeOK
<1>a. /\ grant \in [Tenants -> 0..MaxLinks] /\ links \in 1..MaxLinks /\ MaxLinks \in Nat
  BY <1>0, RegistryAssumption DEF TypeOK
<1>1. CASE StoreTenant
  <2>1. /\ Moved("app") /\ Pc("app") = "setTenant" /\ Pc("app")' = "fetch" /\ Tenant("app")' = Tenant("app")
        /\ Tenant("app") \in Tenants
    BY <1>0, <1>1, Moves DEF StoreTenant, TypeOK, Labels, Idle, ThreadOK
  <2>2. TypeOK'
    BY <1>0, <1>1, <2>1, RegistryAssumption DEF StoreTenant, TypeOK, Moved, Places
  <2>3. ThreadOK("app")' /\ (\A r \in held' : HeldOK(r)')
    BY <1>0, <1>1, <2>1 DEF StoreTenant, TypeOK, ThreadOK, HeldOK, Moved, AppPcs
  <2>4. \A t \in Tenants, k \in 1..MaxLinks : Over(t, k) => Over(t, k)'
    BY <1>0, <1>1, <2>1 DEF StoreTenant, TypeOK, Over
  <2>5. Granted' /\ Removed'
    BY <1>0, <1>1, <2>1 DEF StoreTenant, TypeOK, Unlinked, Granted, Removed
  <2>6. \A m \in Messages : InStream(m)' /\ Own(m) => InStream(m) \/ Over(m.tenant, m.link)'
    BY <1>1 DEF StoreTenant, InStream
  <2>7. QED
    BY <1>0, <2>1, <2>2, <2>3, <2>4, <2>5, <2>6, BookkeepingKept, UnlinkedKept
<1>2. CASE Fetched("app")
  <2>1. /\ Moved("app") /\ Pc("app") = "fetch" /\ Pc("app")' = "store" /\ Tenant("app")' = Tenant("app")
        /\ Tenant("app") \in Tenants
    BY <1>0, <1>2, Moves DEF Fetched, TypeOK, Labels, Idle, ThreadOK
  <2>2. TypeOK'
    BY <1>0, <1>2, <2>1, RegistryAssumption DEF Fetched, TypeOK, Moved, Places
  <2>3. ThreadOK("app")' /\ (\A r \in held' : HeldOK(r)')
    BY <1>0, <1>2, <2>1 DEF Fetched, TypeOK, ThreadOK, HeldOK, Moved, AppPcs
  <2>4. \A t \in Tenants, k \in 1..MaxLinks : Over(t, k) => Over(t, k)'
    BY <1>0, <1>2, <2>1 DEF Fetched, TypeOK, Over
  <2>5. Granted' /\ Removed'
    BY <1>0, <1>2, <2>1 DEF Fetched, TypeOK, Unlinked, Granted, Removed
  <2>6. \A m \in Messages : InStream(m)' /\ Own(m) => InStream(m) \/ Over(m.tenant, m.link)'
    BY <1>2 DEF Fetched, InStream
  <2>7. QED
    BY <1>0, <2>1, <2>2, <2>3, <2>4, <2>5, <2>6, BookkeepingKept, UnlinkedKept
<1>3. CASE FetchFails
  <2>1. /\ Moved("app") /\ Pc("app") = "fetch" /\ Pc("app")' \in {"idle", "removeTenant"}
        /\ Pc("app")' # "idle" => Tenant("app")' = Tenant("app")
        /\ Tenant("app") \in Tenants
    BY <1>0, <1>3, Moves DEF FetchFails, TypeOK, Labels, Idle, ThreadOK
  <2>2. TypeOK'
    BY <1>0, <1>3, <2>1, RegistryAssumption DEF FetchFails, TypeOK, Moved, Places
  <2>3. ThreadOK("app")' /\ (\A r \in held' : HeldOK(r)')
    BY <1>0, <1>3, <2>1 DEF FetchFails, TypeOK, ThreadOK, HeldOK, Moved, AppPcs
  <2>4. \A t \in Tenants, k \in 1..MaxLinks : Over(t, k) => Over(t, k)'
    BY <1>0, <1>3, <2>1 DEF FetchFails, TypeOK, Over
  <2>5. Granted' /\ Removed'
    BY <1>0, <1>3, <2>1 DEF FetchFails, TypeOK, Unlinked, Granted, Removed
  <2>6. \A m \in Messages : InStream(m)' /\ Own(m) => InStream(m) \/ Over(m.tenant, m.link)'
    BY <1>3 DEF FetchFails, InStream
  <2>7. QED
    BY <1>0, <2>1, <2>2, <2>3, <2>4, <2>5, <2>6, BookkeepingKept, UnlinkedKept
<1>4. CASE TenantSet
  <2>1. /\ Moved("app") /\ Pc("app") = "store" /\ Pc("app")' = "idle"
        /\ Tenant("app") \in Tenants
    BY <1>0, <1>4, Moves DEF TenantSet, Store, SetDevices, TypeOK, Labels, Idle, ThreadOK
  <2>2. TypeOK'
    BY <1>0, <1>4, <2>1, RegistryAssumption DEF TenantSet, Store, SetDevices, TypeOK, Moved, Places
  <2>3. ThreadOK("app")' /\ (\A r \in held' : HeldOK(r)')
    BY <1>0, <1>4, <2>1 DEF TenantSet, Store, SetDevices, TypeOK, ThreadOK, HeldOK, Moved, AppPcs
  <2>4. \A t \in Tenants, k \in 1..MaxLinks : Over(t, k) => Over(t, k)'
    BY <1>0, <1>4, <2>1 DEF TenantSet, Store, SetDevices, TypeOK, Over
  <2>5. Granted' /\ Removed'
    BY <1>0, <1>4, <2>1 DEF TenantSet, Store, SetDevices, TypeOK, Unlinked, Granted, Removed
  <2>6. \A m \in Messages : InStream(m)' /\ Own(m) => InStream(m) \/ Over(m.tenant, m.link)'
    BY <1>4 DEF TenantSet, Store, SetDevices, InStream
  <2>7. QED
    BY <1>0, <2>1, <2>2, <2>3, <2>4, <2>5, <2>6, BookkeepingKept, UnlinkedKept
<1>5. CASE RemoveTenant
  <2>1. /\ Moved("app") /\ Pc("app") = "removeTenant" /\ Pc("app")' = "removeDevices"
        /\ Tenant("app")' = Tenant("app")
        /\ Tenant("app") \in Tenants
    BY <1>0, <1>5, Moves DEF RemoveTenant, DeleteTenant, TypeOK, Labels, Idle, ThreadOK
  <2>2. TypeOK'
    BY <1>0, <1>5, <2>1, RegistryAssumption DEF RemoveTenant, DeleteTenant, TypeOK, Moved, Places
  <2>3. ThreadOK("app")' /\ (\A r \in held' : HeldOK(r)')
    BY <1>0, <1>5, <2>1 DEF RemoveTenant, DeleteTenant, TypeOK, ThreadOK, HeldOK, Moved, AppPcs
  <2>4. \A t \in Tenants, k \in 1..MaxLinks : Over(t, k) => Over(t, k)'
    BY <1>0, <1>5, <2>1 DEF RemoveTenant, DeleteTenant, TypeOK, Over
  <2>5. Granted' /\ Removed'
    BY <1>0, <1>5, <2>1 DEF RemoveTenant, DeleteTenant, TypeOK, Unlinked, Granted, Removed
  <2>6. \A m \in Messages : InStream(m)' /\ Own(m) => InStream(m) \/ Over(m.tenant, m.link)'
    BY <1>5 DEF RemoveTenant, DeleteTenant, InStream
  <2>7. QED
    BY <1>0, <2>1, <2>2, <2>3, <2>4, <2>5, <2>6, BookkeepingKept, UnlinkedKept
<1>6. CASE RemoveDevices
  <2>1. /\ Moved("app") /\ Pc("app") = "removeDevices" /\ Pc("app")' = "delete"
        /\ Tenant("app")' = Tenant("app")
        /\ Tenant("app") \in Tenants
    BY <1>0, <1>6, Moves DEF RemoveDevices, ForgetDevices, SetDevices, TypeOK, Labels, Idle, ThreadOK
  <2>2. TypeOK'
    BY <1>0, <1>6, <2>1, RegistryAssumption DEF RemoveDevices, ForgetDevices, SetDevices, TypeOK, Moved, Places
  <2>3. ThreadOK("app")' /\ (\A r \in held' : HeldOK(r)')
    BY <1>0, <1>6, <2>1 DEF RemoveDevices, ForgetDevices, SetDevices, TypeOK, ThreadOK, HeldOK, Moved, AppPcs
  <2>4. \A t \in Tenants, k \in 1..MaxLinks : Over(t, k) => Over(t, k)'
    BY <1>0, <1>6, <2>1 DEF RemoveDevices, ForgetDevices, SetDevices, TypeOK, Over
  <2>5. Granted' /\ Removed'
    BY <1>0, <1>6, <2>1 DEF RemoveDevices, ForgetDevices, SetDevices, TypeOK, Unlinked, Granted, Removed
  <2>6. \A m \in Messages : InStream(m)' /\ Own(m) => InStream(m) \/ Over(m.tenant, m.link)'
    BY <1>6 DEF RemoveDevices, ForgetDevices, SetDevices, InStream
  <2>7. QED
    BY <1>0, <2>1, <2>2, <2>3, <2>4, <2>5, <2>6, BookkeepingKept, UnlinkedKept
<1>7. CASE Deleted
  <2>1. /\ Moved("app") /\ Pc("app") = "delete" /\ Pc("app")' = "idle"
        /\ Tenant("app") \in Tenants
    BY <1>0, <1>7, Moves DEF Deleted, TypeOK, Labels, Idle, ThreadOK
  <2>2. /\ stream' \in [Regions -> Seq(Messages)] /\ grant' \in [Tenants -> 0..MaxLinks]
        /\ \A t \in Tenants : grant'[t] \in {grant[t], 0}
        /\ \A m \in Messages : InStream(m)' => InStream(m) \/
             (m.tenant = Tenant("app") /\ m.link = grant[Tenant("app")] /\ m.link # 0
              /\ grant'[Tenant("app")] = 0)
    <3>1. CASE EndLink(Tenant("app"), TRUE)
      <4>1. /\ stream' \in [Regions -> Seq(Messages)] /\ grant' \in [Tenants -> 0..MaxLinks]
            /\ grant[Tenant("app")] # 0 /\ grant' = [grant EXCEPT ![Tenant("app")] = 0]
            /\ \A m \in Messages : InStream(m)' =>
                 InStream(m) \/ (m.tenant = Tenant("app") /\ m.link = grant[Tenant("app")]
                                 /\ m.byApp = TRUE)
        BY <1>0, <2>1, <3>1, LinkEnds, Zenon
      <4>2. QED
        BY <1>a, <2>1, <4>1
    <3>2. CASE UNCHANGED <<grant, stream>>
      BY <1>0, <3>2 DEF TypeOK, InStream
    <3>3. QED
      BY <1>7, <3>1, <3>2 DEF Deleted
  <2>3. TypeOK'
    <3>1. result' \in {"none", "tenant", "error", "unlinked", "nothing"} /\ call' = "none"
      BY <1>7 DEF Deleted
    <3>2. QED
      BY <1>0, <1>7, <2>1, <2>2, <3>1 DEF Deleted, TypeOK, Moved
  <2>4. UNCHANGED <<tenantMap, deviceMap, held, links>>
    BY <1>7 DEF Deleted
  <2>5. ThreadOK("app")' /\ (\A r \in held' : HeldOK(r)')
    BY <1>0, <2>1, <2>4 DEF TypeOK, ThreadOK, HeldOK, Moved, AppPcs
  <2>6. \A t \in Tenants, k \in 1..MaxLinks : Over(t, k) => Over(t, k)'
    BY <1>0, <2>1, <2>2, <2>4 DEF Over
  <2>7. Granted' /\ Removed'
    <3>1. \A t \in Tenants : grant[t] <= links
      BY <1>0, Zenon DEF Unlinked, Granted
    <3>2. Granted'
      BY <1>a, <2>2, <2>4, <3>1 DEF Granted
    <3>3. Removed'
      BY <2>1 DEF Removed
    <3>4. QED
      BY <3>2, <3>3
  <2>8. \A m \in Messages : InStream(m)' /\ Own(m) => InStream(m) \/ Over(m.tenant, m.link)'
    <3>1. tenantMap[Tenant("app")] = 0 /\ grant[Tenant("app")] <= links
      BY <1>0, <2>1 DEF Unlinked, Granted, Removed
    <3>2. QED
      BY <2>1, <2>2, <2>4, <3>1 DEF Over
  <2>9. QED
    BY <1>0, <2>1, <2>3, <2>5, <2>6, <2>7, <2>8, BookkeepingKept, UnlinkedKept
<1>8. QED
  BY <1>1, <1>2, <1>3, <1>4, <1>5, <1>6, <1>7 DEF AppNext

\* A step of a thread other than the application's makes no link and sends nothing.
LEMMA OthersKeep ==
    ASSUME TypeOK, TypeOK', Bookkeeping, Unlinked, NEW th \in Threads, th # "app", Moved(th),
           UNCHANGED <<grant, links>>, \A t \in Tenants : tenantMap'[t] \in {tenantMap[t], 0},
           \A m \in Messages : InStream(m)' => InStream(m),
           th \in Regions => \/ Pc(th)' = "idle"
                             \/ /\ Pc(th) # "idle" /\ Msg(th) \in Messages
                                /\ Msg(th)' = Msg(th) /\ at'[th].link = at[th].link
                             \/ HandledOver(th)'
    PROVE  Unlinked'
<1>1. "app" \in Threads /\ at'["app"] = at["app"] /\ ThreadOK("app")
  BY DEF Threads, Fetchers, Moved, Bookkeeping
<1>2. \A t \in Tenants, k \in 1..MaxLinks : Over(t, k) => Over(t, k)'
  BY <1>1 DEF Over, Pc, Tenant
<1>3. Granted' /\ Removed'
  <2>1. Pc("app") \in {"removeDevices", "delete"} => Tenant("app") \in Tenants
    BY <1>1 DEF ThreadOK, Fetchers
  <2>2. QED
    BY <1>1, <2>1 DEF Unlinked, Granted, Removed, Pc, Tenant
<1>4. th \in Regions => HandledOver(th)'
  <2>1. CASE th \in Regions /\ Pc(th)' = "idle"
    BY <2>1 DEF HandledOver
  <2>2. CASE th \in Regions /\ Pc(th) # "idle" /\ Msg(th) \in Messages /\ Msg(th)' = Msg(th)
             /\ at'[th].link = at[th].link
    <3>1. HandledOver(th)
      BY <2>2 DEF Unlinked
    <3>2. CASE Own(Msg(th))
      <4>1. Over(Msg(th).tenant, Msg(th).link) /\ at[th].link # Msg(th).link
        BY <2>2, <3>1, <3>2 DEF HandledOver
      <4>2. Over(Msg(th).tenant, Msg(th).link)'
        BY <1>2, <2>2, <4>1, MessageFields DEF Msg
      <4>3. QED
        BY <2>2, <4>1, <4>2 DEF HandledOver
    <3>3. CASE ~Own(Msg(th))
      BY <2>2, <3>3 DEF HandledOver
    <3>4. QED
      BY <3>2, <3>3
  <2>3. QED
    BY <2>1, <2>2
<1>5. QED
  BY <1>2, <1>3, <1>4, UnlinkedKept

LEMMA RInvLoop == RInv /\ (LoopNext \/ Reload) => RInv'
<1> SUFFICES ASSUME RInv, LoopNext \/ Reload PROVE TypeOK' /\ Bookkeeping' /\ Unlinked'
  BY DEF RInv
<1> USE DEF appVars, loopVars, cloudVars, deviceVars, Pc, Tenant, Msg
<1>0. /\ TypeOK /\ Bookkeeping /\ Unlinked /\ ThreadOK("loop")
      /\ "loop" \in Threads /\ "loop" \in Fetchers /\ "loop" \notin Regions /\ "app" # "loop"
      /\ \A r \in Regions : r \in Threads \ {"loop"}
      /\ \A r \in held : r \in Regions /\ HeldOK(r)
  BY RegistryAssumption DEF RInv, Threads, Fetchers, Bookkeeping, TypeOK
<1>a. Pc("loop") \in {"fetch", "store"} => Tenant("loop") \in Tenants
  BY <1>0 DEF ThreadOK
<1>1. CASE Fetched("loop")
  <2>1. /\ Moved("loop") /\ at'["loop"].pc \in {"idle", "range", "fetch", "store"}
        /\ at'["loop"].pc \in {"fetch", "store"} => at'["loop"].tenant \in Tenants
    BY <1>0, <1>1, Moves, RegistryAssumption DEF Fetched, TypeOK, Labels, Idle, ThreadOK
  <2>2. TypeOK'
    BY <1>0, <1>a, <1>1, <2>1, RegistryAssumption DEF Fetched, TypeOK, Moved
  <2>3. ThreadOK("loop")' /\ (\A r \in held' : HeldOK(r)')
    BY <1>0, <1>1, <2>1 DEF Fetched, TypeOK, ThreadOK, HeldOK, Moved
  <2>4. UNCHANGED <<grant, links, tenantMap, stream>>
    BY <1>1 DEF Fetched
  <2>5. QED
    BY <1>0, <2>1, <2>2, <2>3, <2>4, BookkeepingKept, OthersKeep DEF InStream
<1>2. CASE RangeEnds
  <2>1. /\ Moved("loop") /\ at'["loop"].pc \in {"idle", "range", "fetch", "store"}
        /\ at'["loop"].pc \in {"fetch", "store"} => at'["loop"].tenant \in Tenants
    BY <1>0, <1>2, Moves, RegistryAssumption DEF RangeEnds, TypeOK, Labels, Idle, ThreadOK
  <2>2. TypeOK'
    BY <1>0, <1>a, <1>2, <2>1, RegistryAssumption DEF RangeEnds, TypeOK, Moved
  <2>3. ThreadOK("loop")' /\ (\A r \in held' : HeldOK(r)')
    BY <1>0, <1>2, <2>1 DEF RangeEnds, TypeOK, ThreadOK, HeldOK, Moved
  <2>4. UNCHANGED <<grant, links, tenantMap, stream>>
    BY <1>2 DEF RangeEnds
  <2>5. QED
    BY <1>0, <2>1, <2>2, <2>3, <2>4, BookkeepingKept, OthersKeep DEF InStream
<1>3. CASE ListReloaded
  <2>1. /\ Moved("loop") /\ at'["loop"].pc \in {"idle", "range", "fetch", "store"}
        /\ at'["loop"].pc \in {"fetch", "store"} => at'["loop"].tenant \in Tenants
    BY <1>0, <1>3, Moves, RegistryAssumption DEF ListReloaded, Store, SetDevices, TypeOK, Labels, Idle, ThreadOK
  <2>2. TypeOK'
    BY <1>0, <1>a, <1>3, <2>1, RegistryAssumption DEF ListReloaded, Store, SetDevices, TypeOK, Moved
  <2>3. ThreadOK("loop")' /\ (\A r \in held' : HeldOK(r)')
    BY <1>0, <1>3, <2>1 DEF ListReloaded, Store, SetDevices, TypeOK, ThreadOK, HeldOK, Moved
  <2>4. UNCHANGED <<grant, links, tenantMap, stream>>
    BY <1>3 DEF ListReloaded, Store, SetDevices
  <2>5. QED
    BY <1>0, <2>1, <2>2, <2>3, <2>4, BookkeepingKept, OthersKeep DEF InStream
<1>4. CASE \E t \in Tenants : RangeNext(t)
  <2>1. /\ Moved("loop") /\ at'["loop"].pc \in {"idle", "range", "fetch", "store"}
        /\ at'["loop"].pc \in {"fetch", "store"} => at'["loop"].tenant \in Tenants
    <3>1. PICK t \in Tenants : RangeNext(t)
      BY <1>4
    <3>2. tenantMap[t] \in 0..MaxLinks /\ <<>> \in Messages \cup {<<>>}
      BY <1>0 DEF TypeOK
    <3>3. CASE Begin("loop", "fetch", t, tenantMap[t], <<>>)
      BY <1>0, <3>2, <3>3, Moves DEF TypeOK, Labels
    <3>4. CASE UNCHANGED at
      BY <1>0, <3>1, <3>4 DEF RangeNext, TypeOK, Moved
    <3>5. CASE Leave("loop")
      BY <1>0, <3>5, Moves DEF TypeOK, Idle
    <3>6. QED
      BY <3>1, <3>3, <3>4, <3>5 DEF RangeNext
  <2>2. TypeOK'
    BY <1>0, <1>a, <1>4, <2>1, RegistryAssumption DEF RangeNext, TypeOK, Moved
  <2>3. ThreadOK("loop")' /\ (\A r \in held' : HeldOK(r)')
    BY <1>0, <1>4, <2>1 DEF RangeNext, TypeOK, ThreadOK, HeldOK, Moved
  <2>4. UNCHANGED <<grant, links, tenantMap, stream>>
    BY <1>4 DEF RangeNext
  <2>5. QED
    BY <1>0, <2>1, <2>2, <2>3, <2>4, BookkeepingKept, OthersKeep DEF InStream
<1>5. CASE Reload
  <2>1. /\ Moved("loop") /\ at'["loop"].pc \in {"idle", "range", "fetch", "store"}
        /\ at'["loop"].pc \in {"fetch", "store"} => at'["loop"].tenant \in Tenants
    BY <1>0, <1>5, Moves, RegistryAssumption DEF Reload, TypeOK, Labels, Idle, ThreadOK
  <2>2. TypeOK'
    BY <1>0, <1>a, <1>5, <2>1, RegistryAssumption DEF Reload, TypeOK, Moved
  <2>3. ThreadOK("loop")' /\ (\A r \in held' : HeldOK(r)')
    BY <1>0, <1>5, <2>1 DEF Reload, TypeOK, ThreadOK, HeldOK, Moved
  <2>4. UNCHANGED <<grant, links, tenantMap, stream>>
    BY <1>5 DEF Reload
  <2>5. QED
    BY <1>0, <2>1, <2>2, <2>3, <2>4, BookkeepingKept, OthersKeep DEF InStream
<1>6. QED
  BY <1>1, <1>2, <1>3, <1>4, <1>5 DEF LoopNext

LEMMA RInvSubscriber ==
    ASSUME RInv, NEW r \in Regions, SubscriberNext(r) PROVE RInv'
<1> SUFFICES TypeOK' /\ Bookkeeping' /\ Unlinked'
  BY DEF RInv
<1> USE DEF appVars, loopVars, cloudVars, deviceVars, SubStep, Overtake, NoEffect
<1>0. /\ TypeOK /\ Bookkeeping /\ Unlinked /\ ThreadOK(r) /\ r \in Threads
      /\ r \notin Fetchers /\ r # "app" /\ r # "loop"
      /\ \A q \in held : q \in Regions /\ q \in Threads /\ HeldOK(q)
  BY RegistryAssumption DEF RInv, Threads, Fetchers, Bookkeeping, TypeOK
<1>c. \A q \in held : Tenant(q) \in Tenants
  BY <1>0, MessageFields DEF Bookkeeping, ThreadOK, HeldOK
<1>a. Pc(r) # "idle" => Msg(r) \in Messages /\ Tenant(r) = Msg(r).tenant /\ Tenant(r) \in Tenants
  BY <1>0, MessageFields DEF ThreadOK
<1>b. Pc(r) # "idle" /\ Type(r) # "app:disconnect" => Msg(r).device \in Devices
  BY <1>a, MessageFields DEF Type
<1>d. \A t \in Tenants, D \in SUBSET Devices : deviceMap' = [deviceMap EXCEPT ![t] = D] =>
        /\ deviceMap' \in [Tenants -> (SUBSET Devices) \cup {NoMap}]
        /\ \A u \in Tenants : deviceMap[u] # NoMap => deviceMap'[u] # NoMap
  <2>1. \A D \in SUBSET Devices : D # NoMap
    BY RegistryAssumption DEF NoMap
  <2>2. deviceMap \in [Tenants -> (SUBSET Devices) \cup {NoMap}]
    BY <1>0 DEF TypeOK
  <2>3. QED
    BY <2>1, <2>2
<1> USE DEF Pc, Tenant, Msg, Type
<1>1. CASE Take(r)
  <2> DEFINE m == Head(stream[r])
  <2>1. /\ m \in Messages /\ InStream(m) /\ stream' \in [Regions -> Seq(Messages)]
        /\ \A q \in Messages : InStream(q)' => InStream(q)
    BY <1>0, <1>1, Taken DEF Take, TypeOK
  <2>2. m.tenant \in Tenants /\ tenantMap[m.tenant] \in 0..MaxLinks
    BY <1>0, <2>1, MessageFields DEF TypeOK
  <2>3. UNCHANGED <<tenantMap, deviceMap, held, grant, links>> /\ r \notin held
    BY <1>0, <1>1 DEF Take, HeldOK
  <2>4. CASE tenantMap[m.tenant] = 0
    <3>1. at' = at /\ Moved(r)
      BY <1>0, <1>1, <2>4 DEF Take, TypeOK, Moved
    <3>2. TypeOK'
      BY <1>0, <1>1, <2>1, <2>2, <2>4 DEF Take, TypeOK
    <3>3. Bookkeeping'
      BY <1>0, <2>3, <3>1 DEF Bookkeeping, ThreadOK, HeldOK
    <3>4. QED
      BY <1>0, <1>1, <2>1, <2>3, <3>1, <3>2, <3>3, OthersKeep DEF Take
  <2>5. CASE tenantMap[m.tenant] # 0
    <3>1. Begin(r, "loadDevices", m.tenant, tenantMap[m.tenant], m) /\ UNCHANGED <<late, stale>>
      BY <1>1, <2>5 DEF Take
    <3>2. /\ Moved(r) /\ at'[r].pc = "loadDevices" /\ at'[r].tenant = m.tenant
          /\ at'[r].link = tenantMap[m.tenant] /\ at'[r].msg = m
      BY <1>0, <2>1, <2>2, <3>1, Moves DEF TypeOK, Labels
    <3>3. TypeOK'
      BY <1>0, <1>1, <2>1, <3>1, <3>2 DEF Take, TypeOK, Moved
    <3>4. ThreadOK(r)' /\ \A q \in held' : HeldOK(q)'
      BY <1>0, <2>1, <2>3, <3>2 DEF ThreadOK, HeldOK, Moved, SubPcs
    <3>5. ASSUME Own(m) PROVE HandledOver(r)'
      <4>1. Over(m.tenant, m.link)
        BY <1>0, <2>1, <3>5 DEF Unlinked, StreamOver
      <4>2. at'["app"] = at["app"]
        BY <1>0, <3>2 DEF Moved, Threads, Fetchers
      <4>3. QED
        BY <2>3, <3>2, <4>1, <4>2 DEF HandledOver, Over
    <3>6. HandledOver(r)'
      BY <3>2, <3>5 DEF HandledOver
    <3>7. QED
      BY <1>0, <2>1, <2>3, <3>2, <3>3, <3>4, <3>6, BookkeepingKept, OthersKeep
  <2>6. QED
    BY <2>4, <2>5
<1>2. CASE LoadDevices(r)
  <2>1. /\ Moved(r) /\ at[r].pc # "idle"
        /\ \/ at'[r].pc = "idle"
           \/ /\ at'[r].pc \in SubPcs /\ at'[r].msg = at[r].msg
              /\ at'[r].tenant = at[r].tenant /\ at'[r].link = at[r].link
              /\ at'[r].pc \in {"loadDevice", "lookup"} => Type(r) # "app:disconnect"
              /\ at'[r].pc = "loadDevice" => Type(r) # "device:activate"
    BY <1>0, <1>2, Moves DEF LoadDevices, TypeOK, Labels, SubPcs, Idle, ThreadOK
  <2>2. TypeOK'
    BY <1>0, <1>a, <1>b, <1>2, <2>1, RegistryAssumption DEF LoadDevices, TypeOK, ThreadOK, HeldOK, Moved
  <2>3. ThreadOK(r)'
    BY <1>0, <1>a, <2>1 DEF ThreadOK, SubPcs
  <2>4. \A q \in held' : HeldOK(q)'
    <3>1. r \notin held /\ deviceMap' = deviceMap
      BY <1>0, <1>2 DEF LoadDevices, HeldOK
    <3>2. CASE held' = held
      BY <1>0, <2>1, <3>1, <3>2 DEF HeldOK, Moved
    <3>3. CASE held' = held \cup {r} /\ held' # held
      <4>1. /\ at'[r].pc \in {"loadDevice", "lookup"} /\ at'[r].tenant = at[r].tenant
            /\ deviceMap[Tenant(r)] # NoMap
        BY <1>0, <1>2, <3>3, Moves DEF LoadDevices, TypeOK, Labels
      <4>2. QED
        BY <1>0, <2>1, <3>1, <3>3, <4>1 DEF HeldOK, Moved
    <3>4. QED
      BY <1>2, <3>2, <3>3 DEF LoadDevices
  <2>5. /\ UNCHANGED <<grant, links, stream>>
        /\ \A t \in Tenants : tenantMap'[t] \in {tenantMap[t], 0}
    BY <1>0, <1>2 DEF LoadDevices, TypeOK
  <2>6. QED
    BY <1>0, <1>a, <2>1, <2>2, <2>3, <2>4, <2>5, BookkeepingKept, OthersKeep DEF InStream
<1>3. CASE LoadDevice(r)
  <2>1. /\ Moved(r) /\ at[r].pc # "idle"
        /\ \/ at'[r].pc = "idle"
           \/ /\ at'[r].pc \in SubPcs /\ at'[r].msg = at[r].msg
              /\ at'[r].tenant = at[r].tenant /\ at'[r].link = at[r].link
              /\ at'[r].pc \in {"loadDevice", "lookup"} => Type(r) # "app:disconnect"
              /\ at'[r].pc = "loadDevice" => Type(r) # "device:activate"
    BY <1>0, <1>3, Moves DEF LoadDevice, Forget, TypeOK, Labels, SubPcs, Idle, ThreadOK
  <2>a. /\ deviceMap' \in [Tenants -> (SUBSET Devices) \cup {NoMap}]
        /\ \A u \in Tenants : deviceMap[u] # NoMap => deviceMap'[u] # NoMap
    <3>1. CASE deviceMap' = deviceMap
      BY <1>0, <3>1 DEF TypeOK
    <3>2. CASE r \in held /\ deviceMap' # deviceMap
      <4>1. deviceMap[Tenant(r)] \in SUBSET Devices /\ Tenant(r) \in Tenants
        BY <1>0, <1>a, <3>2 DEF HeldOK, TypeOK
      <4>2. \E D \in SUBSET Devices : deviceMap' = [deviceMap EXCEPT ![Tenant(r)] = D]
        BY <1>0, <1>b, <1>3, <2>1, <3>2, <4>1 DEF LoadDevice, Forget, ThreadOK
      <4>3. QED
        BY <1>d, <4>1, <4>2
    <3>3. QED
      BY <1>3, <3>1, <3>2 DEF LoadDevice, Forget
  <2>2. TypeOK'
    BY <1>0, <1>a, <1>b, <2>a, <1>3, <2>1, RegistryAssumption DEF LoadDevice, Forget, TypeOK, ThreadOK, HeldOK, Moved
  <2>3. ThreadOK(r)'
    BY <1>0, <1>a, <2>1 DEF ThreadOK, SubPcs
  <2>4. \A q \in held' : HeldOK(q)'
    <3>1. held' \subseteq held /\ (r \in held' => at'[r].pc = "lookup")
      BY <1>0, <1>3, Moves DEF LoadDevice, Forget, TypeOK, Labels
    <3>2. QED
      BY <1>0, <1>c, <2>1, <2>a, <3>1 DEF HeldOK, Moved
  <2>5. /\ UNCHANGED <<grant, links, stream>>
        /\ \A t \in Tenants : tenantMap'[t] \in {tenantMap[t], 0}
    BY <1>0, <1>3 DEF LoadDevice, Forget, TypeOK
  <2>6. QED
    BY <1>0, <1>a, <2>1, <2>2, <2>3, <2>4, <2>5, BookkeepingKept, OthersKeep DEF InStream
<1>4. CASE LookedUp(r)
  <2>1. /\ Moved(r) /\ at[r].pc # "idle"
        /\ \/ at'[r].pc = "idle"
           \/ /\ at'[r].pc \in SubPcs /\ at'[r].msg = at[r].msg
              /\ at'[r].tenant = at[r].tenant /\ at'[r].link = at[r].link
              /\ at'[r].pc \in {"loadDevice", "lookup"} => Type(r) # "app:disconnect"
              /\ at'[r].pc = "loadDevice" => Type(r) # "device:activate"
    BY <1>0, <1>4, Moves DEF LookedUp, Lookup, StoreDevice, StoreAlways, TypeOK, Labels, SubPcs, Idle, ThreadOK
  <2>a. /\ deviceMap' \in [Tenants -> (SUBSET Devices) \cup {NoMap}]
        /\ \A u \in Tenants : deviceMap[u] # NoMap => deviceMap'[u] # NoMap
    <3>1. CASE deviceMap' = deviceMap
      BY <1>0, <3>1 DEF TypeOK
    <3>2. CASE r \in held /\ deviceMap' # deviceMap
      <4>1. deviceMap[Tenant(r)] \in SUBSET Devices /\ Tenant(r) \in Tenants
        BY <1>0, <1>a, <3>2 DEF HeldOK, TypeOK
      <4>2. \E D \in SUBSET Devices : deviceMap' = [deviceMap EXCEPT ![Tenant(r)] = D]
        BY <1>0, <1>b, <1>4, <2>1, <3>2, <4>1 DEF LookedUp, Lookup, StoreDevice, StoreAlways, ThreadOK
      <4>3. QED
        BY <1>d, <4>1, <4>2
    <3>3. QED
      BY <1>4, <3>1, <3>2 DEF LookedUp, Lookup, StoreDevice, StoreAlways
  <2>2. TypeOK'
    BY <1>0, <1>a, <1>b, <2>a, <1>4, <2>1, RegistryAssumption DEF LookedUp, Lookup, StoreDevice, StoreAlways, TypeOK, ThreadOK, HeldOK, Moved
  <2>3. ThreadOK(r)'
    BY <1>0, <1>a, <2>1 DEF ThreadOK, SubPcs
  <2>4. \A q \in held' : HeldOK(q)'
    <3>1. held' \subseteq held /\ (r \in held' => at'[r].pc = "lookup")
      BY <1>0, <1>4, Moves DEF LookedUp, Lookup, StoreDevice, StoreAlways, TypeOK, Labels
    <3>2. QED
      BY <1>0, <1>c, <2>1, <2>a, <3>1 DEF HeldOK, Moved
  <2>5. /\ UNCHANGED <<grant, links, stream>>
        /\ \A t \in Tenants : tenantMap'[t] \in {tenantMap[t], 0}
    BY <1>0, <1>4 DEF LookedUp, Lookup, StoreDevice, StoreAlways, TypeOK
  <2>6. QED
    BY <1>0, <1>a, <2>1, <2>2, <2>3, <2>4, <2>5, BookkeepingKept, OthersKeep DEF InStream
<1>5. CASE LookupFails(r)
  <2>1. /\ Moved(r) /\ at[r].pc # "idle"
        /\ \/ at'[r].pc = "idle"
           \/ /\ at'[r].pc \in SubPcs /\ at'[r].msg = at[r].msg
              /\ at'[r].tenant = at[r].tenant /\ at'[r].link = at[r].link
              /\ at'[r].pc \in {"loadDevice", "lookup"} => Type(r) # "app:disconnect"
              /\ at'[r].pc = "loadDevice" => Type(r) # "device:activate"
    BY <1>0, <1>5, Moves DEF LookupFails, Lookup, TypeOK, Labels, SubPcs, Idle, ThreadOK
  <2>2. TypeOK'
    BY <1>0, <1>a, <1>b, <1>5, <2>1, RegistryAssumption DEF LookupFails, Lookup, TypeOK, ThreadOK, HeldOK, Moved
  <2>3. ThreadOK(r)'
    BY <1>0, <1>a, <2>1 DEF ThreadOK, SubPcs
  <2>4. \A q \in held' : HeldOK(q)'
    BY <1>0, <1>a, <1>c, <1>5, <2>1 DEF LookupFails, Lookup, TypeOK, HeldOK, Moved
  <2>5. /\ UNCHANGED <<grant, links, stream>>
        /\ \A t \in Tenants : tenantMap'[t] \in {tenantMap[t], 0}
    BY <1>0, <1>5 DEF LookupFails, Lookup, TypeOK
  <2>6. QED
    BY <1>0, <1>a, <2>1, <2>2, <2>3, <2>4, <2>5, BookkeepingKept, OthersKeep DEF InStream
<1>6. CASE HandlerReturns(r)
  <2>1. /\ Moved(r) /\ at[r].pc # "idle"
        /\ \/ at'[r].pc = "idle"
           \/ /\ at'[r].pc \in SubPcs /\ at'[r].msg = at[r].msg
              /\ at'[r].tenant = at[r].tenant /\ at'[r].link = at[r].link
              /\ at'[r].pc \in {"loadDevice", "lookup"} => Type(r) # "app:disconnect"
              /\ at'[r].pc = "loadDevice" => Type(r) # "device:activate"
    BY <1>0, <1>6, Moves DEF HandlerReturns, TypeOK, Labels, SubPcs, Idle, ThreadOK
  <2>2. TypeOK'
    BY <1>0, <1>a, <1>b, <1>6, <2>1, RegistryAssumption DEF HandlerReturns, TypeOK, ThreadOK, HeldOK, Moved
  <2>3. ThreadOK(r)'
    BY <1>0, <1>a, <2>1 DEF ThreadOK, SubPcs
  <2>4. \A q \in held' : HeldOK(q)'
    BY <1>0, <1>a, <1>c, <1>6, <2>1 DEF HandlerReturns, TypeOK, HeldOK, Moved
  <2>5. /\ UNCHANGED <<grant, links, stream>>
        /\ \A t \in Tenants : tenantMap'[t] \in {tenantMap[t], 0}
    BY <1>0, <1>6 DEF HandlerReturns, TypeOK
  <2>6. QED
    BY <1>0, <1>a, <2>1, <2>2, <2>3, <2>4, <2>5, BookkeepingKept, OthersKeep DEF InStream
<1>7. CASE DropTenant(r)
  <2>1. /\ Moved(r) /\ at[r].pc # "idle"
        /\ \/ at'[r].pc = "idle"
           \/ /\ at'[r].pc \in SubPcs /\ at'[r].msg = at[r].msg
              /\ at'[r].tenant = at[r].tenant /\ at'[r].link = at[r].link
              /\ at'[r].pc \in {"loadDevice", "lookup"} => Type(r) # "app:disconnect"
              /\ at'[r].pc = "loadDevice" => Type(r) # "device:activate"
    BY <1>0, <1>7, Moves DEF DropTenant, TypeOK, Labels, SubPcs, Idle, ThreadOK
  <2>2. TypeOK'
    BY <1>0, <1>a, <1>b, <1>7, <2>1, RegistryAssumption DEF DropTenant, TypeOK, ThreadOK, HeldOK, Moved
  <2>3. ThreadOK(r)'
    BY <1>0, <1>a, <2>1 DEF ThreadOK, SubPcs
  <2>4. \A q \in held' : HeldOK(q)'
    BY <1>0, <1>a, <1>c, <1>7, <2>1 DEF DropTenant, TypeOK, HeldOK, Moved
  <2>5. /\ UNCHANGED <<grant, links, stream>>
        /\ \A t \in Tenants : tenantMap'[t] \in {tenantMap[t], 0}
    BY <1>0, <1>7 DEF DropTenant, TypeOK
  <2>6. QED
    BY <1>0, <1>a, <2>1, <2>2, <2>3, <2>4, <2>5, BookkeepingKept, OthersKeep DEF InStream
<1>8. CASE DropDevices(r)
  <2>1. /\ Moved(r) /\ at[r].pc # "idle"
        /\ \/ at'[r].pc = "idle"
           \/ /\ at'[r].pc \in SubPcs /\ at'[r].msg = at[r].msg
              /\ at'[r].tenant = at[r].tenant /\ at'[r].link = at[r].link
              /\ at'[r].pc \in {"loadDevice", "lookup"} => Type(r) # "app:disconnect"
              /\ at'[r].pc = "loadDevice" => Type(r) # "device:activate"
    BY <1>0, <1>8, Moves DEF DropDevices, ForgetDevices, SetDevices, TypeOK, Labels, SubPcs, Idle, ThreadOK
  <2>2. TypeOK'
    BY <1>0, <1>a, <1>b, <1>8, <2>1, RegistryAssumption DEF DropDevices, ForgetDevices, SetDevices, TypeOK, ThreadOK, HeldOK, Moved
  <2>3. ThreadOK(r)'
    BY <1>0, <1>a, <2>1 DEF ThreadOK, SubPcs
  <2>4. \A q \in held' : HeldOK(q)'
    BY <1>0, <1>a, <1>c, <1>8, <2>1 DEF DropDevices, ForgetDevices, SetDevices, TypeOK, HeldOK, Moved
  <2>5. /\ UNCHANGED <<grant, links, stream>>
        /\ \A t \in Tenants : tenantMap'[t] \in {tenantMap[t], 0}
    BY <1>0, <1>8 DEF DropDevices, ForgetDevices, SetDevices, TypeOK
  <2>6. QED
    BY <1>0, <1>a, <2>1, <2>2, <2>3, <2>4, <2>5, BookkeepingKept, OthersKeep DEF InStream
<1>9. QED
  BY <1>1, <1>2, <1>3, <1>4, <1>5, <1>6, <1>7, <1>8 DEF SubscriberNext

LEMMA RInvCloud ==
    ASSUME RInv, NEW t \in Tenants,
           CloudUnlinks(t) \/ \E d \in Devices : Change(t, d) \/ DeviceSends(t, d)
    PROVE  RInv'
<1> USE DEF appVars, loopVars, deviceVars
<1>0. /\ TypeOK /\ Bookkeeping /\ Unlinked /\ "app" \in Threads
      /\ grant \in [Tenants -> 0..MaxLinks] /\ stream \in [Regions -> Seq(Messages)]
      /\ links \in 1..MaxLinks /\ MaxLinks \in Nat
  BY RegistryAssumption DEF RInv, Threads, Fetchers, TypeOK
<1>1. /\ UNCHANGED <<tenantMap, deviceVars, at, list, appVars, loopVars, links>>
      /\ changes' \in 0..MaxChanges
  <2>1. CloudStep
    BY DEF Change, DeviceSends, CloudUnlinks
  <2>2. changes \in 0..MaxChanges /\ MaxChanges \in Nat
    BY <1>0, RegistryAssumption DEF TypeOK
  <2>3. QED
    BY <2>1, <2>2 DEF CloudStep
<1>2. /\ stream' \in [Regions -> Seq(Messages)] /\ grant' \in [Tenants -> 0..MaxLinks]
      /\ cloud' \in [Tenants -> SUBSET Devices]
      /\ \A u \in Tenants : grant'[u] \in {grant[u], 0}
      /\ \A m \in Messages : InStream(m)' => InStream(m) \/ ~Own(m)
  <2>1. CASE CloudUnlinks(t)
    <3>1. EndLink(t, FALSE) /\ cloud' = cloud
      BY <2>1 DEF CloudUnlinks
    <3>2. /\ stream' \in [Regions -> Seq(Messages)] /\ grant' \in [Tenants -> 0..MaxLinks]
          /\ grant' = [grant EXCEPT ![t] = 0]
          /\ \A m \in Messages : InStream(m)' => InStream(m) \/ m.byApp = FALSE
      BY <1>0, <3>1, LinkEnds, Zenon
    <3>3. QED
      BY <1>0, <3>1, <3>2 DEF TypeOK, Own
  <2>2. ASSUME NEW d \in Devices, NEW y \in {"device:activate", "device:deactivate", "data"},
               grant[t] # 0, Send(Home[d], DeviceMessage(y, t, d))
        PROVE  /\ stream' \in [Regions -> Seq(Messages)]
               /\ \A m \in Messages : InStream(m)' => InStream(m) \/ ~Own(m)
    <3>1. /\ DeviceMessage(y, t, d) \in Messages /\ Home[d] \in Regions
          /\ DeviceMessage(y, t, d).type = y
      BY <1>0, <2>2, MessagesMade, RegistryAssumption DEF DeviceMessage
    <3>2. QED
      BY <1>0, <2>2, <3>1, Sent DEF Own
  <2>3. CASE \E d \in Devices : Change(t, d) \/ DeviceSends(t, d)
    <3>1. PICK d \in Devices : Change(t, d) \/ DeviceSends(t, d)
      BY <2>3
    <3>2. grant' = grant /\ cloud' \in [Tenants -> SUBSET Devices]
      <4>1. cloud \in [Tenants -> SUBSET Devices]
        BY <1>0 DEF TypeOK
      <4>2. grant' = grant /\ \E D \in SUBSET Devices : cloud' \in {cloud, [cloud EXCEPT ![t] = D]}
        BY <3>1, <4>1 DEF Change, DeviceSends
      <4>3. QED
        BY <4>1, <4>2
    <3>3. \/ UNCHANGED stream
          \/ /\ grant[t] # 0
             /\ \E y \in {"device:activate", "device:deactivate", "data"} :
                  Send(Home[d], DeviceMessage(y, t, d))
      BY <3>1 DEF Change, DeviceSends
    <3>4. QED
      BY <1>0, <2>2, <3>2, <3>3 DEF InStream
  <2>4. QED
    BY <2>1, <2>3
<1>3. TypeOK'
  BY <1>0, <1>1, <1>2 DEF TypeOK
<1>4. Bookkeeping'
  BY <1>0, <1>1 DEF Bookkeeping, ThreadOK, HeldOK, Pc, Tenant, Msg, Type
<1>5. \A u \in Tenants, k \in 1..MaxLinks : Over(u, k) => Over(u, k)'
  BY <1>1, <1>2 DEF Over, Pc, Tenant
<1>6. Granted' /\ Removed' /\ Moved("app")
  <2>1. Granted'
    <3>1. links' = links /\ links >= 0 /\ Granted
      BY <1>0, <1>1 DEF Unlinked
    <3>2. QED
      BY <1>2, <3>1 DEF Granted
  <2>2. Removed' /\ Moved("app")
    BY <1>0, <1>1 DEF TypeOK, Unlinked, Removed, Moved, Pc, Tenant
  <2>3. QED
    BY <2>1, <2>2
<1>7. QED
  BY <1>0, <1>2, <1>3, <1>4, <1>5, <1>6, UnlinkedKept, RegistryAssumption DEF RInv

LEMMA RInvCall ==
    ASSUME RInv, NEW t \in Tenants, LinkTenant(t) \/ SetTenant(t) \/ UnlinkTenant(t)
    PROVE  RInv'
<1> USE DEF appVars, loopVars, deviceVars, Call
<1>0. /\ TypeOK /\ Bookkeeping /\ Unlinked /\ "app" \in Threads /\ "app" # "loop"
      /\ "app" \notin Regions /\ links \in 1..MaxLinks /\ MaxLinks \in Nat
      /\ grant \in [Tenants -> 0..MaxLinks] /\ tenantMap \in [Tenants -> 0..MaxLinks]
      /\ \A r \in held : r \in Regions /\ r \in Threads /\ HeldOK(r)
  BY RegistryAssumption DEF RInv, Threads, Fetchers, TypeOK, Bookkeeping
<1>1. PICK k \in 0..MaxLinks :
        /\ \/ /\ Begin("app", "setTenant", t, k, <<>>) /\ k = links + 1
              /\ links' = links + 1 /\ grant' = [grant EXCEPT ![t] = links + 1]
           \/ Begin("app", "setTenant", t, k, <<>>) /\ UNCHANGED <<grant, links>> /\ k = grant[t]
           \/ Begin("app", "removeTenant", t, k, <<>>) /\ UNCHANGED <<grant, links>>
        /\ links' \in 1..MaxLinks
  BY <1>0 DEF LinkTenant, SetTenant, UnlinkTenant
<1>2. /\ Moved("app") /\ Tenant("app")' = t /\ at'["app"].link = k
      /\ \/ /\ Pc("app")' = "setTenant" /\ k = links + 1
            /\ links' = links + 1 /\ grant' = [grant EXCEPT ![t] = links + 1]
         \/ Pc("app")' = "setTenant" /\ UNCHANGED <<grant, links>> /\ k = grant[t]
         \/ Pc("app")' = "removeTenant" /\ UNCHANGED <<grant, links>>
  BY <1>0, <1>1, Moves DEF TypeOK, Labels, Pc, Tenant
<1>3. UNCHANGED <<tenantMap, deviceVars, list, started, loopVars, cloud, stream, changes>>
  BY DEF LinkTenant, SetTenant, UnlinkTenant
<1>4. TypeOK'
  <2>1. grant' \in [Tenants -> 0..MaxLinks]
    BY <1>0, <1>1
  <2>2. call' \in {"LinkTenant", "SetTenant", "UnlinkTenant"} /\ result' = "none"
    BY DEF LinkTenant, SetTenant, UnlinkTenant
  <2>3. QED
    BY <1>0, <1>1, <1>2, <1>3, <2>1, <2>2 DEF TypeOK, Moved
<1>5. ThreadOK("app")' /\ \A r \in held' : HeldOK(r)'
  BY <1>0, <1>2, <1>3 DEF ThreadOK, HeldOK, Moved, AppPcs, Pc, Tenant
<1>6. \A u \in Tenants, j \in 1..MaxLinks : Over(u, j) => Over(u, j)'
  BY <1>0, <1>1, <1>2, <1>3 DEF Over
<1>7. Granted' /\ Removed'
  <2>1. \A u \in Tenants : grant[u] \in Nat /\ grant[u] <= links
    BY <1>0 DEF Unlinked, Granted
  <2>2. Granted'
    BY <1>0, <1>2, <2>1 DEF Granted
  <2>3. QED
    BY <1>2, <2>2 DEF Removed
<1>8. QED
  BY <1>0, <1>2, <1>3, <1>4, <1>5, <1>6, <1>7, BookkeepingKept, UnlinkedKept DEF RInv, InStream

LEMMA RInvStep == RInv /\ [Next]_vars => RInv'
<1> SUFFICES ASSUME RInv, [Next]_vars PROVE RInv'
  OBVIOUS
<1>1. CASE UNCHANGED vars
  BY <1>1 DEF RInv, TypeOK, Bookkeeping, ThreadOK, HeldOK, Unlinked, Granted, Removed, StreamOver,
     InStream, HandledOver, Over, Pc, Tenant, Msg, Type, vars, deviceVars, appVars, loopVars,
     cloudVars
<1>2. QED
  BY <1>1, RInvApp, RInvLoop, RInvSubscriber, RInvCloud, RInvCall DEF Next

\* Whatever the threads do to the maps meanwhile, a tenant's devices are a set of devices or
\* none at all, and no thread loses track of its tenant (app.go:504-616, 733-875).
THEOREM RegistryTypeCorrect == Spec => []TypeOK
<1>1. RInv => TypeOK
  BY DEF RInv
<1>2. QED
  BY <1>1, RInvInit, RInvStep, PTL DEF Spec

\* UnlinkTenant removes the tenant from the map first, so TenantUnlinkedHandler is never told
\* of a link that the application ended itself (app.go:774).
THEOREM RegistryUnlinkNotCalledBack == Spec => []UnlinkNotCalledBack
<1>1. RInv => UnlinkNotCalledBack
  BY DEF RInv, Unlinked, HandledOver, UnlinkNotCalledBack, Own, Type
<1>2. QED
  BY <1>1, RInvInit, RInvStep, PTL DEF Spec

\* The call that unlinked a tenant returns, and t is the tenant.
UnlinkReturns(t) == Pc("app") = "delete" /\ Tenant("app") = t /\ at'["app"].pc # "delete"
UnlinkedOnReturn ==
    [][\A t \in Tenants : UnlinkReturns(t) =>
          tenantMap'[t] = 0 /\ (result' # "error" => grant'[t] = 0)]_vars

LEMMA UnlinkReturnsUnlinked ==
    ASSUME RInv, [Next]_vars, NEW t \in Tenants, UnlinkReturns(t)
    PROVE  tenantMap'[t] = 0 /\ (result' # "error" => grant'[t] = 0)
<1> USE DEF UnlinkReturns, Pc
<1>1. tenantMap[t] = 0
  BY DEF RInv, Unlinked, Removed, Tenant
<1>2. /\ at \in [Threads -> Places] /\ grant \in [Tenants -> 0..MaxLinks]
      /\ "app" \in Threads /\ "loop" \in Threads /\ "app" # "loop"
      /\ \A r \in Regions : r \in Threads /\ r # "app" /\ r # "loop"
  BY RegistryAssumption DEF RInv, TypeOK, Threads, Fetchers
<1>3. at'["app"] # at["app"]
  OBVIOUS
<1>4. CASE AppNext
  <2>1. Deleted
    BY <1>4
    DEF AppNext, AppStep, StoreTenant, Fetched, FetchFails, TenantSet, RemoveTenant, RemoveDevices
  <2>2. UNCHANGED tenantMap
    BY <2>1 DEF Deleted
  <2>3. result' = "error" \/ EndLink(t, TRUE)
    BY <2>1 DEF Deleted, Returns, Tenant
  <2>4. QED
    BY <1>1, <1>2, <2>2, <2>3 DEF EndLink
<1>5. CASE LoopNext \/ Reload
  BY <1>2, <1>3, <1>5
  DEF LoopNext, Reload, Fetched, RangeEnds, ListReloaded, RangeNext, Begin, Goto, Leave
<1>6. ASSUME NEW u \in Tenants,
             LinkTenant(u) \/ SetTenant(u) \/ UnlinkTenant(u) \/ CloudUnlinks(u)
             \/ \E d \in Devices : Change(u, d) \/ DeviceSends(u, d)
      PROVE  FALSE
  BY <1>3, <1>6
  DEF LinkTenant, SetTenant, UnlinkTenant, Call, CloudUnlinks, Change, DeviceSends, CloudStep
<1>7. ASSUME NEW r \in Regions, SubscriberNext(r) PROVE FALSE
  BY <1>2, <1>3, <1>7
  DEF SubscriberNext, Take, LoadDevices, LoadDevice, Lookup, LookedUp, LookupFails, DropTenant,
      DropDevices, HandlerReturns, Begin, Goto, Leave
<1>8. QED
  BY <1>3, <1>4, <1>5, <1>6, <1>7 DEF Next, vars

\* When UnlinkTenant returns, also inside a LinkTenant that could not fetch the devices, the app
\* has the tenant no more, and unless it returns an error the link is gone in the cloud: the
\* answer that LinkTenant loses (LinkResult) is one about no link (app.go:759-768, 773-797).
THEOREM UnlinkedWhenReturned == Spec => UnlinkedOnReturn
<1>1. RInv /\ [Next]_vars =>
        [\A t \in Tenants : UnlinkReturns(t) =>
            tenantMap'[t] = 0 /\ (result' # "error" => grant'[t] = 0)]_vars
  BY UnlinkReturnsUnlinked
<1>2. QED
  BY <1>1, RInvInit, RInvStep, PTL DEF Spec, UnlinkedOnReturn

-----------------------------------------------------------------------------
(* The device lists.  What the app holds of a tenant and what the cloud has may differ only *)
(* by changes that are still on their way: Current says so of every map and of every list   *)
(* that a fetcher has yet to store, and what it needs of the streams and of the links.      *)

\* m is about device d of the link that t has now; a change is an activation or a deactivation.
About(m, t, d) ==
    m.type # "app:disconnect" /\ m.tenant = t /\ m.device = d /\ m.link = grant[t]
ChangeOf(m, t, d) == About(m, t, d) /\ m.type # "data"
Agrees(m, t, d) == m.type # "device:deactivate" <=> d \in cloud[t]

\* A change is on its way to the maps: in a stream, or with a subscriber that has yet to
\* apply it.
Followed(r, k, t, d) == \E j \in k + 1..Len(stream[r]) : ChangeOf(stream[r][j], t, d)
Coming(r, t, d) == Followed(r, 0, t, d)
InHand(r, t, d) ==
    /\ Pc(r) # "idle" /\ ChangeOf(Msg(r), t, d)
    /\ \/ Pc(r) = "loadDevices"
       \/ Pc(r) = "loadDevice" /\ Type(r) = "device:deactivate"
       \/ Pc(r) = "lookup" /\ Type(r) = "device:activate"
Pending(t, d) == \E r \in Regions : Coming(r, t, d) \/ InHand(r, t, d)

\* A set of devices differs from the cloud's only by what is still on its way.
UpToDate(S, t) == \A d \in Devices : Pending(t, d) \/ (d \in S <=> d \in cloud[t])

\* A device's messages come in the order they were sent, on the stream of its region, and
\* the last of them tells whether the cloud has the device.
AtHome(m, r) == m.type # "app:disconnect" => Home[m.device] = r
Explained(m, r, k) ==
    /\ AtHome(m, r) /\ m.link <= links
    /\ \A t \in Tenants, d \in Devices :
         About(m, t, d) => Agrees(m, t, d) \/ Followed(r, k, t, d)
InOrder(r) ==
    /\ \A k \in 1..Len(stream[r]) : Explained(stream[r][k], r, k)
    /\ Pc(r) # "idle" => Explained(Msg(r), r, 0)

\* Links are numbered; a link that ended is not used again, and a tenant is known by a link
\* other than the one it has only at the beginning of LinkTenant.
Removing(t) == \E th \in {"app"} \cup Regions : Pc(th) = "removeDevices" /\ Tenant(th) = t
Relinking(t) ==
    /\ call = "LinkTenant" /\ Tenant("app") = t
    /\ Pc("app") \in {"setTenant", "fetch", "store", "removeTenant"}
Linked(t) == grant[t] # 0 /\ tenantMap[t] = grant[t]
LinkOK(t) ==
    /\ tenantMap[t] <= links
    /\ tenantMap[t] # 0 /\ grant[t] # 0 /\ tenantMap[t] # grant[t] =>
           Relinking(t) /\ Pc("app") = "setTenant"
FetcherOK(f) ==
    /\ at[f].link <= links
    /\ Pc(f) \in {"setTenant", "fetch", "store"} => at[f].link # 0
    /\ Pc(f) = "setTenant" => grant[Tenant(f)] \in {0, at[f].link}
Numbered == (\A t \in Tenants : LinkOK(t)) /\ (\A f \in Fetchers : FetcherOK(f))

ListOK(f) ==
    Pc(f) = "store" /\ f \notin late /\ at[f].link = grant[Tenant(f)] =>
        UpToDate(list[f], Tenant(f))
MapOK(t) ==
    /\ deviceMap[t] # NoMap /\ t \notin stale /\ ~Removing(t) =>
           /\ tenantMap[t] # 0
           /\ Linked(t) /\ ~Relinking(t) => UpToDate(deviceMap[t], t)
Current ==
    /\ \A r \in Regions : InOrder(r)
    /\ Numbered
    /\ \A f \in Fetchers : ListOK(f)
    /\ \A t \in Tenants : MapOK(t)

\* A linked tenant that the application is not at work on has a device list.
Mapped ==
    \A t \in Tenants :
        tenantMap[t] # 0 /\ t \notin stale /\ (Pc("app") = "idle" \/ Tenant("app") # t) =>
            deviceMap[t] # NoMap

CInv == RInv /\ Current /\ Mapped

\* A step that no stream and no subscriber sees.
LEMMA QuietStep ==
    ASSUME UNCHANGED <<stream, grant, cloud, links>>, \A r \in Regions : at'[r] = at[r]
    PROVE  /\ \A t \in Tenants, S \in SUBSET Devices : UpToDate(S, t)' <=> UpToDate(S, t)
           /\ \A r \in Regions : InOrder(r)' <=> InOrder(r)
<1>1. \A m, t, d : /\ About(m, t, d)' <=> About(m, t, d)
                   /\ ChangeOf(m, t, d)' <=> ChangeOf(m, t, d)
                   /\ Agrees(m, t, d)' <=> Agrees(m, t, d)
  BY DEF About, ChangeOf, Agrees
<1>2. \A r \in Regions : \A t, d :
        /\ \A k : Followed(r, k, t, d)' <=> Followed(r, k, t, d)
        /\ Coming(r, t, d)' <=> Coming(r, t, d)
        /\ InHand(r, t, d)' <=> InHand(r, t, d)
  BY <1>1 DEF Followed, Coming, InHand, Pc, Msg, Type
<1>3. \A t, d : Pending(t, d)' <=> Pending(t, d)
  BY <1>2 DEF Pending
<1>4. \A t \in Tenants, S \in SUBSET Devices : UpToDate(S, t)' <=> UpToDate(S, t)
  BY <1>3 DEF UpToDate
<1>5. ASSUME NEW r \in Regions PROVE InOrder(r)' <=> InOrder(r)
  <2>1. at'[r] = at[r]
    OBVIOUS
  <2>2. QED
    BY <2>1 DEF InOrder, Explained, AtHome, About, Agrees, ChangeOf, Followed, Pc, Msg
<1>6. QED
  BY <1>4, <1>5

LEMMA CurrentInit == Init => Current
<1> SUFFICES ASSUME Init PROVE Current
  OBVIOUS
<1> USE RegistryAssumption DEF Init, Pc, Tenant, Msg, Idle, Threads, Fetchers
<1>1. \A r \in Regions : InOrder(r)
  <2>1. \A r \in Regions : Len(stream[r]) = 0 /\ Pc(r) = "idle"
    OBVIOUS
  <2>2. QED
    BY <2>1, 1..0 = {} DEF InOrder
<1>2. Numbered
  BY DEF Numbered, LinkOK, FetcherOK
<1>3. (\A f \in Fetchers : ListOK(f)) /\ (\A t \in Tenants : MapOK(t))
  BY DEF ListOK, MapOK
<1>4. QED
  BY <1>1, <1>2, <1>3 DEF Current

\* What a step of a fetcher has to show: numbers, the fetcher's list, and the maps.
LEMMA FetcherStep ==
    ASSUME TypeOK, Bookkeeping, Current, NEW f \in Fetchers, Moved(f),
           UNCHANGED <<stream, grant, cloud, links>>,
           \A g \in Fetchers \ {f} : list'[g] = list[g] /\ (g \in late' <=> g \in late),
           Numbered', ListOK(f)', \A t \in Tenants : MapOK(t)'
    PROVE  Current'
<1>1. \A r \in Regions : r \in Threads \ {f} /\ at'[r] = at[r]
  BY RegistryAssumption DEF Moved, Threads, Fetchers
<1>2. \A r \in Regions : InOrder(r)'
  BY <1>1, QuietStep DEF Current
<1>3. ASSUME NEW g \in Fetchers \ {f} PROVE ListOK(g)'
  <2>1. at'[g] = at[g] /\ ListOK(g)
    BY <1>3 DEF Moved, Threads, Current
  <2>2. list[g] \in SUBSET Devices
    BY <1>3 DEF TypeOK
  <2>3. CASE Tenant(g) \in Tenants
    BY <1>1, <1>3, <2>1, <2>2, <2>3, QuietStep DEF ListOK, Pc, Tenant
  <2>4. CASE Pc(g) = "store"
    BY <1>3, <2>3, <2>4 DEF Bookkeeping, ThreadOK, Threads
  <2>5. CASE Pc(g) # "store"
    BY <2>1, <2>5 DEF ListOK, Pc
  <2>6. QED
    BY <2>4, <2>5
<1>4. QED
  BY <1>2, <1>3 DEF Current

LEMMA MapsQuiet ==
    ASSUME TypeOK, Current, UNCHANGED <<stream, grant, cloud, links, tenantMap, deviceMap>>,
           UNCHANGED call, \A th \in {"app"} \cup Regions : at'[th] = at[th], stale \subseteq stale'
    PROVE  \A t \in Tenants : MapOK(t)'
<1> SUFFICES ASSUME NEW t \in Tenants PROVE MapOK(t)'
  OBVIOUS
<1>1. /\ Removing(t)' <=> Removing(t)
      /\ Relinking(t)' <=> Relinking(t)
      /\ Linked(t)' <=> Linked(t)
  BY DEF Removing, Relinking, Linked, Pc, Tenant
<1>2. deviceMap[t] # NoMap => deviceMap[t] \in SUBSET Devices
  BY DEF TypeOK
<1>3. QED
  BY <1>1, <1>2, QuietStep DEF Current, MapOK

\* The list a fetcher stores is current, or its tenant is marked.
LEMMA Stored ==
    ASSUME TypeOK, Bookkeeping, Current, NEW f \in Fetchers, Store(f), Moved(f),
           UNCHANGED <<stream, grant, cloud, links>>, Pc(f)' \in {"idle", "range"},
           IF f = "app" THEN call' = "none" ELSE UNCHANGED call
    PROVE  \A t \in Tenants : MapOK(t)'
<1>1. /\ f \in Threads /\ Tenant(f) \in Tenants /\ list[f] \in SUBSET Devices
      /\ deviceMap \in [Tenants -> (SUBSET Devices) \cup {NoMap}]
      /\ FetcherOK(f) /\ ListOK(f)
  BY DEF Store, Threads, Bookkeeping, ThreadOK, TypeOK, Current, Numbered
<1>2. \A r \in Regions : r \in Threads \ {f} /\ at'[r] = at[r]
  BY RegistryAssumption DEF Moved, Threads, Fetchers
<1>3. "app" \in Threads /\ "app" \notin Regions /\ (f # "app" => at'["app"] = at["app"])
  BY RegistryAssumption DEF Moved, Threads, Fetchers
<1>4. ASSUME NEW t \in Tenants PROVE MapOK(t)'
  <2>1. Removing(t)' <=> Removing(t)
    <3>1. Pc(f) = "store"
      BY DEF Store
    <3>2. QED
      BY <1>2, <1>3, <3>1 DEF Removing, Pc, Tenant
  <2>2. Relinking(t)' => Relinking(t)
    BY <1>3 DEF Relinking, Pc, Tenant
  <2>3. CASE t = Tenant(f)
    <3>1. deviceMap'[t] = list[f] /\ tenantMap'[t] = tenantMap[t]
      BY <1>1, <2>3 DEF Store, SetDevices
    <3>2. t \notin stale' => f \notin late /\ tenantMap[t] = at[f].link
      BY <2>3 DEF Store
    <3>3. at[f].link # 0
      BY <1>1 DEF FetcherOK, Store
    <3>4. t \notin stale' /\ Linked(t)' => UpToDate(list[f], t)
      BY <1>1, <2>3, <3>1, <3>2 DEF Linked, ListOK, Store
    <3>5. QED
      BY <1>1, <1>2, <3>1, <3>2, <3>3, <3>4, QuietStep DEF MapOK
  <2>4. CASE t # Tenant(f)
    <3>1. deviceMap'[t] = deviceMap[t] /\ tenantMap'[t] = tenantMap[t]
      BY <1>1, <2>4 DEF Store, SetDevices
    <3>2. t \in stale' <=> t \in stale
      BY <2>4 DEF Store
    <3>3. Relinking(t)' <=> Relinking(t)
      BY <1>3, <2>4 DEF Relinking, Pc, Tenant
    <3>4. deviceMap[t] # NoMap => deviceMap[t] \in SUBSET Devices
      BY <1>1
    <3>5. MapOK(t)
      BY DEF Current
    <3>6. QED
      BY <1>2, <2>1, <3>1, <3>2, <3>3, <3>4, <3>5, QuietStep DEF MapOK, Linked
  <2>5. QED
    BY <2>3, <2>4
<1>5. QED
  BY <1>4

LEMMA MapKept ==
    ASSUME TypeOK, Current, NEW t \in Tenants, UNCHANGED <<stream, grant, cloud, links>>,
           \A r \in Regions : at'[r] = at[r], deviceMap'[t] = deviceMap[t],
           tenantMap'[t] = tenantMap[t], t \in stale => t \in stale',
           Removing(t) => Removing(t)', Relinking(t) => Relinking(t)'
    PROVE  MapOK(t)'
<1>1. deviceMap[t] # NoMap => deviceMap[t] \in SUBSET Devices
  BY DEF TypeOK
<1>2. QED
  BY <1>1, QuietStep DEF Current, MapOK, Linked

LEMMA NumbersKept ==
    ASSUME Current, NEW f \in Fetchers, Moved(f), UNCHANGED <<grant, links>>, FetcherOK(f)',
           \A t \in Tenants : LinkOK(t)'
    PROVE  Numbered'
<1>1. ASSUME NEW g \in Fetchers \ {f} PROVE FetcherOK(g)'
  BY <1>1 DEF Current, Numbered, FetcherOK, Moved, Threads, Pc, Tenant
<1>2. QED
  BY <1>1 DEF Numbered

LEMMA CurrentApp ==
    ASSUME RInv, Current, AppNext, ~Deleted PROVE Current'
<1>0. /\ TypeOK /\ Bookkeeping /\ ThreadOK("app") /\ "app" \in Threads /\ "app" \in Fetchers
      /\ \A r \in Regions : r \in Threads \ {"app"}
      /\ FetcherOK("app") /\ ListOK("app") /\ \A t \in Tenants : LinkOK(t) /\ MapOK(t)
      /\ at \in [Threads -> Places] /\ links \in Nat
      /\ tenantMap \in [Tenants -> 0..MaxLinks] /\ grant \in [Tenants -> 0..MaxLinks]
      /\ cloud \in [Tenants -> SUBSET Devices]
  BY RegistryAssumption DEF RInv, Threads, Fetchers, Bookkeeping, TypeOK, Current, Numbered
<1> USE DEF loopVars, cloudVars, deviceVars, AppStep, Returns
<1>a. PICK t0 \in Tenants : t0 = Tenant("app")
  BY <1>0 DEF AppNext, StoreTenant, Fetched, FetchFails, TenantSet, Store, RemoveTenant,
     RemoveDevices, ThreadOK, Pc
\* Where the step takes the application's thread.
<1>1. /\ Moved("app") /\ Pc("app") # "idle" /\ t0 = Tenant("app")
      /\ \/ /\ Pc("app")' # "idle" /\ Tenant("app")' = t0
            /\ at'["app"].link = at["app"].link /\ call' = call
         \/ Pc("app")' = "idle" /\ call' = "none"
  BY <1>0, <1>a, Moves DEF AppNext, StoreTenant, Fetched, FetchFails, TenantSet, RemoveTenant,
     RemoveDevices, ThreadOK, Labels, Idle, Pc, Tenant, appVars
<1>2. /\ UNCHANGED <<stream, grant, cloud, links>> /\ list'["loop"] = list["loop"]
      /\ "loop" \in late' <=> "loop" \in late
  BY <1>0 DEF AppNext, StoreTenant, Fetched, FetchFails, TenantSet, Store, RemoveTenant,
     RemoveDevices, TypeOK, Fetchers
<1>3. \A r \in Regions : at'[r] = at[r]
  BY <1>0, <1>1 DEF Moved
<1>4. \A t \in Tenants :
        /\ t # t0 => (Removing(t)' <=> Removing(t)) /\ ~Relinking(t) /\ ~Relinking(t)'
        /\ Pc("app") # "removeDevices" /\ Removing(t) => Removing(t)'
  BY <1>1, <1>3 DEF Removing, Relinking, Pc, Tenant
<1>5. \A g \in Fetchers \ {"app"} : list'[g] = list[g] /\ (g \in late' <=> g \in late)
  BY <1>2 DEF Fetchers
<1>6. \A t \in Tenants : t # t0 /\ tenantMap'[t] = tenantMap[t] => LinkOK(t)'
  BY <1>0, <1>2, <1>4 DEF LinkOK
<1>7. CASE StoreTenant
  <2>1. /\ Pc("app") = "setTenant" /\ Pc("app")' = "fetch" /\ at'["app"].link = at["app"].link
        /\ Tenant("app")' = t0 /\ call' = call
    BY <1>0, <1>1, <1>7, Moves DEF StoreTenant, Labels, Pc, Tenant
  <2>2. /\ tenantMap'[t0] = at["app"].link
        /\ \A t \in Tenants : t # t0 => tenantMap'[t] = tenantMap[t]
        /\ UNCHANGED <<deviceMap, stale>>
    BY <1>0, <1>1, <1>7 DEF StoreTenant
  <2>3. at["app"].link # 0 /\ at["app"].link <= links /\ grant[t0] \in {0, at["app"].link}
    BY <1>0, <1>1, <2>1 DEF FetcherOK
  <2>4. FetcherOK("app")' /\ ListOK("app")'
    BY <1>2, <2>1, <2>3 DEF FetcherOK, ListOK
  <2>5. LinkOK(t0)'
    BY <1>1, <1>2, <2>2, <2>3 DEF LinkOK
  <2>6. MapOK(t0)'
    <3>1. CASE tenantMap[t0] = at["app"].link
      <4>1. Relinking(t0) => Relinking(t0)'
        BY <2>1 DEF Relinking
      <4>2. QED
        BY <1>0, <1>1, <1>2, <1>3, <1>4, <2>1, <2>2, <3>1, <4>1, MapKept
    <3>2. CASE tenantMap[t0] = 0
      BY <1>0, <1>1, <1>4, <2>1, <2>2, <2>3, <3>2 DEF MapOK, Linked
    <3>3. CASE tenantMap[t0] \notin {0, at["app"].link}
      <4>1. Linked(t0)' => Relinking(t0)'
        BY <1>0, <1>1, <1>2, <2>1, <2>2, <3>3 DEF LinkOK, Linked, Relinking
      <4>2. QED
        BY <1>0, <1>1, <1>4, <2>1, <2>2, <2>3, <3>3, <4>1 DEF MapOK
    <3>4. QED
      BY <3>1, <3>2, <3>3
  <2>7. \A t \in Tenants : MapOK(t)' /\ LinkOK(t)'
    BY <1>0, <1>2, <1>3, <1>4, <1>6, <2>2, <2>5, <2>6, MapKept
  <2>8. QED
    BY <1>0, <1>1, <1>2, <1>5, <2>4, <2>7, NumbersKept, FetcherStep
<1>8. CASE Fetched("app")
  <2>1. /\ Pc("app") = "fetch" /\ Pc("app")' = "store" /\ at'["app"].link = at["app"].link
        /\ Tenant("app")' = t0 /\ UNCHANGED <<call, tenantMap, deviceMap, stale>>
        /\ list'["app"] = cloud[t0]
    BY <1>0, <1>1, <1>8, Moves DEF Fetched, Labels, Pc, Tenant, TypeOK, appVars
  <2>2. FetcherOK("app")'
    BY <1>0, <1>2, <2>1 DEF FetcherOK
  <2>3. ListOK("app")'
    BY <1>2, <2>1 DEF ListOK, UpToDate
  <2>4. \A t \in Tenants : Relinking(t) => Relinking(t)'
    BY <1>1, <2>1 DEF Relinking
  <2>5. \A t \in Tenants : MapOK(t)' /\ LinkOK(t)'
    BY <1>0, <1>1, <1>2, <1>3, <1>4, <2>1, <2>4, MapKept DEF LinkOK
  <2>6. QED
    BY <1>0, <1>1, <1>2, <1>5, <2>2, <2>3, <2>5, NumbersKept, FetcherStep
<1>9. CASE FetchFails
  <2>1. /\ Pc("app") = "fetch" /\ UNCHANGED <<tenantMap, deviceMap>> /\ stale \subseteq stale'
        /\ IF call = "LinkTenant"
             THEN /\ Pc("app")' = "removeTenant" /\ Tenant("app")' = t0 /\ call' = call
                  /\ at'["app"].link = at["app"].link
             ELSE Pc("app")' = "idle" /\ at'["app"].link = 0
    BY <1>0, <1>1, <1>9, Moves DEF FetchFails, Labels, Pc, Tenant, Idle
  <2>2. FetcherOK("app")' /\ ListOK("app")'
    BY <1>0, <1>2, <2>1 DEF FetcherOK, ListOK
  <2>3. \A t \in Tenants : Relinking(t) => Relinking(t)'
    BY <1>1, <2>1 DEF Relinking
  <2>5. \A t \in Tenants : MapOK(t)' /\ LinkOK(t)'
    BY <1>0, <1>1, <1>2, <1>3, <1>4, <2>1, <2>3, MapKept DEF LinkOK
  <2>6. QED
    BY <1>0, <1>1, <1>2, <1>5, <2>2, <2>5, NumbersKept, FetcherStep
<1>10. CASE TenantSet
  <2>1. /\ Store("app") /\ Pc("app") = "store" /\ Pc("app")' = "idle" /\ at'["app"].link = 0
        /\ call' = "none" /\ tenantMap' = tenantMap
    BY <1>0, <1>10, Moves DEF TenantSet, Store, Pc, Idle
  <2>2. FetcherOK("app")' /\ ListOK("app")'
    BY <1>0, <1>2, <2>1 DEF FetcherOK, ListOK
  <2>3. \A t \in Tenants : LinkOK(t)'
    BY <1>0, <1>2, <2>1 DEF LinkOK
  <2>4. \A t \in Tenants : MapOK(t)'
    BY <1>0, <1>1, <1>2, <2>1, Stored
  <2>5. QED
    BY <1>0, <1>1, <1>2, <1>5, <2>2, <2>3, <2>4, NumbersKept, FetcherStep
<1>11. CASE RemoveTenant
  <2>1. /\ Pc("app") = "removeTenant" /\ Pc("app")' = "removeDevices" /\ Tenant("app")' = t0
        /\ tenantMap'[t0] = 0 /\ \A t \in Tenants : t # t0 => tenantMap'[t] = tenantMap[t]
        /\ UNCHANGED <<deviceMap, stale>> /\ at'["app"].link = at["app"].link
    BY <1>0, <1>1, <1>11, Moves DEF RemoveTenant, DeleteTenant, Labels, Pc, Tenant
  <2>2. FetcherOK("app")' /\ ListOK("app")'
    BY <1>0, <1>2, <2>1 DEF FetcherOK, ListOK
  <2>3. LinkOK(t0)' /\ MapOK(t0)'
    BY <1>0, <1>2, <2>1 DEF LinkOK, MapOK, Removing
  <2>4. \A t \in Tenants : MapOK(t)' /\ LinkOK(t)'
    BY <1>0, <1>2, <1>3, <1>4, <1>6, <2>1, <2>3, MapKept
  <2>5. QED
    BY <1>0, <1>1, <1>2, <1>5, <2>2, <2>4, NumbersKept, FetcherStep
<1>12. CASE RemoveDevices
  <2>1. /\ Pc("app") = "removeDevices" /\ Pc("app")' = "delete" /\ Tenant("app")' = t0
        /\ deviceMap'[t0] = NoMap /\ \A t \in Tenants : t # t0 => deviceMap'[t] = deviceMap[t]
        /\ UNCHANGED <<tenantMap, stale>> /\ at'["app"].link = at["app"].link
    BY <1>0, <1>1, <1>12, Moves
    DEF RemoveDevices, ForgetDevices, SetDevices, Labels, Pc, Tenant, TypeOK
  <2>2. FetcherOK("app")' /\ ListOK("app")'
    BY <1>0, <1>2, <2>1 DEF FetcherOK, ListOK
  <2>3. LinkOK(t0)' /\ MapOK(t0)'
    BY <1>0, <1>1, <1>2, <2>1 DEF LinkOK, MapOK
  <2>4. \A t \in Tenants : MapOK(t)' /\ LinkOK(t)'
    BY <1>0, <1>2, <1>3, <1>4, <1>6, <2>1, <2>3, MapKept
  <2>5. QED
    BY <1>0, <1>1, <1>2, <1>5, <2>2, <2>4, NumbersKept, FetcherStep
<1>13. QED
  BY <1>7, <1>8, <1>9, <1>10, <1>11, <1>12 DEF AppNext

LEMMA CurrentLoop ==
    ASSUME RInv, Current, LoopNext \/ Reload PROVE Current'
<1>0. /\ TypeOK /\ Bookkeeping /\ ThreadOK("loop") /\ "loop" \in Threads /\ "loop" \in Fetchers
      /\ FetcherOK("loop") /\ ListOK("loop") /\ \A t \in Tenants : LinkOK(t)
      /\ at \in [Threads -> Places] /\ links \in Nat
      /\ tenantMap \in [Tenants -> 0..MaxLinks] /\ cloud \in [Tenants -> SUBSET Devices]
      /\ \A th \in {"app"} \cup Regions : th \in Threads \ {"loop"}
  BY RegistryAssumption DEF RInv, Threads, Fetchers, Bookkeeping, TypeOK, Current, Numbered
<1> USE DEF loopVars, appVars, cloudVars, deviceVars
<1>1. /\ UNCHANGED <<stream, grant, cloud, links, tenantMap, call>>
      /\ list'["app"] = list["app"] /\ ("app" \in late' <=> "app" \in late)
  BY <1>0 DEF LoopNext, Reload, Fetched, RangeEnds, ListReloaded, Store, RangeNext, TypeOK,
     Fetchers
<1>2. \A g \in Fetchers \ {"loop"} : list'[g] = list[g] /\ (g \in late' <=> g \in late)
  BY <1>1 DEF Fetchers
\* It is enough to look at the loop itself, and at what it stores.
<1>3. ASSUME Moved("loop"), FetcherOK("loop")', ListOK("loop")',
             UNCHANGED <<deviceMap, stale>> \/ \A t \in Tenants : MapOK(t)'
      PROVE  Current'
  <2>1. \A th \in {"app"} \cup Regions : at'[th] = at[th]
    BY <1>0, <1>3 DEF Moved
  <2>2. \A t \in Tenants : LinkOK(t)'
    BY <1>0, <1>1, <2>1 DEF LinkOK, Relinking, Pc, Tenant
  <2>3. \A t \in Tenants : MapOK(t)'
    BY <1>0, <1>1, <1>3, <2>1, MapsQuiet
  <2>4. QED
    BY <1>0, <1>1, <1>2, <1>3, <2>2, <2>3, NumbersKept, FetcherStep
<1>4. CASE Fetched("loop")
  <2>1. /\ Moved("loop") /\ Pc("loop") = "fetch" /\ Pc("loop")' = "store"
        /\ at'["loop"].link = at["loop"].link /\ Tenant("loop")' = Tenant("loop")
        /\ UNCHANGED <<deviceMap, stale>> /\ list'["loop"] = cloud[Tenant("loop")]
    BY <1>0, <1>4, Moves DEF Fetched, Labels, Pc, Tenant, TypeOK
  <2>2. FetcherOK("loop")' /\ ListOK("loop")'
    BY <1>0, <1>1, <2>1 DEF FetcherOK, ListOK, UpToDate
  <2>3. QED
    BY <1>3, <2>1, <2>2
<1>5. CASE RangeEnds \/ Reload
  <2>1. /\ Moved("loop") /\ Pc("loop")' \in {"idle", "range"} /\ at'["loop"].link <= links
        /\ UNCHANGED <<deviceMap, stale>>
    BY <1>0, <1>5, Moves DEF RangeEnds, Reload, Labels, Pc, Idle, FetcherOK
  <2>2. FetcherOK("loop")' /\ ListOK("loop")'
    BY <1>1, <2>1 DEF FetcherOK, ListOK
  <2>3. QED
    BY <1>3, <2>1, <2>2
<1>6. CASE ListReloaded
  <2>1. /\ Store("loop") /\ Moved("loop") /\ Pc("loop")' = "range"
        /\ at'["loop"].link = at["loop"].link
    BY <1>0, <1>6, Moves DEF ListReloaded, Labels, Pc
  <2>2. FetcherOK("loop")' /\ ListOK("loop")'
    BY <1>0, <1>1, <2>1 DEF FetcherOK, ListOK
  <2>3. \A t \in Tenants : MapOK(t)'
    BY <1>0, <1>1, <2>1, Stored DEF RInv
  <2>4. QED
    BY <1>3, <2>1, <2>2, <2>3
<1>7. CASE \E t \in Tenants : RangeNext(t)
  <2>1. PICK t \in Tenants : RangeNext(t)
    BY <1>7
  <2>2. tenantMap[t] \in 0..MaxLinks /\ tenantMap[t] <= links /\ <<>> \in Messages \cup {<<>>}
    BY <1>0 DEF LinkOK
  <2>3. CASE tenantMap[t] # 0 /\ Begin("loop", "fetch", t, tenantMap[t], <<>>)
    <3>1. Moved("loop") /\ Pc("loop")' = "fetch" /\ at'["loop"].link = tenantMap[t]
      BY <1>0, <2>2, <2>3, Moves DEF Labels, Pc
    <3>2. FetcherOK("loop")' /\ ListOK("loop")'
      BY <1>1, <2>2, <2>3, <3>1 DEF FetcherOK, ListOK
    <3>3. QED
      BY <1>3, <2>1, <3>1, <3>2 DEF RangeNext
  <2>4. CASE UNCHANGED at
    <3>1. Moved("loop") /\ Pc("loop") = "range" /\ at' = at
      BY <1>0, <2>1, <2>4 DEF RangeNext, Moved
    <3>2. FetcherOK("loop")' /\ ListOK("loop")'
      BY <1>0, <1>1, <3>1 DEF FetcherOK, ListOK, Pc
    <3>3. QED
      BY <1>3, <2>1, <3>1, <3>2 DEF RangeNext
  <2>5. CASE Leave("loop")
    <3>1. Moved("loop") /\ Pc("loop")' = "idle" /\ at'["loop"].link = 0
      BY <1>0, <2>5, Moves DEF Pc, Idle
    <3>2. FetcherOK("loop")' /\ ListOK("loop")'
      BY <1>0, <1>1, <3>1 DEF FetcherOK, ListOK
    <3>3. QED
      BY <1>3, <2>1, <3>1, <3>2 DEF RangeNext
  <2>6. QED
    BY <2>1, <2>3, <2>4, <2>5 DEF RangeNext
<1>8. QED
  BY <1>4, <1>5, <1>6, <1>7 DEF LoopNext

\* A message that is sent comes after those that are under way.
LEMMA Appended ==
    ASSUME stream \in [Regions -> Seq(Messages)], NEW q \in Regions, NEW m \in Messages, Send(q, m)
    PROVE  /\ \A r \in Regions :
                /\ Len(stream[r]) \in Nat
                /\ Len(stream'[r]) = IF r = q THEN Len(stream[r]) + 1 ELSE Len(stream[r])
                /\ \A i \in 1..Len(stream[r]) : stream'[r][i] = stream[r][i]
           /\ stream'[q][Len(stream[q]) + 1] = m
  BY DEF Send

LEMMA TypesOfMessages ==
    ASSUME TypeOK, Bookkeeping, NEW r \in Regions
    PROVE  /\ \A i \in 1..Len(stream[r]) : stream[r][i] \in Messages
           /\ Pc(r) # "idle" => Msg(r) \in Messages
           /\ Len(stream[r]) \in Nat
<1>1. stream[r] \in Seq(Messages)
  BY DEF TypeOK
<1>2. Pc(r) # "idle" => Msg(r) \in Messages
  BY DEF Bookkeeping, ThreadOK, Threads
<1>3. QED
  BY <1>1, <1>2

\* A stream is in order if each of its messages is.
LEMMA Ordered ==
    ASSUME NEW r \in Regions,
           \A m \in Messages :
               /\ \A k \in 1..Len(stream'[r]) : m = stream'[r][k] => Explained(m, r, k)'
               /\ Pc(r)' # "idle" /\ m = Msg(r)' => Explained(m, r, 0)',
           \A k \in 1..Len(stream'[r]) : stream'[r][k] \in Messages,
           Pc(r)' # "idle" => Msg(r)' \in Messages
    PROVE  InOrder(r)'
<1>1. ASSUME NEW k \in 1..Len(stream'[r]) PROVE Explained(stream[r][k], r, k)'
  <2>1. PICK m \in Messages : m = stream'[r][k]
    OBVIOUS
  <2>2. Explained(m, r, k)'
    BY <2>1
  <2>3. QED
    BY <2>1, <2>2 DEF Explained, AtHome, About, Agrees
<1>2. ASSUME Pc(r)' # "idle" PROVE Explained(Msg(r), r, 0)'
  <2>1. PICK m \in Messages : m = Msg(r)'
    BY <1>2
  <2>2. Explained(m, r, 0)'
    BY <1>2, <2>1
  <2>3. QED
    BY <2>1, <2>2 DEF Explained, AtHome, About, Agrees
<1>3. QED
  BY <1>1, <1>2 DEF InOrder

\* The link of t ends, or a new one begins: no message under way is about it.
LEMMA LinkMoves ==
    ASSUME TypeOK, TypeOK', Bookkeeping, Current, NEW t \in Tenants, NEW n \in Nat,
           n = 0 \/ n = links + 1, grant' = [grant EXCEPT ![t] = n], cloud' = cloud,
           links <= links', \A r \in Regions : at'[r] = at[r],
           \A r \in Regions :
               /\ Len(stream[r]) <= Len(stream'[r])
               /\ \A i \in 1..Len(stream[r]) : stream'[r][i] = stream[r][i]
               /\ \A i \in Len(stream[r]) + 1..Len(stream'[r]) :
                    stream'[r][i].type = "app:disconnect" /\ stream'[r][i].link <= links
    PROVE  /\ \A r \in Regions : InOrder(r)'
           /\ \A u \in Tenants \ {t}, S \in SUBSET Devices : UpToDate(S, u) => UpToDate(S, u)'
<1>0. /\ links \in Nat /\ links' \in Nat
      /\ \A r \in Regions : Len(stream[r]) \in Nat /\ Len(stream'[r]) \in Nat
      /\ \A r \in Regions : stream'[r] \in Seq(Messages)
  BY DEF TypeOK
<1>1. \A m, d : \A u \in Tenants \ {t} : /\ About(m, u, d)' <=> About(m, u, d)
                                         /\ ChangeOf(m, u, d)' <=> ChangeOf(m, u, d)
  BY DEF About, ChangeOf
<1>2. \A m, u, d : Agrees(m, u, d)' <=> Agrees(m, u, d)
  BY DEF Agrees
<1>3. \A m \in Messages : \A d : m.link <= links => ~About(m, t, d)'
  BY <1>0, MessageFields DEF TypeOK, About
<1>4. ASSUME NEW r \in Regions, NEW u \in Tenants \ {t}, NEW d \in Devices
      PROVE  /\ \A k \in Nat : Followed(r, k, u, d) => Followed(r, k, u, d)'
             /\ Coming(r, u, d) => Coming(r, u, d)'
             /\ InHand(r, u, d)' <=> InHand(r, u, d)
  <2>1. \A k \in Nat : \A j \in k + 1..Len(stream[r]) :
          j \in k + 1..Len(stream'[r]) /\ stream'[r][j] = stream[r][j]
    BY <1>0
  <2>2. \A k \in Nat : Followed(r, k, u, d) => Followed(r, k, u, d)'
    BY <1>1, <2>1 DEF Followed, ChangeOf, About
  <2>3. QED
    BY <1>1, <2>2 DEF Coming, InHand, Pc, Msg, Type
<1>5. ASSUME NEW r \in Regions PROVE InOrder(r)'
  <2>1. InOrder(r)
    BY DEF Current
  <2>2. ASSUME NEW m \in Messages, NEW k \in Nat, Explained(m, r, k) PROVE Explained(m, r, k)'
    <3>1. m.link \in Nat
      BY MessageFields
    <3>2. QED
      BY <1>0, <1>1, <1>2, <1>3, <1>4, <2>2, <3>1 DEF Explained, AtHome
  <2>3. ASSUME NEW m \in Messages, NEW k \in 1..Len(stream'[r]), m = stream'[r][k]
        PROVE  Explained(m, r, k)'
    <3>1. CASE k \in 1..Len(stream[r])
      BY <2>1, <2>2, <2>3, <3>1 DEF InOrder
    <3>2. CASE k \notin 1..Len(stream[r])
      <4>1. m.type = "app:disconnect" /\ m.link <= links /\ m.link \in Nat
        BY <1>0, <2>3, <3>2, MessageFields
      <4>2. QED
        BY <1>0, <4>1 DEF Explained, AtHome, About
    <3>3. QED
      BY <3>1, <3>2
  <2>4. /\ Pc(r)' = Pc(r) /\ Msg(r)' = Msg(r) /\ (Pc(r) # "idle" => Msg(r) \in Messages)
    BY TypesOfMessages DEF Pc, Msg
  <2>5. ASSUME NEW m \in Messages, Pc(r)' # "idle", m = Msg(r)' PROVE Explained(m, r, 0)'
    BY <2>1, <2>2, <2>4, <2>5 DEF InOrder
  <2>6. QED
    BY <1>0, <2>3, <2>4, <2>5, Ordered
<1>6. QED
  BY <1>4, <1>5 DEF UpToDate, Pending

\* The link of a tenant ends.
LEMMA LinkGone ==
    ASSUME RInv, RInv', Current, NEW t \in Tenants, NEW b \in BOOLEAN, EndLink(t, b),
           UNCHANGED <<cloud, links, tenantMap, deviceVars, list>>,
           \A th \in Threads \ {"app"} : at'[th] = at[th],
           \/ at'["app"] = at["app"] /\ call' = call
           \/ Pc("app") = "delete" /\ at'["app"] = Idle
    PROVE  Current'
<1> USE DEF deviceVars
<1>0. /\ TypeOK /\ TypeOK' /\ Bookkeeping /\ Granted /\ "app" \in Threads
      /\ grant \in [Tenants -> 0..MaxLinks] /\ links \in 1..MaxLinks /\ MaxLinks \in Nat
      /\ \A r \in Regions : r \in Threads \ {"app"} /\ at'[r] = at[r]
      /\ stream \in [Regions -> Seq(Messages)]
  BY RegistryAssumption DEF RInv, Unlinked, Threads, Fetchers, TypeOK
<1>1. grant[t] # 0 /\ grant' = [grant EXCEPT ![t] = 0] /\ grant[t] <= links
  BY <1>0 DEF EndLink, Granted
<1>2. PICK q \in Regions : Send(q, [type |-> "app:disconnect", tenant |-> t,
                                    link |-> grant[t], byApp |-> b])
  BY DEF EndLink
<1>3. PICK m \in Messages : m = [type |-> "app:disconnect", tenant |-> t,
                                 link |-> grant[t], byApp |-> b]
  <2>1. grant[t] \in 1..MaxLinks
    BY <1>0, <1>1
  <2>2. QED
    BY <2>1, MessagesMade
<1>4. Send(q, m) /\ m.type = "app:disconnect" /\ m.link <= links
  BY <1>1, <1>2, <1>3
<1>5. \A r \in Regions :
        /\ Len(stream[r]) <= Len(stream'[r])
        /\ \A i \in 1..Len(stream[r]) : stream'[r][i] = stream[r][i]
        /\ \A i \in Len(stream[r]) + 1..Len(stream'[r]) :
             stream'[r][i].type = "app:disconnect" /\ stream'[r][i].link <= links
  BY <1>0, <1>4, Appended
<1>6. /\ \A r \in Regions : InOrder(r)'
      /\ \A u \in Tenants \ {t}, S \in SUBSET Devices : UpToDate(S, u) => UpToDate(S, u)'
  <2>1. 0 \in Nat /\ links <= links' /\ cloud' = cloud
    BY <1>0
  <2>2. QED
    BY <1>0, <1>1, <1>5, <2>1, LinkMoves
<1>7. /\ \A u \in Tenants : /\ Removing(u)' <=> Removing(u)
                            /\ Relinking(u)' <=> Relinking(u)
      /\ \A f \in Fetchers : at'[f] = at[f] \/ at'[f] = Idle
  <2>1. \/ at'["app"] = at["app"] /\ call' = call
        \/ /\ at["app"].pc = "delete" /\ at'["app"].pc = "idle" /\ at'["app"] = Idle
    BY DEF Pc, Idle
  <2>2. ASSUME NEW u \in Tenants PROVE Removing(u)' <=> Removing(u)
    BY <1>0, <2>1 DEF Removing, Pc, Tenant
  <2>3. ASSUME NEW u \in Tenants PROVE Relinking(u)' <=> Relinking(u)
    BY <2>1 DEF Relinking, Pc, Tenant
  <2>4. ASSUME NEW f \in Fetchers PROVE at'[f] = at[f] \/ at'[f] = Idle
    BY <2>1 DEF Threads, Fetchers
  <2>5. QED
    BY <2>2, <2>3, <2>4
<1>8. Numbered'
  <2>1. ASSUME NEW u \in Tenants PROVE LinkOK(u)'
    <3>1. grant'[u] = grant[u] \/ grant'[u] = 0
      BY <1>0, <1>1
    <3>2. LinkOK(u)
      BY DEF Current, Numbered
    <3>3. Relinking(u) /\ Pc("app") = "setTenant" => Pc("app")' = "setTenant"
      BY DEF Pc
    <3>4. QED
      BY <1>7, <3>1, <3>2, <3>3 DEF LinkOK
  <2>2. ASSUME NEW f \in Fetchers PROVE FetcherOK(f)'
    <3>1. FetcherOK(f) /\ ThreadOK(f)
      BY <1>0 DEF Current, Numbered, Bookkeeping, Threads
    <3>2. CASE at'[f] = at[f]
      BY <1>0, <1>1, <3>1, <3>2 DEF FetcherOK, Pc, Tenant, ThreadOK
    <3>3. CASE at'[f] = Idle
      BY <1>0, <3>3 DEF FetcherOK, Pc, Idle
    <3>4. QED
      BY <1>7, <3>2, <3>3
  <2>3. QED
    BY <2>1, <2>2 DEF Numbered
<1>9. ASSUME NEW f \in Fetchers PROVE ListOK(f)'
  <2>1. CASE Pc(f)' = "store"
    <3>1. at'[f] = at[f] /\ Pc(f) = "store"
      BY <1>7, <2>1 DEF Idle, Pc
    <3>2. /\ Tenant(f) \in Tenants /\ at[f].link # 0 /\ list[f] \in SUBSET Devices
          /\ ListOK(f)
      BY <1>0, <3>1 DEF Current, Numbered, FetcherOK, Bookkeeping, ThreadOK, Threads, TypeOK
    <3>3. CASE Tenant(f) = t
      BY <1>0, <1>1, <3>1, <3>2, <3>3 DEF ListOK, Tenant
    <3>4. CASE Tenant(f) # t
      BY <1>0, <1>1, <1>6, <3>1, <3>2, <3>4 DEF ListOK, Tenant, Pc
    <3>5. QED
      BY <3>3, <3>4
  <2>2. QED
    BY <2>1 DEF ListOK
<1>10. ASSUME NEW u \in Tenants PROVE MapOK(u)'
  <2>1. MapOK(u) /\ (deviceMap[u] # NoMap => deviceMap[u] \in SUBSET Devices)
    BY <1>0 DEF Current, TypeOK
  <2>2. CASE u = t
    BY <1>0, <1>1, <1>7, <2>1, <2>2 DEF MapOK, Linked
  <2>3. CASE u # t
    <3>1. Linked(u)' <=> Linked(u)
      BY <1>0, <1>1, <2>3 DEF Linked
    <3>2. QED
      BY <1>6, <1>7, <2>1, <2>3, <3>1 DEF MapOK
  <2>4. QED
    BY <2>2, <2>3
<1>11. QED
  BY <1>6, <1>8, <1>9, <1>10 DEF Current

LEMMA CurrentDeleted ==
    ASSUME RInv, RInv', Current, Deleted PROVE Current'
<1> USE DEF loopVars, deviceVars
<1>0. /\ TypeOK /\ Bookkeeping /\ "app" \in Threads /\ "app" \in Fetchers
      /\ at \in [Threads -> Places] /\ Pc("app") = "delete" /\ Tenant("app") \in Tenants
      /\ \A r \in Regions : r \in Threads \ {"app"}
  BY RegistryAssumption
  DEF RInv, Threads, Fetchers, TypeOK, Bookkeeping, ThreadOK, Deleted, AppStep
<1>1. /\ Moved("app") /\ at'["app"] = Idle
      /\ UNCHANGED <<cloud, links, tenantMap, deviceVars, list>>
      /\ \/ EndLink(Tenant("app"), TRUE)
         \/ UNCHANGED <<grant, stream>>
  BY <1>0, Moves DEF Deleted, AppStep
<1>2. CASE EndLink(Tenant("app"), TRUE)
  <2>1. PICK t \in Tenants : t = Tenant("app")
    BY <1>0
  <2>2. \A th \in Threads \ {"app"} : at'[th] = at[th]
    BY <1>1 DEF Moved
  <2>3. QED
    BY <1>0, <1>1, <1>2, <2>1, <2>2, LinkGone
<1>3. CASE UNCHANGED <<grant, stream>>
  <2>1. \A r \in Regions : at'[r] = at[r]
    BY <1>0, <1>1 DEF Moved
  <2>2. Pc("app")' = "idle" /\ at'["app"].link = 0
    BY <1>1 DEF Pc, Idle
  <2>3. \A t \in Tenants : (Removing(t)' <=> Removing(t)) /\ ~Relinking(t) /\ ~Relinking(t)'
    BY <1>0, <2>1, <2>2 DEF Removing, Relinking, Pc, Tenant
  <2>4. Numbered'
    <3>1. \A t \in Tenants : LinkOK(t)'
      BY <1>0, <1>1, <1>3, <2>3 DEF Current, Numbered, LinkOK
    <3>2. FetcherOK("app")'
      BY <1>1, <2>2 DEF FetcherOK, RInv, TypeOK
    <3>3. QED
      BY <1>0, <1>1, <1>3, <3>1, <3>2, NumbersKept
  <2>5. \A t \in Tenants : MapOK(t)'
    BY <1>0, <1>1, <1>3, <2>1, <2>3, MapKept
  <2>6. ListOK("app")'
    BY <2>2 DEF ListOK
  <2>7. QED
    BY <1>0, <1>1, <1>3, <2>4, <2>5, <2>6, FetcherStep
<1>4. QED
  BY <1>1, <1>2, <1>3

\* The application takes up a tenant, with the link it has or none at all.
LEMMA CurrentCall ==
    ASSUME RInv, RInv', Current, NEW t \in Tenants, SetTenant(t) \/ UnlinkTenant(t) PROVE Current'
<1> USE DEF loopVars, deviceVars, Call
<1>0. /\ TypeOK /\ Bookkeeping /\ Granted /\ "app" \in Threads /\ "app" \in Fetchers
      /\ at \in [Threads -> Places] /\ links \in 1..MaxLinks /\ MaxLinks \in Nat
      /\ grant \in [Tenants -> 0..MaxLinks] /\ tenantMap \in [Tenants -> 0..MaxLinks]
      /\ \A r \in Regions : r \in Threads \ {"app"}
  BY RegistryAssumption DEF RInv, Unlinked, Threads, Fetchers, TypeOK
<1>1. /\ Pc("app") = "idle"
      /\ UNCHANGED <<grant, links, cloud, stream, tenantMap, deviceVars, list>>
      /\ call' # "LinkTenant"
      /\ \/ Begin("app", "setTenant", t, grant[t], <<>>) /\ grant[t] # 0
         \/ Begin("app", "removeTenant", t, tenantMap[t], <<>>)
  BY DEF SetTenant, UnlinkTenant
<1>2. /\ Moved("app") /\ Tenant("app")' = t
      /\ \/ Pc("app")' = "setTenant" /\ grant[t] # 0 /\ at'["app"].link = grant[t]
         \/ Pc("app")' = "removeTenant" /\ at'["app"].link = tenantMap[t]
  <2>1. grant[t] \in 0..MaxLinks /\ tenantMap[t] \in 0..MaxLinks
    BY <1>0
  <2>2. QED
    BY <1>0, <1>1, <2>1, Moves DEF Labels, Pc, Tenant
<1>3. \A r \in Regions : at'[r] = at[r]
  BY <1>0, <1>2 DEF Moved
<1>4. \A u \in Tenants : (Removing(u)' <=> Removing(u)) /\ ~Relinking(u) /\ ~Relinking(u)'
  BY <1>1, <1>2, <1>3 DEF Removing, Relinking, Pc, Tenant
<1>5. Numbered'
  <2>1. \A u \in Tenants : LinkOK(u)'
    BY <1>1, <1>4 DEF Current, Numbered, LinkOK
  <2>2. FetcherOK("app")'
    BY <1>0, <1>1, <1>2 DEF FetcherOK, Granted, Current, Numbered, LinkOK
  <2>3. QED
    BY <1>0, <1>1, <1>2, <2>1, <2>2, NumbersKept
<1>6. \A u \in Tenants : MapOK(u)'
  BY <1>0, <1>1, <1>3, <1>4, MapKept
<1>7. ListOK("app")'
  BY <1>2 DEF ListOK
<1>8. QED
  BY <1>0, <1>1, <1>2, <1>5, <1>6, <1>7, FetcherStep

LEMMA CurrentLink ==
    ASSUME RInv, RInv', Current, NEW t \in Tenants, LinkTenant(t) PROVE Current'
<1> USE DEF loopVars, deviceVars, Call
<1>0. /\ TypeOK /\ TypeOK' /\ Bookkeeping /\ Granted /\ "app" \in Threads /\ "app" \in Fetchers
      /\ at \in [Threads -> Places] /\ links \in 1..MaxLinks /\ MaxLinks \in Nat
      /\ links + 1 \in 0..MaxLinks
      /\ grant \in [Tenants -> 0..MaxLinks] /\ tenantMap \in [Tenants -> 0..MaxLinks]
      /\ \A r \in Regions : r \in Threads \ {"app"}
  BY RegistryAssumption DEF RInv, Unlinked, Threads, Fetchers, TypeOK, LinkTenant
<1>1. /\ Pc("app") = "idle" /\ UNCHANGED <<cloud, stream, tenantMap, deviceVars, list>>
      /\ call' = "LinkTenant" /\ grant[t] = 0 /\ links' = links + 1
      /\ grant' = [grant EXCEPT ![t] = links + 1]
      /\ Begin("app", "setTenant", t, links + 1, <<>>)
  BY DEF LinkTenant
<1>2. /\ Moved("app") /\ Tenant("app")' = t
      /\ Pc("app")' = "setTenant" /\ at'["app"].link = links + 1
  BY <1>0, <1>1, Moves DEF Labels, Pc, Tenant
<1>3. \A r \in Regions : at'[r] = at[r]
  BY <1>0, <1>2 DEF Moved
<1>4. /\ \A u \in Tenants : Removing(u)' <=> Removing(u)
      /\ \A u \in Tenants : ~Relinking(u) /\ (Relinking(u)' <=> u = t)
  BY <1>1, <1>2, <1>3 DEF Removing, Relinking, Pc, Tenant
<1>5. /\ \A r \in Regions : InOrder(r)'
      /\ \A u \in Tenants \ {t}, S \in SUBSET Devices : UpToDate(S, u) => UpToDate(S, u)'
  <2>1. \A r \in Regions : Len(stream[r]) \in Nat
    BY <1>0 DEF TypeOK
  <2>2. \A r \in Regions :
          /\ Len(stream[r]) <= Len(stream'[r])
          /\ \A i \in 1..Len(stream[r]) : stream'[r][i] = stream[r][i]
          /\ \A i \in Len(stream[r]) + 1..Len(stream'[r]) :
               stream'[r][i].type = "app:disconnect" /\ stream'[r][i].link <= links
    BY <1>1, <2>1
  <2>3. links + 1 \in Nat /\ links <= links' /\ cloud' = cloud
    BY <1>0, <1>1
  <2>4. QED
    BY <1>0, <1>1, <1>3, <2>2, <2>3, LinkMoves
<1>6. Numbered'
  <2>1. ASSUME NEW u \in Tenants PROVE LinkOK(u)'
    <3>1. LinkOK(u) /\ tenantMap[u] \in Nat
      BY <1>0 DEF Current, Numbered
    <3>2. CASE u = t
      BY <1>0, <1>1, <1>2, <1>4, <3>1, <3>2 DEF LinkOK
    <3>3. CASE u # t
      BY <1>0, <1>1, <1>4, <3>1, <3>3 DEF LinkOK
    <3>4. QED
      BY <3>2, <3>3
  <2>2. ASSUME NEW f \in Fetchers PROVE FetcherOK(f)'
    <3>1. CASE f = "app"
      BY <1>0, <1>1, <1>2, <3>1 DEF FetcherOK
    <3>2. CASE f # "app"
      <4>1. at'[f] = at[f] /\ FetcherOK(f) /\ at[f].link \in Nat /\ ThreadOK(f) /\ f = "loop"
        BY <1>0, <1>2, <3>2, RegistryAssumption
        DEF Moved, Threads, Fetchers, Current, Numbered, Bookkeeping, Places
      <4>2. Pc(f) # "setTenant"
        BY <4>1 DEF ThreadOK
      <4>3. QED
        BY <1>0, <1>1, <4>1, <4>2 DEF FetcherOK, Pc
    <3>3. QED
      BY <3>1, <3>2
  <2>3. QED
    BY <2>1, <2>2 DEF Numbered
<1>7. ASSUME NEW f \in Fetchers PROVE ListOK(f)'
  <2>1. CASE f = "app"
    BY <1>2, <2>1 DEF ListOK
  <2>2. CASE f # "app"
    <3>1. /\ at'[f] = at[f] /\ FetcherOK(f) /\ ListOK(f) /\ ThreadOK(f) /\ at[f].link \in Nat
          /\ list[f] \in SUBSET Devices
      BY <1>0, <1>2, <2>2 DEF Moved, Threads, Current, Numbered, Bookkeeping, Places, TypeOK
    <3>2. CASE Pc(f) = "store"
      <4>1. Tenant(f) \in Tenants
        BY <3>1, <3>2 DEF ThreadOK
      <4>2. CASE Tenant(f) = t
        BY <1>0, <1>1, <3>1, <4>2 DEF ListOK, FetcherOK, Tenant
      <4>3. CASE Tenant(f) # t
        BY <1>0, <1>1, <1>5, <3>1, <4>1, <4>3 DEF ListOK, Tenant, Pc
      <4>4. QED
        BY <4>2, <4>3
    <3>3. CASE Pc(f) # "store"
      BY <3>1, <3>3 DEF ListOK, Pc
    <3>4. QED
      BY <3>2, <3>3
  <2>3. QED
    BY <2>1, <2>2
<1>8. ASSUME NEW u \in Tenants PROVE MapOK(u)'
  <2>1. MapOK(u) /\ (deviceMap[u] # NoMap => deviceMap[u] \in SUBSET Devices)
    BY <1>0 DEF Current, TypeOK
  <2>2. CASE u = t
    BY <1>1, <1>4, <2>1, <2>2 DEF MapOK
  <2>3. CASE u # t
    <3>1. Linked(u)' <=> Linked(u)
      BY <1>0, <1>1, <2>3 DEF Linked
    <3>2. QED
      BY <1>1, <1>4, <1>5, <2>1, <2>3, <3>1 DEF MapOK
  <2>4. QED
    BY <2>2, <2>3
<1>9. QED
  BY <1>5, <1>6, <1>7, <1>8 DEF Current

\* A step of the cloud that neither begins nor ends a link.
LEMMA CloudMoves ==
    ASSUME RInv, Current,
           UNCHANGED <<tenantMap, deviceMap, late, stale, at, list, call, grant, links>>,
           \A r \in Regions : InOrder(r)',
           \A t \in Tenants, S \in SUBSET Devices :
               grant[t] # 0 /\ UpToDate(S, t) => UpToDate(S, t)'
    PROVE  Current'
<1>0. TypeOK /\ Bookkeeping
  BY DEF RInv
<1>1. \A t \in Tenants : /\ Removing(t)' <=> Removing(t)
                         /\ Relinking(t)' <=> Relinking(t)
                         /\ Linked(t)' <=> Linked(t)
  BY DEF Removing, Relinking, Linked, Pc, Tenant
<1>2. Numbered'
  BY <1>1 DEF Current, Numbered, LinkOK, FetcherOK, Pc, Tenant
<1>3. ASSUME NEW f \in Fetchers PROVE ListOK(f)'
  <2>1. CASE Pc(f) = "store"
    <3>1. /\ Tenant(f) \in Tenants /\ at[f].link # 0 /\ list[f] \in SUBSET Devices /\ ListOK(f)
      BY <1>0, <2>1 DEF Current, Numbered, FetcherOK, Bookkeeping, ThreadOK, Threads, TypeOK
    <3>2. QED
      BY <2>1, <3>1 DEF ListOK, Pc, Tenant
  <2>2. CASE Pc(f) # "store"
    BY <2>2 DEF ListOK, Pc
  <2>3. QED
    BY <2>1, <2>2
<1>4. ASSUME NEW t \in Tenants PROVE MapOK(t)'
  <2>1. MapOK(t) /\ (deviceMap[t] # NoMap => deviceMap[t] \in SUBSET Devices)
    BY <1>0 DEF Current, TypeOK
  <2>2. Linked(t) => grant[t] # 0
    BY DEF Linked
  <2>3. QED
    BY <1>1, <2>1, <2>2 DEF MapOK
<1>5. QED
  BY <1>2, <1>3, <1>4 DEF Current

\* A change that the app is not told of.
LEMMA CurrentUnheard ==
    ASSUME RInv, RInv', Current, NEW t \in Tenants, NEW d \in Devices, Change(t, d), grant[t] = 0
    PROVE  Current'
<1>0. /\ TypeOK /\ Bookkeeping /\ cloud \in [Tenants -> SUBSET Devices]
      /\ UNCHANGED <<tenantMap, deviceMap, late, stale, at, list, call, grant, links, stream>>
      /\ \A u \in Tenants : u # t => cloud'[u] = cloud[u]
  BY DEF RInv, TypeOK, Change, CloudStep, deviceVars, appVars
<1>1. \A m \in Messages, e \in Devices : ~About(m, t, e)
  BY MessageFields DEF About
<1>2. /\ \A m, u, e : About(m, u, e)' <=> About(m, u, e)
      /\ \A m, u, e : ChangeOf(m, u, e)' <=> ChangeOf(m, u, e)
      /\ \A m, e : \A u \in Tenants : u # t => (Agrees(m, u, e)' <=> Agrees(m, u, e))
  BY <1>0 DEF About, ChangeOf, Agrees
<1>3. \A r, k, u, e : Followed(r, k, u, e)' <=> Followed(r, k, u, e)
  BY <1>0, <1>2 DEF Followed
<1>4. \A u, e : Pending(u, e)' <=> Pending(u, e)
  BY <1>0, <1>2, <1>3 DEF Pending, Coming, InHand, Pc, Msg, Type
<1>5. ASSUME NEW r \in Regions PROVE InOrder(r)'
  <2>1. InOrder(r) /\ stream'[r] = stream[r] /\ at'[r] = at[r]
    BY <1>0 DEF Current
  <2>2. ASSUME NEW m \in Messages, NEW k, Explained(m, r, k) PROVE Explained(m, r, k)'
    BY <1>0, <1>1, <1>2, <1>3, <2>2 DEF Explained, AtHome
  <2>3. QED
    BY <1>0, <2>1, <2>2, TypesOfMessages, Ordered DEF InOrder, Pc, Msg
<1>6. \A u \in Tenants, S \in SUBSET Devices : grant[u] # 0 /\ UpToDate(S, u) => UpToDate(S, u)'
  BY <1>0, <1>4 DEF UpToDate
<1>7. QED
  BY <1>0, <1>5, <1>6, CloudMoves

\* A message about d is sent, and it tells what the cloud has.
LEMMA CurrentHeard ==
    ASSUME RInv, RInv', Current, NEW t \in Tenants, NEW d \in Devices,
           Change(t, d) \/ DeviceSends(t, d), grant[t] # 0
    PROVE  Current'
<1>0. /\ TypeOK /\ Bookkeeping /\ Granted /\ cloud \in [Tenants -> SUBSET Devices]
      /\ stream \in [Regions -> Seq(Messages)] /\ Home[d] \in Regions
      /\ grant[t] \in 1..MaxLinks
      /\ UNCHANGED <<tenantMap, deviceMap, late, stale, at, list, call, grant, links>>
      /\ \A u \in Tenants, e \in Devices :
           u # t \/ e # d \/ UNCHANGED cloud => (e \in cloud'[u] <=> e \in cloud[u])
  BY RegistryAssumption
  DEF RInv, Unlinked, TypeOK, Change, DeviceSends, CloudStep, deviceVars, appVars
<1>1. PICK y \in {"device:activate", "device:deactivate", "data"} :
        /\ Send(Home[d], DeviceMessage(y, t, d))
        /\ y # "device:deactivate" <=> d \in cloud'[t]
        /\ y = "data" => UNCHANGED cloud
  BY <1>0 DEF Change, DeviceSends
<1>2. PICK m0 \in Messages : m0 = DeviceMessage(y, t, d)
  BY <1>0, MessagesMade DEF DeviceMessage
<1>3. /\ Send(Home[d], m0) /\ m0.type = y /\ m0.tenant = t /\ m0.device = d
      /\ m0.link = grant[t] /\ m0.type # "app:disconnect"
  BY <1>1, <1>2 DEF DeviceMessage
<1>4. /\ \A r \in Regions :
           /\ Len(stream[r]) \in Nat
           /\ Len(stream'[r]) = IF r = Home[d] THEN Len(stream[r]) + 1 ELSE Len(stream[r])
           /\ \A i \in 1..Len(stream[r]) : stream'[r][i] = stream[r][i]
      /\ stream'[Home[d]][Len(stream[Home[d]]) + 1] = m0
  BY <1>0, <1>3, Appended
<1>5. /\ \A m, u, e : About(m, u, e)' <=> About(m, u, e)
      /\ \A m, u, e : ChangeOf(m, u, e)' <=> ChangeOf(m, u, e)
      /\ \A m : \A u \in Tenants, e \in Devices :
           u # t \/ e # d \/ UNCHANGED cloud => (Agrees(m, u, e)' <=> Agrees(m, u, e))
  BY <1>0 DEF About, ChangeOf, Agrees
\* What was followed still is, and a change of d follows every message about it.
<1>6. \A r \in Regions, k \in Nat : \A u, e : Followed(r, k, u, e) => Followed(r, k, u, e)'
  <2>1. \A r \in Regions, k \in Nat : \A j \in k + 1..Len(stream[r]) :
          j \in k + 1..Len(stream'[r]) /\ stream'[r][j] = stream[r][j]
    BY <1>4
  <2>2. ASSUME NEW r \in Regions, NEW k \in Nat, NEW u, NEW e, Followed(r, k, u, e)
        PROVE  Followed(r, k, u, e)'
    <3>1. PICK j \in k + 1..Len(stream[r]) : ChangeOf(stream[r][j], u, e)
      BY <2>2 DEF Followed
    <3>2. j \in k + 1..Len(stream'[r]) /\ ChangeOf(stream[r][j], u, e)'
      BY <1>0, <2>1, <3>1 DEF ChangeOf, About
    <3>3. QED
      BY <3>2 DEF Followed
  <2>3. QED
    BY <2>2
<1>7. \A k \in Nat : y # "data" /\ k <= Len(stream[Home[d]]) => Followed(Home[d], k, t, d)'
  <2>1. ChangeOf(m0, t, d)' <=> y # "data"
    BY <1>0, <1>3 DEF ChangeOf, About
  <2>2. \A k \in Nat : k <= Len(stream[Home[d]]) =>
          Len(stream[Home[d]]) + 1 \in k + 1..Len(stream'[Home[d]])
    BY <1>0, <1>4
  <2>3. QED
    BY <1>4, <2>1, <2>2 DEF Followed, ChangeOf, About
<1>8. \A u \in Tenants, e \in Devices :
        /\ Pending(u, e) => Pending(u, e)'
        /\ u = t /\ e = d /\ y # "data" => Pending(u, e)'
  <2>1. \A r \in Regions : \A u, e : Coming(r, u, e) => Coming(r, u, e)'
    BY <1>6 DEF Coming
  <2>2. \A r \in Regions : \A u, e : InHand(r, u, e) => InHand(r, u, e)'
    BY <1>0, <1>5 DEF InHand, Pc, Msg, Type
  <2>3. y # "data" => Coming(Home[d], t, d)'
    BY <1>0, <1>4, <1>7 DEF Coming
  <2>4. QED
    BY <1>0, <2>1, <2>2, <2>3 DEF Pending
<1>9. ASSUME NEW r \in Regions PROVE InOrder(r)'
  <2>1. InOrder(r) /\ at'[r] = at[r]
    BY <1>0 DEF Current
  <2>2. ASSUME NEW m \in Messages, NEW k \in Nat, k <= Len(stream[r]), Explained(m, r, k)
        PROVE  Explained(m, r, k)'
    <3>1. ASSUME NEW u \in Tenants, NEW e \in Devices, About(m, u, e)
          PROVE  Agrees(m, u, e)' \/ Followed(r, k, u, e)'
      <4>1. Agrees(m, u, e) \/ Followed(r, k, u, e)
        BY <2>2, <3>1 DEF Explained
      <4>2. CASE u # t \/ e # d \/ y = "data"
        BY <1>1, <1>5, <1>6, <4>1, <4>2
      <4>3. CASE u = t /\ e = d /\ y # "data"
        <5>1. r = Home[d]
          BY <2>2, <3>1, <4>3 DEF Explained, AtHome, About
        <5>2. QED
          BY <1>7, <2>2, <4>3, <5>1
      <4>4. QED
        BY <4>2, <4>3
    <3>2. QED
      BY <1>0, <1>5, <2>2, <3>1 DEF Explained, AtHome
  <2>3. ASSUME r = Home[d] PROVE \A k : Explained(m0, r, k)'
    <3>1. Agrees(m0, t, d)' /\ m0.link <= links
      BY <1>0, <1>1, <1>3 DEF Agrees, Granted
    <3>2. QED
      BY <1>0, <1>3, <2>3, <3>1 DEF Explained, AtHome, About
  <2>4. ASSUME NEW m \in Messages, NEW k \in 1..Len(stream'[r]), m = stream'[r][k]
        PROVE  Explained(m, r, k)'
    <3>1. CASE k \in 1..Len(stream[r])
      <4>1. Explained(m, r, k) /\ k \in Nat /\ k <= Len(stream[r])
        BY <1>4, <2>1, <2>4, <3>1 DEF InOrder
      <4>2. QED
        BY <2>2, <4>1
    <3>2. CASE k \notin 1..Len(stream[r])
      <4>1. r = Home[d] /\ k = Len(stream[r]) + 1 /\ m = m0
        BY <1>4, <2>4, <3>2
      <4>2. QED
        BY <2>3, <4>1 DEF Explained, AtHome, About, Agrees
    <3>3. QED
      BY <3>1, <3>2
  <2>5. /\ Pc(r)' = Pc(r) /\ Msg(r)' = Msg(r) /\ (Pc(r) # "idle" => Msg(r) \in Messages)
    BY <1>0, <2>1, TypesOfMessages DEF Pc, Msg
  <2>6. ASSUME NEW m \in Messages, Pc(r)' # "idle", m = Msg(r)' PROVE Explained(m, r, 0)'
    <3>1. Explained(m, r, 0) /\ 0 \in Nat /\ 0 <= Len(stream[r])
      BY <1>4, <2>1, <2>5, <2>6 DEF InOrder
    <3>2. QED
      BY <2>2, <3>1
  <2>7. \A k \in 1..Len(stream'[r]) : stream'[r][k] \in Messages
    BY DEF RInv, TypeOK
  <2>8. QED
    BY <2>4, <2>5, <2>6, <2>7, Ordered
<1>10. \A u \in Tenants, S \in SUBSET Devices : UpToDate(S, u) => UpToDate(S, u)'
  BY <1>0, <1>1, <1>8 DEF UpToDate
<1>11. QED
  BY <1>0, <1>9, <1>10, CloudMoves

\* What a step of a subscriber has to show: the order of the messages, the maps, and that no
\* fetcher keeps a list that the step puts out of date.
LEMMA SubscriberStep ==
    ASSUME RInv, Current, NEW r \in Regions, Moved(r),
           UNCHANGED <<list, call, cloud, grant, links>>, late \subseteq late',
           \A t \in Tenants : tenantMap'[t] = tenantMap[t] \/ tenantMap'[t] = 0,
           \A q \in Regions : InOrder(q)', \A t \in Tenants : MapOK(t)',
           \A t \in Tenants :
               \/ \A S \in SUBSET Devices : UpToDate(S, t) => UpToDate(S, t)'
               \/ \A f \in Fetchers : Pc(f) = "store" /\ Tenant(f) = t => f \in late'
    PROVE  Current'
<1>0. /\ TypeOK /\ Bookkeeping /\ "app" \in Fetchers
      /\ \A f \in Fetchers : f \in Threads \ {r} /\ at'[f] = at[f]
  BY RegistryAssumption DEF RInv, Moved, Threads, Fetchers
<1>1. Numbered'
  <2>1. \A t \in Tenants : Relinking(t)' <=> Relinking(t)
    BY <1>0 DEF Relinking, Pc, Tenant
  <2>2. links \in Nat
    BY <1>0 DEF TypeOK
  <2>3. ASSUME NEW t \in Tenants PROVE LinkOK(t)'
    BY <1>0, <2>1, <2>2 DEF Current, Numbered, LinkOK, Pc
  <2>4. ASSUME NEW f \in Fetchers PROVE FetcherOK(f)'
    BY <1>0 DEF Current, Numbered, FetcherOK, Pc, Tenant
  <2>5. QED
    BY <2>3, <2>4 DEF Numbered
<1>2. ASSUME NEW f \in Fetchers PROVE ListOK(f)'
  <2>1. CASE Pc(f) = "store"
    <3>1. Tenant(f) \in Tenants /\ list[f] \in SUBSET Devices /\ ListOK(f)
      BY <1>0, <2>1 DEF Current, Bookkeeping, ThreadOK, TypeOK
    <3>2. QED
      BY <1>0, <2>1, <3>1 DEF ListOK, Pc, Tenant
  <2>2. CASE Pc(f) # "store"
    BY <1>0, <2>2 DEF ListOK, Pc
  <2>3. QED
    BY <2>1, <2>2
<1>3. QED
  BY <1>1, <1>2 DEF Current

LEMMA MapStays ==
    ASSUME TypeOK, Current, NEW u \in Tenants, UNCHANGED <<grant, call>>, at'["app"] = at["app"],
           deviceMap'[u] = deviceMap[u], tenantMap'[u] = tenantMap[u], u \in stale => u \in stale',
           Removing(u) => Removing(u)',
           \A S \in SUBSET Devices : UpToDate(S, u) => UpToDate(S, u)'
    PROVE  MapOK(u)'
<1>1. deviceMap[u] # NoMap => deviceMap[u] \in SUBSET Devices
  BY DEF TypeOK
<1>2. Relinking(u)' <=> Relinking(u)
  BY DEF Relinking, Pc, Tenant
<1>3. QED
  BY <1>1, <1>2 DEF Current, MapOK, Linked

\* A subscriber goes on with its message: what is on its way stays so, except the change that
\* it has in hand.
LEMMA GoesOn ==
    ASSUME TypeOK, Bookkeeping, Current, NEW r \in Regions, Moved(r),
           UNCHANGED <<stream, grant, cloud, links>>,
           Pc(r) # "idle", Pc(r)' = "idle" \/ Msg(r)' = Msg(r)
    PROVE  /\ \A q \in Regions : InOrder(q)'
           /\ \A q \in Regions, u \in Tenants, e \in Devices : Coming(q, u, e) => Pending(u, e)'
           /\ \A u \in Tenants, e \in Devices :
                Pending(u, e) => Pending(u, e)' \/ InHand(r, u, e)
           /\ \A u \in Tenants :
                (\A e \in Devices : InHand(r, u, e) => InHand(r, u, e)') =>
                    \A S \in SUBSET Devices : UpToDate(S, u) => UpToDate(S, u)'
<1>1. \A q \in Regions \ {r} : at'[q] = at[q]
  BY DEF Moved, Threads
<1>2. \A m, t, d : /\ About(m, t, d)' <=> About(m, t, d)
                   /\ ChangeOf(m, t, d)' <=> ChangeOf(m, t, d)
                   /\ Agrees(m, t, d)' <=> Agrees(m, t, d)
  BY DEF About, ChangeOf, Agrees
<1>3. \A q, k, t, d : Followed(q, k, t, d)' <=> Followed(q, k, t, d)
  BY <1>2 DEF Followed
<1>4. \A q, t, d : Coming(q, t, d)' <=> Coming(q, t, d)
  BY <1>3 DEF Coming
<1>5. \A q \in Regions \ {r} : \A t, d : InHand(q, t, d)' <=> InHand(q, t, d)
  BY <1>1, <1>2 DEF InHand, Pc, Msg, Type
<1>6. \A m, q, k : Explained(m, q, k) => Explained(m, q, k)'
  BY <1>2, <1>3 DEF Explained, AtHome
<1>7. ASSUME NEW q \in Regions PROVE InOrder(q)'
  <2>1. InOrder(q) /\ stream'[q] = stream[q]
    BY DEF Current
  <2>2. Pc(q)' # "idle" => Pc(q) # "idle" /\ Msg(q)' = Msg(q)
    BY <1>1 DEF Pc, Msg
  <2>3. QED
    BY <1>6, <2>1, <2>2, TypesOfMessages, Ordered DEF InOrder
<1>8. \A q \in Regions, u \in Tenants, e \in Devices : Coming(q, u, e) => Pending(u, e)'
  BY <1>4 DEF Pending
<1>9. \A u \in Tenants, e \in Devices : Pending(u, e) => Pending(u, e)' \/ InHand(r, u, e)
  BY <1>5, <1>8 DEF Pending
<1>10. ASSUME NEW u \in Tenants, \A e \in Devices : InHand(r, u, e) => InHand(r, u, e)',
              NEW S \in SUBSET Devices, UpToDate(S, u)
       PROVE  UpToDate(S, u)'
  <2>1. \A e \in Devices : Pending(u, e) => Pending(u, e)'
    BY <1>9, <1>10 DEF Pending
  <2>2. QED
    BY <1>10, <2>1 DEF UpToDate
<1>11. QED
  BY <1>7, <1>8, <1>9, <1>10

\* A subscriber goes on and no map or list is the worse for it.
LEMMA NothingApplied ==
    ASSUME RInv, Current, NEW r \in Regions, Moved(r),
           UNCHANGED <<list, call, stream, cloud, grant, links, late>>, stale \subseteq stale',
           Pc(r) # "idle", Pc(r)' = "idle" \/ Msg(r)' = Msg(r),
           \A u \in Tenants, e \in Devices : InHand(r, u, e) => InHand(r, u, e)',
           \A u \in Tenants : tenantMap'[u] = tenantMap[u] \/ tenantMap'[u] = 0,
           \A u \in Tenants :
               \/ /\ deviceMap'[u] = deviceMap[u] /\ tenantMap'[u] = tenantMap[u]
                  /\ Removing(u) => Removing(u)'
               \/ Removing(u)'
               \/ deviceMap'[u] = NoMap
    PROVE  Current'
<1>0. TypeOK /\ Bookkeeping /\ at'["app"] = at["app"]
  BY RegistryAssumption DEF RInv, Moved, Threads, Fetchers
<1>1. /\ \A q \in Regions : InOrder(q)'
      /\ \A u \in Tenants, S \in SUBSET Devices : UpToDate(S, u) => UpToDate(S, u)'
  BY <1>0, GoesOn
<1>2. ASSUME NEW u \in Tenants PROVE MapOK(u)'
  <2>1. CASE /\ deviceMap'[u] = deviceMap[u] /\ tenantMap'[u] = tenantMap[u]
             /\ Removing(u) => Removing(u)'
    BY <1>0, <1>1, <2>1, MapStays
  <2>2. CASE Removing(u)' \/ deviceMap'[u] = NoMap
    BY <2>2 DEF MapOK
  <2>3. QED
    BY <2>1, <2>2
<1>3. QED
  BY <1>1, <1>2, SubscriberStep

\* A message of t takes effect, and tells what the cloud has unless another one follows; or
\* the map of t is marked, or there is none.
LEMMA Applied ==
    ASSUME RInv, Current, NEW r \in Regions, Moved(r),
           UNCHANGED <<list, call, stream, cloud, grant, links, tenantMap>>,
           Pc(r) \notin {"idle", "removeDevices"}, Pc(r)' = "idle" \/ Msg(r)' = Msg(r),
           NEW t \in Tenants, t = Tenant(r), NEW lost \in BOOLEAN, Overtake(t, lost),
           \A u \in Tenants : u # t => deviceMap'[u] = deviceMap[u],
           \/ lost
           \/ deviceMap'[t] = NoMap
           \/ /\ Msg(r).link = tenantMap[t] /\ Type(r) # "app:disconnect" /\ deviceMap[t] # NoMap
              /\ deviceMap'[t] = IF Type(r) = "device:deactivate"
                                 THEN deviceMap[t] \ {Msg(r).device}
                                 ELSE deviceMap[t] \cup {Msg(r).device}
    PROVE  Current'
<1>0. /\ TypeOK /\ Bookkeeping /\ at'["app"] = at["app"] /\ MapOK(t)
      /\ deviceMap[t] # NoMap => deviceMap[t] \in SUBSET Devices
      /\ Msg(r) \in Messages /\ Msg(r).tenant = t /\ Explained(Msg(r), r, 0)
  <2>1. TypeOK /\ Bookkeeping /\ at'["app"] = at["app"] /\ MapOK(t) /\ InOrder(r) /\ ThreadOK(r)
    BY RegistryAssumption DEF RInv, Moved, Threads, Fetchers, Current, Bookkeeping
  <2>2. QED
    BY <2>1 DEF TypeOK, ThreadOK, InOrder
<1>1. /\ \A q \in Regions : InOrder(q)'
      /\ \A q \in Regions, u \in Tenants, e \in Devices : Coming(q, u, e) => Pending(u, e)'
      /\ \A u \in Tenants, e \in Devices : Pending(u, e) => Pending(u, e)' \/ InHand(r, u, e)
      /\ \A u \in Tenants :
           (\A e \in Devices : InHand(r, u, e) => InHand(r, u, e)') =>
               \A S \in SUBSET Devices : UpToDate(S, u) => UpToDate(S, u)'
  BY <1>0, GoesOn
<1>2. \A u \in Tenants, e \in Devices : InHand(r, u, e) => u = t /\ e = Msg(r).device
  BY <1>0 DEF InHand, ChangeOf, About
<1>3. \A u \in Tenants : /\ Removing(u) => Removing(u)'
                         /\ Relinking(u)' <=> Relinking(u)
                         /\ Linked(u)' <=> Linked(u)
  <2>1. \A th \in {"app"} \cup Regions : th # r => at'[th] = at[th]
    BY <1>0 DEF Moved, Threads
  <2>2. QED
    BY <1>0, <2>1 DEF Removing, Relinking, Linked, Pc, Tenant
<1>4. /\ late \subseteq late' /\ stale \subseteq stale' /\ (lost => t \in stale')
      /\ \A f \in Fetchers : Pc(f) = "store" /\ Tenant(f) = t => f \in late'
  BY DEF Overtake
<1>5. MapOK(t)'
  <2>1. CASE lost \/ deviceMap'[t] = NoMap
    BY <1>4, <2>1 DEF MapOK
  <2>2. CASE /\ Msg(r).link = tenantMap[t] /\ Type(r) # "app:disconnect" /\ deviceMap[t] # NoMap
             /\ deviceMap'[t] = IF Type(r) = "device:deactivate"
                                THEN deviceMap[t] \ {Msg(r).device}
                                ELSE deviceMap[t] \cup {Msg(r).device}
    <3>1. PICK d \in Devices : d = Msg(r).device
      BY <1>0, <2>2, MessageFields DEF Type
    <3>2. ASSUME Linked(t), UpToDate(deviceMap[t], t) PROVE UpToDate(deviceMap[t], t)'
      <4>1. PICK S \in SUBSET Devices : S = deviceMap'[t]
        BY <1>0, <2>2, <3>1
      <4>2. ASSUME NEW e \in Devices PROVE Pending(t, e)' \/ (e \in S <=> e \in cloud[t])
        <5>1. CASE e # d
          BY <1>0, <1>1, <1>2, <2>2, <3>1, <3>2, <4>1, <5>1 DEF UpToDate
        <5>2. CASE e = d
          <6>1. About(Msg(r), t, d)
            BY <1>0, <2>2, <3>1, <3>2 DEF About, Linked, Type
          <6>2. Agrees(Msg(r), t, d) \/ Coming(r, t, d)
            BY <1>0, <6>1 DEF Explained, Coming
          <6>3. d \in S <=> Type(r) # "device:deactivate"
            BY <1>0, <2>2, <3>1, <4>1
          <6>4. QED
            BY <1>1, <5>2, <6>2, <6>3 DEF Agrees, Type
        <5>3. QED
          BY <5>1, <5>2
      <4>3. QED
        BY <4>1, <4>2 DEF UpToDate
    <3>3. QED
      BY <1>0, <1>3, <1>4, <2>2, <3>2 DEF MapOK
  <2>3. QED
    BY <2>1, <2>2
<1>6. ASSUME NEW u \in Tenants, u # t PROVE MapOK(u)'
  <2>1. \A S \in SUBSET Devices : UpToDate(S, u) => UpToDate(S, u)'
    BY <1>1, <1>2, <1>6
  <2>2. QED
    BY <1>0, <1>3, <1>4, <1>6, <2>1, MapStays
<1>7. \A u \in Tenants :
        \/ \A S \in SUBSET Devices : UpToDate(S, u) => UpToDate(S, u)'
        \/ \A f \in Fetchers : Pc(f) = "store" /\ Tenant(f) = u => f \in late'
  BY <1>1, <1>2, <1>4
<1>8. \A u \in Tenants : MapOK(u)'
  BY <1>5, <1>6
<1>9. \A u \in Tenants : tenantMap'[u] = tenantMap[u] \/ tenantMap'[u] = 0
  OBVIOUS
<1>10. QED
  BY <1>1, <1>4, <1>7, <1>8, <1>9, SubscriberStep

\* The next message is taken: it is in hand, or it is dropped and its tenant is not in the map.
LEMMA CurrentTake ==
    ASSUME RInv, RInv', Current, NEW r \in Regions, Take(r)
    PROVE  Current'
<1> USE DEF deviceVars, appVars
<1>0. /\ TypeOK /\ TypeOK' /\ Bookkeeping /\ Bookkeeping' /\ at'["app"] = at["app"]
      /\ at \in [Threads -> Places] /\ r \in Threads /\ "app" # r
      /\ stream \in [Regions -> Seq(Messages)] /\ stream[r] # <<>>
      /\ stream' = [stream EXCEPT ![r] = Tail(@)] /\ Pc(r) = "idle"
      /\ UNCHANGED <<list, call, cloud, grant, links, tenantMap, deviceMap>>
  BY RegistryAssumption DEF RInv, TypeOK, Threads, Fetchers, Take, Begin, SubStep
<1>1. PICK m \in Messages : m = stream[r][1]
  BY <1>0
<1>2. m.tenant \in Tenants /\ tenantMap[m.tenant] \in 0..MaxLinks
  BY <1>0, MessageFields DEF TypeOK
<1>3. /\ Moved(r)
      /\ IF tenantMap[m.tenant] = 0
         THEN Pc(r)' = "idle" /\ Overtake(m.tenant, FALSE)
         ELSE Pc(r)' = "loadDevices" /\ Msg(r)' = m /\ NoEffect
  <2>1. Head(stream[r]) = m
    BY <1>0, <1>1
  <2>2. CASE tenantMap[m.tenant] = 0
    BY <1>0, <2>1, <2>2 DEF Take, Moved, Pc
  <2>3. CASE tenantMap[m.tenant] # 0
    <3>1. Begin(r, "loadDevices", m.tenant, tenantMap[m.tenant], m) /\ NoEffect
      BY <2>1, <2>3 DEF Take
    <3>2. "loadDevices" \in Labels /\ m \in Messages \cup {<<>>}
      BY DEF Labels
    <3>3. /\ Moved(r) /\ at'[r].pc = "loadDevices" /\ at'[r].msg = m
      BY <1>0, <1>2, <3>1, <3>2, Moves
    <3>4. QED
      BY <2>3, <3>1, <3>3 DEF Pc, Msg
  <2>4. QED
    BY <2>2, <2>3
<1>a. Pc(r)' # "idle" => Msg(r)' = m
  BY <1>3, Zenon
\* The stream moves up by one.
<1>4. /\ Len(stream[r]) \in Nat \ {0} /\ Len(stream'[r]) = Len(stream[r]) - 1
      /\ \A i \in 1..Len(stream'[r]) : stream'[r][i] = stream[r][i + 1]
      /\ \A q \in Regions \ {r} : at'[q] = at[q] /\ stream'[q] = stream[q]
  BY <1>0, <1>3 DEF Moved, Threads
<1>5. \A n, u, e : /\ About(n, u, e)' <=> About(n, u, e)
                   /\ ChangeOf(n, u, e)' <=> ChangeOf(n, u, e)
                   /\ Agrees(n, u, e)' <=> Agrees(n, u, e)
  BY <1>0 DEF About, ChangeOf, Agrees
<1>6. \A k \in Nat : \A u, e : Followed(r, k + 1, u, e) => Followed(r, k, u, e)'
  <2>1. ASSUME NEW k \in Nat, NEW u, NEW e, Followed(r, k + 1, u, e)
        PROVE  Followed(r, k, u, e)'
    <3>1. PICK j \in k + 1 + 1..Len(stream[r]) : ChangeOf(stream[r][j], u, e)
      BY <2>1 DEF Followed
    <3>2. PICK i \in k + 1..Len(stream'[r]) : i = j - 1
      BY <1>4, <3>1
    <3>3. stream'[r][i] = stream[r][j]
      BY <1>4, <3>1, <3>2
    <3>4. \E l \in k + 1..Len(stream'[r]) : ChangeOf(stream[r][l], u, e)'
      BY <1>0, <1>4, <3>1, <3>2, <3>3 DEF ChangeOf, About
    <3>5. QED
      BY <3>4 DEF Followed
  <2>2. QED
    BY <2>1
<1>7. \A k \in Nat : \A n : Explained(n, r, k + 1) => Explained(n, r, k)'
  BY <1>0, <1>5, <1>6 DEF Explained, AtHome
<1>8. ASSUME NEW q \in Regions PROVE InOrder(q)'
  <2>1. InOrder(q)
    BY DEF Current
  <2>2. CASE q = r
    <3>1. ASSUME NEW n \in Messages, NEW k \in 1..Len(stream'[r]), n = stream'[r][k]
          PROVE  Explained(n, r, k)'
      <4>1. k + 1 \in 1..Len(stream[r]) /\ n = stream[r][k + 1] /\ k \in Nat
        BY <1>4, <3>1
      <4>2. Explained(n, r, k + 1)
        BY <2>1, <2>2, <4>1 DEF InOrder
      <4>3. QED
        BY <1>7, <4>1, <4>2
    <3>2. ASSUME NEW n \in Messages, Pc(r)' # "idle", n = Msg(r)' PROVE Explained(n, r, 0)'
      <4>1. n = m /\ 1 \in 1..Len(stream[r])
        BY <1>4, <1>a, <3>2
      <4>2. Explained(n, r, 0 + 1) /\ 0 \in Nat
        BY <1>1, <2>1, <2>2, <4>1 DEF InOrder
      <4>3. QED
        BY <1>7, <4>2
    <3>3. /\ \A k \in 1..Len(stream'[r]) : stream'[r][k] \in Messages
          /\ Pc(r)' # "idle" => Msg(r)' \in Messages
      <4>1. stream'[r] \in Seq(Messages)
        BY <1>0 DEF TypeOK
      <4>2. QED
        BY <1>a, <4>1
    <3>4. QED
      BY <2>2, <3>1, <3>2, <3>3, Ordered
  <2>3. CASE q # r
    <3>1. stream'[q] = stream[q] /\ at'[q] = at[q]
      BY <1>4, <2>3
    <3>2. \A k, u, e : Followed(q, k, u, e)' <=> Followed(q, k, u, e)
      BY <1>5, <3>1 DEF Followed
    <3>3. \A n, k : Explained(n, q, k) => Explained(n, q, k)'
      BY <1>0, <1>5, <3>2 DEF Explained, AtHome
    <3>4. QED
      BY <1>0, <2>1, <3>1, <3>3, TypesOfMessages, Ordered DEF InOrder, Pc, Msg
  <2>4. QED
    BY <2>2, <2>3
\* The message taken is what the stream no longer holds.
<1>9. \A u \in Tenants, e \in Devices :
        Pending(u, e) => Pending(u, e)' \/ (u = m.tenant /\ tenantMap[m.tenant] = 0)
  <2>1. ASSUME NEW q \in Regions, NEW u \in Tenants, NEW e \in Devices,
               Coming(q, u, e) \/ InHand(q, u, e)
        PROVE  Pending(u, e)' \/ (u = m.tenant /\ tenantMap[m.tenant] = 0)
    <3>1. CASE q # r
      <4>1. stream'[q] = stream[q] /\ at'[q] = at[q]
        BY <1>4, <3>1
      <4>2. (Coming(q, u, e) \/ InHand(q, u, e))'
        BY <1>5, <2>1, <4>1 DEF Coming, Followed, InHand, Pc, Msg, Type
      <4>3. QED
        BY <4>2 DEF Pending
    <3>2. CASE q = r
      <4>1. PICK j \in 1..Len(stream[r]) : ChangeOf(stream[r][j], u, e)
        BY <1>0, <2>1, <3>2 DEF Coming, Followed, InHand
      <4>2. CASE j = 1
        <5>1. ChangeOf(m, u, e) /\ u = m.tenant
          BY <1>1, <4>1, <4>2 DEF ChangeOf, About
        <5>2. CASE tenantMap[m.tenant] # 0
          <6>1. InHand(r, u, e)'
            BY <1>0, <1>3, <5>1, <5>2 DEF InHand, ChangeOf, About
          <6>2. QED
            BY <6>1 DEF Pending
        <5>3. QED
          BY <1>3, <5>1, <5>2
      <4>3. CASE j # 1
        <5>1. Followed(r, 0 + 1, u, e)
          BY <4>1, <4>3 DEF Followed
        <5>2. Followed(r, 0, u, e)'
          BY <1>6, <5>1
        <5>3. QED
          BY <5>2 DEF Coming, Pending
      <4>4. QED
        BY <4>2, <4>3
    <3>3. QED
      BY <3>1, <3>2
  <2>2. QED
    BY <2>1 DEF Pending
<1>10. \A u \in Tenants : ~(u = m.tenant /\ tenantMap[m.tenant] = 0) =>
         \A S \in SUBSET Devices : UpToDate(S, u) => UpToDate(S, u)'
  BY <1>0, <1>9 DEF UpToDate
<1>11. late \subseteq late' /\ stale' = stale
  BY <1>3 DEF Overtake, NoEffect
<1>12. \A u \in Tenants : Removing(u) => Removing(u)'
  BY <1>0, <1>4 DEF Removing, Pc, Tenant
<1>13. ASSUME NEW u \in Tenants PROVE MapOK(u)'
  <2>1. CASE u = m.tenant /\ tenantMap[m.tenant] = 0
    BY <1>0, <1>11, <1>12, <2>1 DEF Current, MapOK
  <2>2. CASE ~(u = m.tenant /\ tenantMap[m.tenant] = 0)
    BY <1>0, <1>10, <1>11, <1>12, <2>2, MapStays
  <2>3. QED
    BY <2>1, <2>2
<1>14. \A u \in Tenants :
         \/ \A S \in SUBSET Devices : UpToDate(S, u) => UpToDate(S, u)'
         \/ \A f \in Fetchers : Pc(f) = "store" /\ Tenant(f) = u => f \in late'
  <2>1. tenantMap[m.tenant] = 0 =>
          \A f \in Fetchers : Pc(f) = "store" /\ Tenant(f) = m.tenant => f \in late'
    BY <1>3 DEF Overtake
  <2>2. QED
    BY <1>10, <2>1
<1>15. QED
  BY <1>0, <1>3, <1>8, <1>11, <1>13, <1>14, SubscriberStep

LEMMA CurrentSubscriber ==
    ASSUME RInv, RInv', Current, NEW r \in Regions, SubscriberNext(r)
    PROVE  Current'
<1> USE DEF deviceVars, appVars
<1>0. /\ TypeOK /\ Bookkeeping /\ at \in [Threads -> Places] /\ r \in Threads /\ ThreadOK(r)
      /\ deviceMap \in [Tenants -> (SUBSET Devices) \cup {NoMap}]
      /\ tenantMap \in [Tenants -> 0..MaxLinks] /\ \A q \in held : HeldOK(q)
  BY DEF RInv, TypeOK, Threads, Bookkeeping
<1>1. CASE Take(r)
  BY <1>1, CurrentTake
<1>2. CASE ~Take(r)
  <2>1. /\ UNCHANGED <<list, call, stream, cloud, grant, links>> /\ Pc(r) # "idle"
        /\ Pc(r) \in {"loadDevices", "loadDevice", "lookup", "handler", "removeTenant",
                      "removeDevices"}
    BY <1>2 DEF SubscriberNext, LoadDevices, LoadDevice, LookedUp, LookupFails, Lookup,
       HandlerReturns, DropTenant, DropDevices, SubStep
  <2>2. /\ Moved(r) /\ (Pc(r)' = "idle" \/ (Msg(r)' = Msg(r) /\ Tenant(r)' = Tenant(r)))
    <3>1. \/ Leave(r)
          \/ \E l \in Labels : Goto(r, l)
      BY <1>2 DEF SubscriberNext, LoadDevices, LoadDevice, LookedUp, LookupFails,
         Lookup, HandlerReturns, DropTenant, DropDevices, Labels
    <3>2. QED
      BY <1>0, <3>1, Moves DEF Idle, Pc, Msg, Tenant
  <2>3. PICK t \in Tenants : t = Tenant(r)
    BY <1>0, <2>1, MessageFields DEF ThreadOK
  <2>4. \A q \in {"app"} \cup Regions : q # r => at'[q] = at[q]
    BY <2>2, RegistryAssumption DEF Moved, Threads, Fetchers
  <2>5. Pc(r) # "removeDevices" => \A u \in Tenants : Removing(u) => Removing(u)'
    BY <2>4 DEF Removing, Pc, Tenant
  <2>6. CASE LoadDevices(r)
    <3>1. CASE deviceMap[t] = NoMap
      <4>1. Overtake(t, FALSE) /\ UNCHANGED <<tenantMap, deviceMap>>
        BY <2>3, <2>6, <3>1 DEF LoadDevices
      <4>2. Pc(r) = "loadDevices"
        BY <2>6 DEF LoadDevices
      <4>3. QED
        BY <2>1, <2>2, <2>3, <3>1, <4>1, <4>2, Applied
    <3>2. CASE deviceMap[t] # NoMap
      <4>1. /\ Pc(r) = "loadDevices" /\ NoEffect /\ UNCHANGED <<tenantMap, deviceMap>>
            /\ Goto(r, CASE Type(r) = "app:disconnect" -> "removeTenant"
                         [] Type(r) = "device:activate" -> "lookup"
                         [] OTHER -> "loadDevice")
        BY <2>3, <2>6, <3>2 DEF LoadDevices
      <4>2. /\ at'[r].msg = at[r].msg
            /\ at'[r].pc = (CASE Type(r) = "app:disconnect" -> "removeTenant"
                              [] Type(r) = "device:activate" -> "lookup"
                              [] OTHER -> "loadDevice")
        BY <1>0, <4>1, Moves DEF Labels
      <4>3. \A u \in Tenants, e \in Devices : InHand(r, u, e) => InHand(r, u, e)'
        <5>1. Msg(r).type \in {"app:disconnect", "device:activate", "device:deactivate", "data"}
          BY <1>0, <2>1 DEF ThreadOK, Messages
        <5>2. QED
          BY <2>1, <4>1, <4>2, <5>1 DEF InHand, ChangeOf, About, Type, Msg, Pc
      <4>4. QED
        BY <2>1, <2>2, <2>5, <4>1, <4>3, NothingApplied DEF NoEffect
    <3>3. QED
      BY <3>1, <3>2
  <2>7. CASE LoadDevice(r)
    <3>1. Pc(r) = "loadDevice" /\ UNCHANGED tenantMap /\ Type(r) # "app:disconnect"
      BY <1>0, <2>7 DEF LoadDevice, ThreadOK
    <3>2. CASE Type(r) = "data"
      <4>1. NoEffect /\ UNCHANGED deviceMap
        BY <2>7, <3>2 DEF LoadDevice
      <4>2. \A u \in Tenants, e \in Devices : ~InHand(r, u, e)
        BY <3>1, <3>2 DEF InHand, Type
      <4>3. QED
        BY <2>1, <2>2, <2>5, <3>1, <4>1, <4>2, NothingApplied DEF NoEffect
    <3>3. CASE Type(r) # "data"
      <4>1. Overtake(t, r \notin held \/ OldLink(r)) /\ Forget(r)
        BY <2>3, <2>7, <3>3 DEF LoadDevice
      <4>2. Type(r) = "device:deactivate"
        <5>1. Msg(r).type \in {"app:disconnect", "device:activate", "device:deactivate", "data"}
          BY <1>0, <2>1 DEF ThreadOK, Messages
        <5>2. Type(r) # "device:activate"
          BY <1>0, <3>1 DEF ThreadOK
        <5>3. QED
          BY <3>1, <3>3, <5>1, <5>2 DEF Type
      <4>3. \A u \in Tenants : u # t => deviceMap'[u] = deviceMap[u]
        BY <1>0, <2>3, <4>1 DEF Forget
      <4>4. Pc(r) \notin {"idle", "removeDevices"}
        BY <3>1
      <4>5. CASE r \notin held \/ OldLink(r)
        <5>1. Overtake(t, TRUE)
          BY <4>1, <4>5 DEF Overtake
        <5>2. QED
          BY <2>1, <2>2, <2>3, <3>1, <4>3, <4>4, <5>1, Applied
      <4>6. CASE r \in held /\ ~OldLink(r)
        <5>1. Overtake(t, FALSE)
          BY <4>1, <4>6 DEF Overtake
        <5>2. Msg(r).link = tenantMap[t] /\ deviceMap[t] # NoMap
          BY <1>0, <2>3, <4>6 DEF OldLink, HeldOK
        <5>3. deviceMap'[t] = IF Type(r) = "device:deactivate"
                              THEN deviceMap[t] \ {Msg(r).device}
                              ELSE deviceMap[t] \cup {Msg(r).device}
          BY <1>0, <2>3, <4>1, <4>2, <4>6 DEF Forget
        <5>4. QED
          BY <2>1, <2>2, <2>3, <3>1, <4>3, <4>4, <5>1, <5>2, <5>3, Applied
      <4>7. QED
        BY <4>5, <4>6
    <3>4. QED
      BY <3>2, <3>3
  <2>8. CASE LookedUp(r)
    <3>1. Pc(r) = "lookup" /\ UNCHANGED tenantMap /\ Type(r) # "app:disconnect"
      BY <1>0, <2>8 DEF LookedUp, Lookup, ThreadOK
    <3>2. CASE Type(r) = "device:deactivate"
      <4>1. NoEffect /\ UNCHANGED deviceMap
        BY <2>8, <3>2 DEF LookedUp
      <4>2. \A u \in Tenants, e \in Devices : ~InHand(r, u, e)
        BY <3>1, <3>2 DEF InHand
      <4>3. QED
        BY <2>1, <2>2, <2>5, <3>1, <4>1, <4>2, NothingApplied DEF NoEffect
    <3>3. CASE Type(r) # "device:deactivate"
      <4>1. Overtake(t, r \notin held \/ OldLink(r)) /\ StoreDevice(r)
        BY <2>3, <2>8, <3>3 DEF LookedUp
      <4>2. \A u \in Tenants : u # t => deviceMap'[u] = deviceMap[u]
        BY <1>0, <2>3, <4>1 DEF StoreDevice, StoreAlways
      <4>3. Pc(r) \notin {"idle", "removeDevices"}
        BY <3>1
      <4>4. CASE r \notin held \/ OldLink(r)
        <5>1. Overtake(t, TRUE)
          BY <4>1, <4>4 DEF Overtake
        <5>2. QED
          BY <2>1, <2>2, <2>3, <3>1, <4>2, <4>3, <5>1, Applied
      <4>5. CASE r \in held /\ ~OldLink(r)
        <5>1. Overtake(t, FALSE)
          BY <4>1, <4>5 DEF Overtake
        <5>2. Msg(r).link = tenantMap[t] /\ deviceMap[t] # NoMap
          BY <1>0, <2>3, <4>5 DEF OldLink, HeldOK
        <5>3. deviceMap'[t] = IF Type(r) = "device:deactivate"
                              THEN deviceMap[t] \ {Msg(r).device}
                              ELSE deviceMap[t] \cup {Msg(r).device}
          BY <1>0, <2>3, <3>3, <4>1, <4>5 DEF StoreDevice, StoreAlways
        <5>4. QED
          BY <2>1, <2>2, <2>3, <3>1, <4>2, <4>3, <5>1, <5>2, <5>3, Applied
      <4>6. QED
        BY <4>4, <4>5
    <3>4. QED
      BY <3>2, <3>3
  <2>9. CASE LookupFails(r)
    <3>1. Pc(r) = "lookup" /\ UNCHANGED <<tenantMap, deviceMap>>
      BY <2>9 DEF LookupFails, Lookup
    <3>2. CASE Type(r) = "device:activate"
      <4>1. Overtake(t, TRUE)
        BY <2>3, <2>9, <3>2 DEF LookupFails
      <4>2. QED
        BY <2>1, <2>2, <2>3, <3>1, <4>1, Applied
    <3>3. CASE Type(r) # "device:activate"
      <4>1. NoEffect
        BY <2>9, <3>3 DEF LookupFails
      <4>2. \A u \in Tenants, e \in Devices : ~InHand(r, u, e)
        BY <3>1, <3>3 DEF InHand
      <4>3. QED
        BY <2>1, <2>2, <2>5, <3>1, <4>1, <4>2, NothingApplied DEF NoEffect
    <3>4. QED
      BY <3>2, <3>3
  <2>10. CASE HandlerReturns(r) \/ DropTenant(r) \/ DropDevices(r)
    <3>1. /\ UNCHANGED late /\ stale \subseteq stale'
          /\ Pc(r) \in {"handler", "removeTenant", "removeDevices"}
      BY <2>10 DEF HandlerReturns, DropTenant, DropDevices, NoEffect
    <3>2. \A u \in Tenants, e \in Devices : ~InHand(r, u, e)
      BY <3>1 DEF InHand
    <3>3. CASE HandlerReturns(r)
      <4>1. UNCHANGED <<tenantMap, deviceMap>> /\ Pc(r) = "handler"
        BY <3>3 DEF HandlerReturns
      <4>2. QED
        BY <2>1, <2>2, <2>5, <3>1, <3>2, <4>1, NothingApplied
    <3>4. CASE DropTenant(r)
      <4>1. /\ UNCHANGED deviceMap /\ Pc(r) = "removeTenant" /\ Goto(r, "removeDevices")
            /\ tenantMap' = [tenantMap EXCEPT ![t] = 0]
        BY <2>3, <3>4 DEF DropTenant
      <4>2. Removing(t)'
        <5>1. Pc(r)' = "removeDevices" /\ Tenant(r)' = t
          BY <1>0, <2>3, <4>1, Moves DEF Labels, Pc, Tenant
        <5>2. QED
          BY <5>1 DEF Removing
      <4>3. \A u \in Tenants : tenantMap'[u] = IF u = t THEN 0 ELSE tenantMap[u]
        BY <1>0, <4>1
      <4>4. QED
        BY <2>1, <2>2, <2>5, <3>1, <3>2, <4>1, <4>2, <4>3, NothingApplied
    <3>5. CASE DropDevices(r)
      <4>1. /\ UNCHANGED tenantMap /\ Pc(r) = "removeDevices"
            /\ deviceMap' = [deviceMap EXCEPT ![t] = NoMap]
        BY <2>3, <3>5 DEF DropDevices, ForgetDevices, SetDevices
      <4>2. \A u \in Tenants : deviceMap'[u] = IF u = t THEN NoMap ELSE deviceMap[u]
        BY <1>0, <4>1
      <4>3. \A u \in Tenants : u # t /\ Removing(u) => Removing(u)'
        BY <2>3, <2>4 DEF Removing, Pc, Tenant
      <4>4. QED
        BY <2>1, <2>2, <3>1, <3>2, <4>1, <4>2, <4>3, NothingApplied
    <3>6. QED
      BY <2>10, <3>3, <3>4, <3>5
  <2>11. QED
    BY <1>2, <2>6, <2>7, <2>8, <2>9, <2>10 DEF SubscriberNext
<1>3. QED
  BY <1>1, <1>2

LEMMA CurrentStep ==
    ASSUME RInv, RInv', Current, [Next]_vars
    PROVE  Current'
<1>1. CASE UNCHANGED vars
  <2>1. /\ UNCHANGED <<stream, grant, cloud, links, at, call, tenantMap, deviceMap, list>>
        /\ UNCHANGED <<late, stale>>
    BY <1>1 DEF vars, deviceVars, appVars, loopVars, cloudVars
  <2>2. \A r \in Regions : InOrder(r)'
    BY <2>1, QuietStep DEF Current
  <2>3. Numbered'
    BY <2>1 DEF Current, Numbered, LinkOK, FetcherOK, Relinking, Pc, Tenant
  <2>4. ASSUME NEW t, NEW S, UpToDate(S, t) PROVE UpToDate(S, t)'
    BY <2>1, <2>4 DEF UpToDate, Pending, Coming, Followed, InHand, ChangeOf, About, Pc, Msg, Type
  <2>5. ASSUME NEW f \in Fetchers PROVE ListOK(f)'
    BY <2>1, <2>4 DEF Current, ListOK, Pc, Tenant
  <2>6. ASSUME NEW t \in Tenants PROVE MapOK(t)'
    BY <2>1, <2>4 DEF Current, MapOK, Linked, Relinking, Removing, Pc, Tenant
  <2>7. QED
    BY <2>2, <2>3, <2>5, <2>6 DEF Current
<1>2. CASE AppNext
  BY <1>2, CurrentApp, CurrentDeleted
<1>3. CASE LoopNext \/ Reload
  BY <1>3, CurrentLoop
<1>4. ASSUME NEW t \in Tenants, LinkTenant(t) \/ SetTenant(t) \/ UnlinkTenant(t) PROVE Current'
  BY <1>4, CurrentCall, CurrentLink
<1>5. ASSUME NEW t \in Tenants, CloudUnlinks(t) PROVE Current'
  <2>1. /\ EndLink(t, FALSE) /\ FALSE \in BOOLEAN
        /\ UNCHANGED <<cloud, links, tenantMap, deviceVars, list, at, call>>
    BY <1>5 DEF CloudUnlinks, CloudStep, appVars
  <2>2. QED
    BY <2>1, LinkGone
<1>6. ASSUME NEW t \in Tenants, NEW d \in Devices, Change(t, d) \/ DeviceSends(t, d)
      PROVE  Current'
  BY <1>6, CurrentUnheard, CurrentHeard DEF DeviceSends
<1>7. ASSUME NEW r \in Regions, SubscriberNext(r) PROVE Current'
  BY <1>7, CurrentSubscriber
<1>8. QED
  BY <1>1, <1>2, <1>3, <1>4, <1>5, <1>6, <1>7 DEF Next

\* The application leaves a tenant with a list, without its entry, or marked.
LEMMA MappedApp ==
    ASSUME RInv, Mapped, AppNext PROVE Mapped'
<1> USE DEF Pc, Tenant, appVars, loopVars, cloudVars, deviceVars, AppStep, Returns
<1>0. /\ TypeOK /\ Removed /\ "app" \in Threads /\ at \in [Threads -> Places]
      /\ deviceMap \in [Tenants -> (SUBSET Devices) \cup {NoMap}]
      /\ tenantMap \in [Tenants -> 0..MaxLinks] /\ list["app"] \in SUBSET Devices
      /\ Tenant("app") \in Tenants
  <2>1. ThreadOK("app") /\ "app" \in Fetchers /\ "app" \in Threads
    BY DEF RInv, Bookkeeping, Threads, Fetchers
  <2>2. Pc("app") \notin {"idle", "range"}
    BY DEF AppNext, StoreTenant, Fetched, FetchFails, TenantSet, Store, RemoveTenant,
       RemoveDevices, Deleted
  <2>3. QED
    BY <2>1, <2>2 DEF RInv, TypeOK, Unlinked, ThreadOK
<1>1. CASE StoreTenant \/ Fetched("app") \/ RemoveTenant \/ RemoveDevices
  <2>1. /\ Tenant("app")' = Tenant("app") /\ Pc("app")' # "idle" /\ stale' = stale
        /\ Pc("app") # "idle"
    <3>1. Pc("app") # "idle" /\ stale' = stale /\ \E l \in Labels \ {"idle"} : Goto("app", l)
      BY <1>1 DEF StoreTenant, Fetched, RemoveTenant, RemoveDevices, Labels
    <3>2. QED
      BY <1>0, <3>1, Moves
  <2>2. \A t \in Tenants : t # Tenant("app") =>
             tenantMap'[t] = tenantMap[t] /\ deviceMap'[t] = deviceMap[t]
    BY <1>0, <1>1 DEF StoreTenant, Fetched, RemoveTenant, DeleteTenant, RemoveDevices,
       ForgetDevices, SetDevices
  <2>3. QED
    BY <2>1, <2>2 DEF Mapped
<1>2. CASE FetchFails
  <2>1. /\ stale \subseteq stale' /\ UNCHANGED <<tenantMap, deviceMap>>
        /\ Pc("app") # "idle"
        /\ \/ Tenant("app")' = Tenant("app") /\ Pc("app")' # "idle"
           \/ deviceMap[Tenant("app")] = NoMap => Tenant("app") \in stale'
    <3>1. CASE call = "LinkTenant"
      <4>1. Pc("app") # "idle" /\ Goto("app", "removeTenant") /\ stale' = stale
        BY <1>2, <3>1 DEF FetchFails
      <4>2. QED
        BY <1>0, <1>2, <4>1, Moves DEF FetchFails, Labels
    <3>2. CASE call # "LinkTenant"
      BY <1>2, <3>2 DEF FetchFails
    <3>3. QED
      BY <3>1, <3>2
  <2>2. QED
    BY <2>1 DEF Mapped
<1>3. CASE TenantSet
  <2>1. /\ UNCHANGED tenantMap /\ deviceMap'[Tenant("app")] = list["app"] /\ Pc("app") # "idle"
        /\ \A t \in Tenants : t # Tenant("app") =>
             deviceMap'[t] = deviceMap[t] /\ (t \in stale' <=> t \in stale)
    BY <1>0, <1>3 DEF TenantSet, Store, SetDevices
  <2>2. list["app"] # NoMap
    BY <1>0, RegistryAssumption DEF NoMap
  <2>3. QED
    BY <2>1, <2>2 DEF Mapped
<1>4. CASE Deleted
  <2>1. /\ UNCHANGED <<tenantMap, deviceMap, stale>> /\ tenantMap[Tenant("app")] = 0
        /\ Pc("app") # "idle"
    BY <1>0, <1>4 DEF Deleted, Removed
  <2>2. QED
    BY <2>1 DEF Mapped
<1>5. QED
  BY <1>1, <1>2, <1>3, <1>4 DEF AppNext

\* A subscriber changes a map it has, or removes one whose tenant is not linked, or marks it.
LEMMA MappedSubscriber ==
    ASSUME RInv, RInv', Mapped, NEW r \in Regions, SubscriberNext(r) PROVE Mapped'
<1> USE DEF appVars, loopVars, deviceVars
<1>0. /\ r \in Threads /\ r # "app" /\ at \in [Threads -> Places] /\ TypeOK
      /\ deviceMap \in [Tenants -> (SUBSET Devices) \cup {NoMap}]
      /\ tenantMap \in [Tenants -> 0..MaxLinks] /\ (r \in held => HeldOK(r))
  BY RegistryAssumption DEF RInv, TypeOK, Threads, Fetchers, Bookkeeping
<1>1. at'["app"] = at["app"]
  <2>1. CASE Take(r)
    BY <1>0, <2>1 DEF Take, Begin, Threads, Fetchers
  <2>2. CASE ~Take(r)
    <3>1. Leave(r) \/ \E l \in Labels : Goto(r, l)
      BY <2>2 DEF SubscriberNext, LoadDevices, LoadDevice, LookedUp, LookupFails, Lookup,
         HandlerReturns, DropTenant, DropDevices, Labels
    <3>2. QED
      BY <1>0, <3>1, Moves DEF Moved, Threads, Fetchers
  <2>3. QED
    BY <2>1, <2>2
<1>2. CASE DropDevices(r)
  <2>1. /\ UNCHANGED tenantMap /\ stale \subseteq stale'
        /\ tenantMap[Tenant(r)] # 0 => Tenant(r) \in stale'
        /\ \A t \in Tenants : t # Tenant(r) => deviceMap'[t] = deviceMap[t]
    BY <1>0, <1>2 DEF DropDevices, ForgetDevices, SetDevices
  <2>2. QED
    BY <1>1, <2>1 DEF Mapped, Pc, Tenant
<1>3. CASE ~DropDevices(r)
  <2>1. stale \subseteq stale' /\ \A t \in Tenants : tenantMap'[t] \in {tenantMap[t], 0}
    BY <1>0, <1>3 DEF SubscriberNext, Take, LoadDevices, LoadDevice, LookedUp, LookupFails,
       Lookup, HandlerReturns, DropTenant, SubStep, Overtake, NoEffect
  <2>2. \/ UNCHANGED deviceMap
        \/ /\ Pc(r) \in {"loadDevice", "lookup"}
           /\ deviceMap' \in {[deviceMap EXCEPT ![Tenant(r)] = @ \ {Msg(r).device}],
                              [deviceMap EXCEPT ![Tenant(r)] = @ \cup {Msg(r).device}]}
    BY <1>3 DEF SubscriberNext, Take, LoadDevices, LoadDevice, LookedUp, LookupFails,
       Lookup, HandlerReturns, DropTenant, Forget, StoreDevice, StoreAlways
  <2>3. \A t \in Tenants : deviceMap[t] # NoMap => deviceMap'[t] # NoMap
    <3>1. CASE UNCHANGED deviceMap
      BY <3>1
    <3>2. CASE Pc(r) \in {"loadDevice", "lookup"} /\ ~UNCHANGED deviceMap
      <4>1. Msg(r).device \in Devices
        <5>1. Msg(r) \in Messages /\ Type(r) # "app:disconnect"
          BY <1>0, <3>2 DEF RInv, Bookkeeping, ThreadOK
        <5>2. QED
          BY <5>1, MessageFields DEF Type
      <4>2. None \notin Devices
        BY RegistryAssumption
      <4>3. ASSUME NEW t \in Tenants, deviceMap[t] # NoMap PROVE deviceMap'[t] \in SUBSET Devices
        BY <1>0, <2>2, <3>2, <4>1, <4>3
      <4>4. QED
        BY <4>2, <4>3 DEF NoMap
    <3>3. QED
      BY <2>2, <3>1, <3>2
  <2>4. QED
    BY <1>1, <2>1, <2>3 DEF Mapped, Pc, Tenant
<1>4. QED
  BY <1>2, <1>3

LEMMA MappedStep ==
    ASSUME RInv, RInv', Mapped, [Next]_vars PROVE Mapped'
<1> USE DEF appVars, loopVars, cloudVars, deviceVars, Pc, Tenant
<1>0. /\ "app" \in Threads /\ at \in [Threads -> Places] /\ "loop" \in Threads
      /\ list["loop"] \in SUBSET Devices
      /\ deviceMap \in [Tenants -> (SUBSET Devices) \cup {NoMap}]
  BY DEF RInv, TypeOK, Threads, Fetchers
<1>1. CASE UNCHANGED vars
  BY <1>1 DEF vars, Mapped
<1>2. CASE AppNext
  BY <1>2, MappedApp
<1>3. CASE LoopNext \/ Reload
  <2>1. at'["app"] = at["app"] /\ UNCHANGED tenantMap
    BY <1>0, <1>3 DEF LoopNext, Reload, Fetched, RangeEnds, ListReloaded, Store, RangeNext, Goto,
       Begin, Leave
  <2>2. CASE UNCHANGED <<deviceMap, stale>>
    BY <2>1, <2>2 DEF Mapped
  <2>3. CASE ListReloaded
    <3>1. /\ deviceMap'[Tenant("loop")] \in {list["loop"], deviceMap[Tenant("loop")]}
          /\ \A t \in Tenants : t = Tenant("loop") => deviceMap'[t] = list["loop"]
          /\ \A t \in Tenants : t # Tenant("loop") =>
               deviceMap'[t] = deviceMap[t] /\ (t \in stale' <=> t \in stale)
      BY <1>0, <2>3 DEF ListReloaded, Store, SetDevices
    <3>2. list["loop"] # NoMap
      BY <1>0, RegistryAssumption DEF NoMap
    <3>3. QED
      BY <2>1, <3>1, <3>2 DEF Mapped
  <2>4. QED
    BY <1>3, <2>2, <2>3 DEF LoopNext, Reload, Fetched, RangeEnds, RangeNext
<1>4. ASSUME NEW t \in Tenants, LinkTenant(t) \/ SetTenant(t) \/ UnlinkTenant(t) PROVE Mapped'
  <2>1. /\ UNCHANGED <<tenantMap, deviceMap, stale>> /\ Pc("app") = "idle"
        /\ Tenant("app")' = t
    BY <1>0, <1>4 DEF LinkTenant, SetTenant, UnlinkTenant, Call, Begin
  <2>2. QED
    BY <2>1 DEF Mapped
<1>5. CASE UNCHANGED <<tenantMap, deviceVars, at>>
  BY <1>5 DEF Mapped
<1>6. ASSUME NEW r \in Regions, SubscriberNext(r) PROVE Mapped'
  BY <1>6, MappedSubscriber
<1>7. QED
  BY <1>1, <1>2, <1>3, <1>4, <1>5, <1>6 DEF Next, CloudUnlinks, Change, DeviceSends, CloudStep

LEMMA CInvStep == CInv /\ [Next]_vars => CInv'
<1> SUFFICES ASSUME RInv, Current, Mapped, [Next]_vars PROVE RInv' /\ Current' /\ Mapped'
  BY DEF CInv
<1>1. RInv'
  BY RInvStep
<1>2. QED
  BY <1>1, CurrentStep, MappedStep

LEMMA CInvInit == Init => CInv
<1>1. Init => Mapped
  BY DEF Init, Mapped
<1>2. QED
  BY <1>1, RInvInit, CurrentInit DEF CInv

\* Nothing about a tenant is under way: nothing is on its way to its map either.
LEMMA SettledIsQuiet ==
    ASSUME CInv, NEW t \in Tenants, Settled(t)
    PROVE  /\ MapOK(t) /\ ~Removing(t) /\ ~Relinking(t) /\ (\A d \in Devices : ~Pending(t, d))
           /\ deviceMap[t] # NoMap => deviceMap[t] \in SUBSET Devices
           /\ cloud[t] \in SUBSET Devices
<1>0. TypeOK /\ Bookkeeping /\ MapOK(t)
  BY DEF CInv, RInv, Current
<1>1. ASSUME NEW r \in Regions
      PROVE  /\ \A d \in Devices : ~Coming(r, t, d) /\ ~InHand(r, t, d)
             /\ ~(Pc(r) = "removeDevices" /\ Tenant(r) = t)
  <2>1. \A k \in 1..Len(stream[r]) : stream[r][k].tenant # t
    BY <1>0 DEF Settled, TypeOK
  <2>2. \A d \in Devices : ~Coming(r, t, d)
    BY <2>1 DEF Coming, Followed, ChangeOf, About
  <2>3. Tenant(r) = t => Pc(r) = "handler"
    BY DEF Settled
  <2>4. Pc(r) # "idle" => Tenant(r) = Msg(r).tenant
    BY <1>0 DEF Bookkeeping, ThreadOK, Threads
  <2>5. QED
    BY <2>2, <2>3, <2>4 DEF InHand, ChangeOf, About
<1>2. ~Removing(t) /\ ~Relinking(t)
  BY <1>1 DEF Removing, Relinking, Settled
<1>3. \A d \in Devices : ~Pending(t, d)
  BY <1>1 DEF Pending
<1>4. QED
  BY <1>0, <1>2, <1>3 DEF TypeOK

\* Once nothing about a linked tenant is under way, the app has a device list of it, and its
\* devices are those of the cloud, however its calls, the reload and the subscribers were
\* interleaved, unless one of the marked races met its map, among them the loss of a new
\* link's list to the app:disconnect of an old one (app.go:526-541, 554-555, 598-602, 836-846,
\* 859-872).
THEOREM DeviceListsCurrent == Spec => []ListsCurrent
<1>1. CInv => ListsCurrent
  <2> SUFFICES ASSUME CInv, NEW t \in Tenants, tenantMap[t] # 0, tenantMap[t] = grant[t],
                      Settled(t), t \notin stale
               PROVE  deviceMap[t] = cloud[t]
    BY DEF ListsCurrent
  <2>0. deviceMap[t] # NoMap
    BY DEF CInv, Mapped, Settled
  <2>1. UpToDate(deviceMap[t], t)
    BY <2>0, SettledIsQuiet DEF MapOK, Linked
  <2>2. \A d \in Devices : d \in deviceMap[t] <=> d \in cloud[t]
    BY <2>1, SettledIsQuiet DEF UpToDate
  <2>3. deviceMap[t] \in SUBSET Devices /\ cloud[t] \in SUBSET Devices
    BY <2>0, SettledIsQuiet
  <2>4. QED
    BY <2>2, <2>3
<1>2. QED
  BY <1>1, CInvInit, CInvStep, PTL DEF Spec

\* Once nothing about a tenant that is not linked is under way, the app holds no devices of it,
\* unless a list was stored for a link removed meanwhile (app.go:551-552, 774-775).
THEOREM NoDevicesLeftOver == Spec => []NoOrphanDevices
<1>1. CInv => NoOrphanDevices
  BY SettledIsQuiet DEF NoOrphanDevices, MapOK
<1>2. QED
  BY <1>1, CInvInit, CInvStep, PTL DEF Spec
=============================================================================
