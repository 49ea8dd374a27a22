--------------------------- MODULE TenantRegistry ---------------------------
(***************************************************************************)
(* The tenants and devices an App knows (app.go, tenant.go).  The          *)
(* application links and unlinks tenants, the subscriber of each region    *)
(* handles control and data messages, and the connect loop reloads the     *)
(* device lists: three kinds of threads over tenantMap and deviceMap, each *)
(* access to a map atomic and nothing else, with HTTP requests in between. *)
(*                                                                         *)
(* A *Tenant is the number of the link it stands for.  A device map that   *)
(* was replaced can be written, not seen: held says which one a subscriber *)
(* has.  What is fetched about a device besides that it exists is left     *)
(* out, and so is a message that cannot be parsed or misses a field.       *)
(*                                                                         *)
(* The App is the only member of its group.  Where there are others each   *)
(* message goes to one of them (app.go:118-128, 597): what is said below   *)
(* of the device lists is said of an App that gets every message.          *)
(***************************************************************************)
EXTENDS Naturals, Sequences

CONSTANTS
    Tenants, Devices, Regions,
    Home,       \* the region whose stream carries a device's messages
    MaxLinks, MaxChanges, MaxReloads    \* bounds on the environment

None == "none"

ASSUME RegistryAssumption ==
    /\ Home \in [Devices -> Regions]
    /\ {"app", "loop"} \cap Regions = {} /\ None \notin Tenants \cup Devices
    /\ MaxLinks \in Nat \ {0} /\ MaxChanges \in Nat /\ MaxReloads \in Nat

NoMap == {None}   \* no entry in deviceMap: not a set of devices
Fetchers == {"app", "loop"}
Threads == Fetchers \cup Regions

VARIABLES
    tenantMap,  \* the link each tenant is known by, 0 when absent
    deviceMap,  \* its devices, or NoMap
    started,    \* startPubsubConnectOnce
    at,         \* where each thread is, for which tenant, link and message
    list,       \* the device list each fetcher holds
    call,       \* the application's call
    result,     \* what its last call returned
    todo,       \* tenants the loop's Range has yet to visit
    held,       \* subscribers that hold a map which is still the one in deviceMap
    cloud, grant, stream, links,    \* the cloud's devices, links and streams
    changes, reloads,   \* counters of the environment
    late, stale \* history: lists a message has overtaken, tenants whose map may lag

appVars == <<call, result, started>>
loopVars == <<todo, reloads>>
cloudVars == <<cloud, grant, stream, links, changes>>
deviceVars == <<deviceMap, held, late, stale>>
vars == <<tenantMap, deviceVars, at, list, appVars, loopVars, cloudVars>>

Idle == [pc |-> "idle", tenant |-> None, link |-> 0, msg |-> <<>>]

Init ==
    /\ tenantMap = [t \in Tenants |-> 0] /\ deviceMap = [t \in Tenants |-> NoMap]
    /\ at = [th \in Threads |-> Idle]
    /\ list = [f \in Fetchers |-> {}]
    /\ call = "none" /\ result = "none" /\ started = FALSE /\ todo = {}
    /\ held = {}
    /\ cloud \in [Tenants -> SUBSET Devices] /\ grant \in [Tenants -> {0, 1}]
    /\ stream = [r \in Regions |-> <<>>]
    /\ links = 1 /\ changes = 0 /\ reloads = 0
    /\ late = {} /\ stale = {}

Pc(th) == at[th].pc
Tenant(th) == at[th].tenant
Msg(r) == at[r].msg
Begin(th, label, t, k, m) ==
    at' = [at EXCEPT ![th] = [pc |-> label, tenant |-> t, link |-> k, msg |-> m]]
Goto(th, label) == at' = [at EXCEPT ![th].pc = label]
Leave(th) == at' = [at EXCEPT ![th] = Idle]

\* deviceMap.Store and deviceMap.Delete: the map a subscriber loaded is no longer there.
SetDevices(t, devices) ==
    /\ deviceMap' = [deviceMap EXCEPT ![t] = devices]
    /\ held' = {r \in held : Tenant(r) # t}

\* Its mutant leaves the list of a tenant that is unlinked.
KeepDevices(t) == UNCHANGED <<deviceMap, held>>
ForgetDevices(t) == SetDevices(t, NoMap)

-----------------------------------------------------------------------------
(* The cloud, as far as the App sees it. *)

CloudStep ==
    /\ changes < MaxChanges /\ changes' = changes + 1
    /\ UNCHANGED <<tenantMap, deviceVars, at, list, appVars, loopVars, links>>

Send(r, m) == stream' = [stream EXCEPT ![r] = Append(@, m)]
DeviceMessage(type, t, d) ==
    [type |-> type, tenant |-> t, device |-> d, link |-> grant[t]]

\* A device is enrolled or withdrawn; the app is told if the tenant is linked.
Change(t, d) ==
    /\ CloudStep
    /\ cloud' = [cloud EXCEPT ![t] = IF d \in @ THEN @ \ {d} ELSE @ \cup {d}]
    /\ IF grant[t] = 0 THEN UNCHANGED stream
       ELSE Send(Home[d], DeviceMessage(
                IF d \in cloud[t] THEN "device:deactivate" ELSE "device:activate", t, d))
    /\ UNCHANGED grant

DeviceSends(t, d) ==
    /\ CloudStep
    /\ grant[t] # 0 /\ d \in cloud[t]
    /\ Send(Home[d], DeviceMessage("data", t, d))
    /\ UNCHANGED <<cloud, grant>>

\* The link of t ends and the app is told, on one of its streams.
EndLink(t, byApp) ==
    /\ grant[t] # 0
    /\ grant' = [grant EXCEPT ![t] = 0]
    /\ \E r \in Regions : Send(r, [type |-> "app:disconnect", tenant |-> t,
                                   link |-> grant[t], byApp |-> byApp])

CloudUnlinks(t) == CloudStep /\ EndLink(t, FALSE) /\ UNCHANGED cloud

-----------------------------------------------------------------------------
(* The application's calls. *)

Call(name, label, t, k) ==
    /\ Pc("app") = "idle" /\ Begin("app", label, t, k, <<>>)
    /\ call' = name /\ result' = "none"
    /\ UNCHANGED <<tenantMap, deviceVars, list, started, loopVars, cloud, stream,
                   changes>>

\* The POST that redeems the OTP has made the link.  When it fails the app knows of no link.
LinkTenant(t) ==
    /\ grant[t] = 0 /\ links < MaxLinks
    /\ links' = links + 1 /\ grant' = [grant EXCEPT ![t] = links + 1]
    /\ Call("LinkTenant", "setTenant", t, links + 1)

\* After a restart, with the stored token of the link; the fetch may fail all the same.
SetTenant(t) ==
    /\ grant[t] # 0
    /\ Call("SetTenant", "setTenant", t, grant[t]) /\ UNCHANGED <<grant, links>>

UnlinkTenant(t) ==
    /\ Call("UnlinkTenant", "removeTenant", t, tenantMap[t]) /\ UNCHANGED <<grant, links>>

AppStep(label, next) ==
    /\ Pc("app") = label
    /\ IF next = "idle" THEN Leave("app") /\ call' = "none"
       ELSE Goto("app", next) /\ UNCHANGED call
    /\ UNCHANGED loopVars
Returns(r) == result' = r

StoreTenant ==
    /\ AppStep("setTenant", "fetch")
    /\ tenantMap' = [tenantMap EXCEPT ![Tenant("app")] = at["app"].link]
    /\ UNCHANGED <<deviceVars, list, result, started, cloudVars>>

\* SetTenant leaves the tenant in the map, without a list if it had none; LinkTenant unlinks it.
FetchFails ==
    LET t == Tenant("app") IN
    /\ AppStep("fetch", IF call = "LinkTenant" THEN "removeTenant" ELSE "idle")
    /\ Returns(IF call = "LinkTenant" THEN "none" ELSE "error")
    /\ stale' = IF call # "LinkTenant" /\ deviceMap[t] = NoMap THEN stale \cup {t} ELSE stale
    /\ UNCHANGED <<tenantMap, deviceMap, held, late, list, started, cloudVars>>

\* UnlinkTenant, in the order of the code.  Its mutant leaves the tenant in the map.
KeepTenant == UNCHANGED tenantMap
DeleteTenant == tenantMap' = [tenantMap EXCEPT ![Tenant("app")] = 0]

RemoveTenant ==
    /\ AppStep("removeTenant", "removeDevices")
    /\ DeleteTenant
    /\ UNCHANGED <<deviceVars, list, result, started, cloudVars>>

RemoveDevices ==
    /\ AppStep("removeDevices", "delete")
    /\ ForgetDevices(Tenant("app"))
    /\ UNCHANGED <<tenantMap, list, result, started, late, stale, cloudVars>>

\* The DELETE succeeds, or fails with or without ending the link.  LinkTenant returns the
\* error of UnlinkTenant in place of its own.
Deleted ==
    /\ AppStep("delete", "idle")
    /\ \/ /\ EndLink(Tenant("app"), TRUE)
          /\ Returns(IF call = "LinkTenant" THEN "nothing" ELSE "unlinked")
       \/ EndLink(Tenant("app"), TRUE) /\ Returns("error")
       \/ UNCHANGED <<grant, stream>> /\ Returns("error")
    /\ UNCHANGED <<tenantMap, deviceVars, list, started, cloud, links, changes>>

-----------------------------------------------------------------------------
(* Device lists: setTenant and loadTenantsDevices. *)

\* The GET is answered with the devices of the tenant, if the link is still valid.
Fetched(f) ==
    /\ Pc(f) = "fetch" /\ grant[Tenant(f)] = at[f].link
    /\ list' = [list EXCEPT ![f] = cloud[Tenant(f)]]
    /\ late' = late \ {f}
    /\ Goto(f, "store")
    /\ UNCHANGED <<tenantMap, deviceMap, held, stale, appVars, loopVars, cloudVars>>

\* A list that a message has overtaken, or of a link that is gone, may lag behind.
Store(f) ==
    LET t == Tenant(f) IN
    /\ Pc(f) = "store"
    /\ SetDevices(t, list[f])
    /\ stale' = IF f \in late \/ tenantMap[t] # at[f].link THEN stale \cup {t} ELSE stale \ {t}
    /\ late' = late \ {f} /\ list' = [list EXCEPT ![f] = {}]
    /\ UNCHANGED <<tenantMap, cloudVars>>

TenantSet ==
    /\ Store("app") /\ AppStep("store", "idle") /\ Returns("tenant")
    /\ started' = TRUE

Reload ==
    /\ started /\ Pc("loop") = "idle"
    /\ reloads < MaxReloads /\ reloads' = reloads + 1
    /\ todo' = {t \in Tenants : tenantMap[t] # 0}
    /\ Goto("loop", "range")
    /\ UNCHANGED <<tenantMap, deviceVars, list, appVars, cloudVars>>

\* A tenant removed before the Range reaches it is not visited; removed before the Load that
\* follows, it ends the Range.
RangeNext(t) ==
    /\ Pc("loop") = "range" /\ t \in todo
    /\ \/ tenantMap[t] # 0 /\ Begin("loop", "fetch", t, tenantMap[t], <<>>) /\ todo' = todo \ {t}
       \/ tenantMap[t] = 0 /\ UNCHANGED at /\ todo' = todo \ {t}
       \/ tenantMap[t] = 0 /\ Leave("loop") /\ todo' = {}
    /\ UNCHANGED <<tenantMap, deviceVars, list, appVars, reloads, cloudVars>>

\* The Range is over, or a list cannot be fetched and the tenants left are not reloaded.
RangeEnds ==
    /\ Pc("loop") \in {"range", "fetch"} /\ (Pc("loop") = "range" => todo = {})
    /\ Leave("loop") /\ todo' = {}
    /\ UNCHANGED <<tenantMap, deviceVars, list, appVars, reloads, cloudVars>>

\* DeviceActivationHandler has been called for each device of the list.
ListReloaded ==
    /\ Store("loop") /\ Goto("loop", "range")
    /\ UNCHANGED <<appVars, loopVars>>

-----------------------------------------------------------------------------
(* The subscriber of region r: readStreamHandler. *)

Type(r) == Msg(r).type

\* A message of t takes effect: it overtakes the lists already fetched.  lost says that the
\* effect does not reach the map.
Overtake(t, lost) ==
    /\ late' = late \cup {f \in Fetchers : Pc(f) = "store" /\ Tenant(f) = t}
    /\ stale' = IF lost THEN stale \cup {t} ELSE stale
NoEffect == UNCHANGED <<late, stale>>
\* The message was sent to an earlier link of its tenant.
OldLink(r) == Msg(r).link # tenantMap[Tenant(r)]
SubStep == UNCHANGED <<list, appVars, loopVars, cloud, grant, links, changes>>

\* The next message; it is dropped when its tenant is not in the map.
Take(r) ==
    /\ started /\ Pc(r) = "idle" /\ stream[r] # <<>>
    /\ stream' = [stream EXCEPT ![r] = Tail(@)]
    /\ LET m == Head(stream[r])  k == tenantMap[m.tenant] IN
       IF k = 0
         THEN /\ Overtake(m.tenant, FALSE) /\ UNCHANGED at
         ELSE Begin(r, "loadDevices", m.tenant, k, m) /\ NoEffect
    /\ SubStep /\ UNCHANGED <<tenantMap, deviceMap, held>>

\* The device map is loaded.
LoadDevices(r) ==
    LET t == Tenant(r) IN
    /\ Pc(r) = "loadDevices"
    /\ IF deviceMap[t] = NoMap
         THEN Leave(r) /\ Overtake(t, FALSE) /\ UNCHANGED held
         ELSE /\ Goto(r, CASE Type(r) = "app:disconnect" -> "removeTenant"
                            [] Type(r) = "device:activate" -> "lookup"
                            [] OTHER -> "loadDevice")
              /\ held' = IF Type(r) = "app:disconnect" THEN held ELSE held \cup {r}
              /\ NoEffect
    /\ SubStep /\ UNCHANGED <<tenantMap, deviceMap, stream>>

\* Its mutant leaves a deactivated device in the map.
Keep(r) == UNCHANGED deviceMap
Forget(r) ==
    deviceMap' = IF r \in held THEN [deviceMap EXCEPT ![Tenant(r)] = @ \ {Msg(r).device}]
                 ELSE deviceMap

\* The device is loaded from that map, which may have been replaced; deactivate deletes it.
LoadDevice(r) ==
    /\ Pc(r) = "loadDevice"
    /\ \E found \in BOOLEAN :
         /\ r \in held => found = (Msg(r).device \in deviceMap[Tenant(r)])
         /\ Goto(r, IF found THEN "handler" ELSE "lookup")
         /\ held' = IF found THEN held \ {r} ELSE held
    /\ IF Type(r) = "data" THEN UNCHANGED deviceMap /\ NoEffect
       ELSE Forget(r) /\ Overtake(Tenant(r), r \notin held \/ OldLink(r))
    /\ SubStep /\ UNCHANGED <<tenantMap, stream>>

Lookup(r) ==
    /\ Pc(r) = "lookup" /\ held' = held \ {r}
    /\ SubStep /\ UNCHANGED <<tenantMap, stream>>

\* deviceMap.Store goes to the map that was loaded, which may have been replaced or removed.
\* Its mutant stores in the one that is there now.
StoreAlways(r) == deviceMap' = [deviceMap EXCEPT ![Tenant(r)] = @ \cup {Msg(r).device}]
StoreDevice(r) == IF r \in held THEN StoreAlways(r) ELSE UNCHANGED deviceMap

\* getDeviceByID succeeds while the link is valid; activate and data store the device.
LookedUp(r) ==
    LET t == Tenant(r)  stores == Type(r) # "device:deactivate" IN
    /\ Lookup(r) /\ grant[t] = at[r].link
    /\ Goto(r, "handler")
    /\ IF stores THEN StoreDevice(r) /\ Overtake(t, r \notin held \/ OldLink(r))
       ELSE UNCHANGED deviceMap /\ NoEffect

LookupFails(r) ==
    /\ Lookup(r) /\ Leave(r)
    /\ IF Type(r) = "device:activate" THEN Overtake(Tenant(r), TRUE) ELSE NoEffect
    /\ UNCHANGED deviceMap

\* The handler of the application returns.
HandlerReturns(r) ==
    /\ Pc(r) = "handler" /\ Leave(r)
    /\ SubStep /\ UNCHANGED <<tenantMap, deviceVars, stream>>

\* app:disconnect removes both entries, then calls TenantUnlinkedHandler.
DropTenant(r) ==
    /\ Pc(r) = "removeTenant" /\ Goto(r, "removeDevices")
    /\ tenantMap' = [tenantMap EXCEPT ![Tenant(r)] = 0]
    /\ SubStep /\ UNCHANGED <<deviceVars, stream>>

\* A tenant linked again since DropTenant loses the list of its new link.
DropDevices(r) ==
    LET t == Tenant(r) IN
    /\ Pc(r) = "removeDevices" /\ Goto(r, "handler")
    /\ ForgetDevices(t)
    /\ stale' = IF tenantMap[t] # 0 THEN stale \cup {t} ELSE stale
    /\ SubStep /\ UNCHANGED <<tenantMap, late, stream>>

-----------------------------------------------------------------------------
AppNext ==
    \/ StoreTenant \/ Fetched("app") \/ FetchFails \/ TenantSet
    \/ RemoveTenant \/ RemoveDevices \/ Deleted
LoopNext ==
    \/ Fetched("loop") \/ RangeEnds \/ ListReloaded
    \/ \E t \in Tenants : RangeNext(t)
SubscriberNext(r) ==
    \/ Take(r) \/ LoadDevices(r) \/ LoadDevice(r) \/ LookedUp(r) \/ LookupFails(r)
    \/ DropTenant(r) \/ DropDevices(r)
    \/ HandlerReturns(r)

Next ==
    \/ AppNext \/ LoopNext \/ Reload
    \/ \E t \in Tenants :
         \/ LinkTenant(t) \/ SetTenant(t) \/ UnlinkTenant(t) \/ CloudUnlinks(t)
         \/ \E d \in Devices : Change(t, d) \/ DeviceSends(t, d)
    \/ \E r \in Regions : SubscriberNext(r)

Spec == Init /\ [][Next]_vars

-----------------------------------------------------------------------------
Messages == UNION {
    [type : {"device:activate", "device:deactivate", "data"}, tenant : Tenants,
     device : Devices, link : 1..MaxLinks],
    [type : {"app:disconnect"}, tenant : Tenants, link : 1..MaxLinks, byApp : BOOLEAN]}
Labels == {"idle", "setTenant", "fetch", "store", "removeTenant", "removeDevices", "delete",
           "range", "loadDevices", "loadDevice", "lookup", "handler"}
Places == [pc : Labels, tenant : Tenants \cup {None}, link : 0..MaxLinks,
           msg : Messages \cup {<<>>}]

\* Type invariant.
TypeOK ==
    /\ tenantMap \in [Tenants -> 0..MaxLinks]
    /\ deviceMap \in [Tenants -> (SUBSET Devices) \cup {NoMap}]
    /\ at \in [Threads -> Places]
    /\ list \in [Fetchers -> SUBSET Devices]
    /\ call \in {"none", "LinkTenant", "SetTenant", "UnlinkTenant"}
    /\ result \in {"none", "tenant", "error", "unlinked", "nothing"}
    /\ started \in BOOLEAN /\ todo \subseteq Tenants
    /\ held \subseteq Regions
    /\ cloud \in [Tenants -> SUBSET Devices] /\ grant \in [Tenants -> 0..MaxLinks]
    /\ stream \in [Regions -> Seq(Messages)]
    /\ links \in 1..MaxLinks /\ changes \in 0..MaxChanges /\ reloads \in 0..MaxReloads
    /\ late \subseteq Fetchers /\ stale \subseteq Tenants

\* Nothing about t is under way: no call of the application, no message.
Settled(t) ==
    /\ Tenant("app") # t
    /\ \A r \in Regions :
         /\ \A k \in DOMAIN stream[r] : stream[r][k].tenant # t
         /\ Tenant(r) = t => Pc(r) = "handler"

\* A linked tenant has a device list, the cloud's, once nothing about it is under way.  The
\* races excepted are those that set stale, until a list is next stored in time: a list that
\* a message has overtaken was stored; a message of an earlier link was applied; the look-up
\* of an activated device failed or came to a map already replaced; SetTenant could not fetch
\* a first list; app:disconnect deleted the list of a link made between its two deletions
\* (app.go:526-541, 554-555, 598-602, 836-846, 859-872).
ListsCurrent ==
    \A t \in Tenants :
        tenantMap[t] # 0 /\ tenantMap[t] = grant[t] /\ Settled(t) /\ t \notin stale
            => deviceMap[t] = cloud[t]

\* Once nothing about it is under way, a tenant that is not linked has no device list, except
\* where a list was stored for a link removed meanwhile (app.go:551-552, 774-775).
NoOrphanDevices ==
    \A t \in Tenants :
        tenantMap[t] = 0 /\ Settled(t) /\ t \notin stale => deviceMap[t] = NoMap

\* The app:disconnect that follows the application's own UnlinkTenant never reports that
\* link to TenantUnlinkedHandler: it was removed from the map first (app.go:774).
UnlinkNotCalledBack ==
    \A r \in Regions :
        Pc(r) = "handler" /\ Type(r) = "app:disconnect" /\ Msg(r).byApp
            => at[r].link # Msg(r).link

\* LinkTenant returns a tenant or an error (app.go:731-733).
LinkResult == result # "nothing"
=============================================================================
