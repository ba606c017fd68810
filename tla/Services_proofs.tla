---------------------------- MODULE Services_proofs ----------------------------
(***************************************************************************)
(* Proofs about two services that others call at any time: the device      *)
(* plugin, for any devices and any number of goroutines that call          *)
(* SetHealth, and the policy controller, for any specs and any number of   *)
(* changes.                                                                *)
(***************************************************************************)
EXTENDS DevicePlugin, PolicyController, SequenceTheorems, TLAPS

-------------------------------------------------------------------------------
\* The device plugin.

\* A list that was read, sent or received is current, or a token or a setter
\* that will send one announces that it is not.
Announced == updates \/ setter # {}

ListsAnnounced ==
  /\ stream = "send" => list = health \/ Announced
  /\ Connected /\ stream = "wait" => known = health \/ Announced

\* What Allocate has looked at so far is usable, and sick is what it says.
CallSound ==
  /\ \A d \in call.sick : health[d] = "Unhealthy"
  /\ call.state = "checking" => call.asked \ call.ids \subseteq Devices \ call.sick
  /\ call.state = "granted" => call.asked \subseteq Devices \ call.sick

\* A process that is down has no goroutines.
DownIsEmpty == process = "down" => stream = "none" /\ call = NoCall

DevicePluginInv == DevicePluginType /\ ListsAnnounced /\ CallSound /\ DownIsEmpty

\* Every action keeps the types of the plugin's and kubelet's state.
LEMMA TypeStep == DevicePluginType /\ [Next]_vars => DevicePluginType'
<1> SUFFICES ASSUME DevicePluginType, [Next]_vars PROVE DevicePluginType'
  OBVIOUS
<1>t. updates' \in BOOLEAN
  <2>1. CASE New BY <2>1, Zenon DEF New
  <2>2. CASE Killed BY <2>2, Zenon DEF Killed, Exit, DevicePluginType
  <2>3. CASE registerFails BY <2>3, Zenon DEF registerFails, Exit, DevicePluginType
  <2>4. CASE GracefulStop BY <2>4, Zenon DEF GracefulStop, Exit, DevicePluginType
  <2>5. CASE Wake BY <2>5, Zenon DEF Wake
  <2>6. CASE \E s \in Setters : Notify(s) BY <2>6, Zenon DEF Notify
  <2>7. CASE register \/ Signal \/ CheckDevice \/ KubeletAccepts \/ KubeletLeaves
    BY <2>7, Zenon DEF register, Signal, CheckDevice, KubeletAccepts, KubeletLeaves, server, DevicePluginType
  <2>8. CASE KubeletDials \/ deviceList \/ Send \/ Done
    BY <2>8, Zenon DEF KubeletDials, deviceList, Send, Done, DevicePluginType
  <2>9. CASE \E ids \in SUBSET (Devices \cup {Unlisted}) : Allocate(ids)
    BY <2>9, Zenon DEF Allocate, server, DevicePluginType
  <2>10. CASE \E s \in Setters, d \in Devices, h \in Healths : SetHealth(s, d, h)
    BY <2>10, Zenon DEF SetHealth, DevicePluginType
  <2>11. CASE UNCHANGED vars
    BY <2>11, Zenon DEF vars, DevicePluginType
  <2> QED
    BY <2>1, <2>2, <2>3, <2>4, <2>5, <2>6, <2>7, <2>8, <2>9, <2>10, <2>11, Zenon
       DEF Next, ListAndWatch, Kubelet
<1> USE DEF DevicePluginType, Lists, Healths
<1>1. CASE New BY <1>1, <1>t DEF New, AllHealthy
<1>2. CASE registerFails \/ Killed \/ GracefulStop
  BY <1>2, <1>t DEF registerFails, Killed, GracefulStop, Exit, NoCall
<1>3. CASE register \/ Signal \/ KubeletAccepts \/ KubeletDials \/ KubeletLeaves
  BY <1>3, <1>t DEF register, Signal, KubeletAccepts, KubeletDials, KubeletLeaves, server
<1>4. CASE deviceList \/ Wake \/ Done BY <1>4, <1>t DEF deviceList, Wake, Done
<1>5. CASE Send BY <1>5, <1>t DEF Send
<1>6. CASE CheckDevice
  <2>1. call' \in [state : {"idle", "checking", "granted", "refused"},
                   ids : SUBSET (Devices \cup {Unlisted}),
                   asked : SUBSET (Devices \cup {Unlisted}), sick : SUBSET Devices]
    BY <1>6, Zenon DEF CheckDevice
  <2> QED BY <1>6, <1>t, <2>1 DEF CheckDevice, server
<1>7. ASSUME NEW ids \in SUBSET (Devices \cup {Unlisted}), Allocate(ids) PROVE DevicePluginType'
  BY <1>7, <1>t DEF Allocate, server
<1>8. ASSUME NEW s \in Setters, Notify(s) PROVE DevicePluginType'
  BY <1>8, <1>t DEF Notify
<1>9. ASSUME NEW s \in Setters, NEW d \in Devices, NEW h \in Healths, SetHealth(s, d, h)
      PROVE DevicePluginType'
  BY <1>9, <1>t DEF SetHealth
<1>10. CASE UNCHANGED vars BY <1>10, <1>t DEF vars
<1> QED
  BY <1>1, <1>2, <1>3, <1>4, <1>5, <1>6, <1>7, <1>8, <1>9, <1>10 DEF Next, ListAndWatch, Kubelet

\* Exit leaves no stream and no call behind.
LEMMA ExitStep == Exit => (ListsAnnounced /\ CallSound /\ DownIsEmpty)'
BY DEF Exit, ListsAnnounced, CallSound, DownIsEmpty, NoCall, Connected

\* The heart of ListAndWatch and SetHealth: whatever is out of date is
\* announced.
LEMMA AnnouncedStep == DevicePluginInv /\ [Next]_vars => ListsAnnounced'
<1> SUFFICES ASSUME DevicePluginInv, [Next]_vars PROVE ListsAnnounced'
  OBVIOUS
<1> USE DEF DevicePluginInv, ListsAnnounced, Announced, Connected
<1>1. CASE New BY <1>1, Zenon DEF New, DownIsEmpty
<1>2. CASE registerFails \/ Killed \/ GracefulStop
  BY <1>2, ExitStep, Zenon DEF registerFails, Killed, GracefulStop
<1>3. CASE register \/ Signal \/ KubeletAccepts \/ KubeletDials \/ KubeletLeaves
  BY <1>3 DEF register, Signal, KubeletAccepts, KubeletDials, KubeletLeaves, server
<1>4. CASE deviceList \/ Wake \/ Done BY <1>4 DEF deviceList, Wake, Done
<1>5. CASE Send
  <2>1. CASE Connected BY <1>5, <2>1, Zenon DEF Send
  <2>2. CASE ~Connected BY <1>5, <2>2 DEF Send
  <2> QED BY <2>1, <2>2
<1>6. CASE CheckDevice BY <1>6, Zenon DEF CheckDevice, server
<1>7. ASSUME NEW ids \in SUBSET (Devices \cup {Unlisted}), Allocate(ids) PROVE ListsAnnounced'
  BY <1>7, Zenon DEF Allocate, server
<1>8. ASSUME NEW s \in Setters, Notify(s) PROVE ListsAnnounced'
  BY <1>8, Zenon DEF Notify
<1>9. ASSUME NEW s \in Setters, NEW d \in Devices, NEW h \in Healths, SetHealth(s, d, h)
      PROVE ListsAnnounced'
  <2>1. setter' # {} BY <1>9 DEF SetHealth
  <2> QED BY <2>1, Zenon
<1>10. CASE UNCHANGED vars BY <1>10, Zenon DEF vars
<1> QED
  BY <1>1, <1>2, <1>3, <1>4, <1>5, <1>6, <1>7, <1>8, <1>9, <1>10, Zenon
     DEF Next, ListAndWatch, Kubelet

\* A call keeps to what it has checked, while setters change health.
LEMMA CallStep == DevicePluginInv /\ [Next]_vars => CallSound'
<1> SUFFICES ASSUME DevicePluginInv, [Next]_vars PROVE CallSound'
  OBVIOUS
<1> USE DEF DevicePluginInv, CallSound
<1>1. CASE New BY <1>1 DEF New, DownIsEmpty, NoCall
<1>2. CASE registerFails \/ Killed \/ GracefulStop
  BY <1>2, ExitStep, Zenon DEF registerFails, Killed, GracefulStop
<1>3. CASE register \/ Signal \/ KubeletAccepts \/ KubeletDials \/ KubeletLeaves
  BY <1>3 DEF register, Signal, KubeletAccepts, KubeletDials, KubeletLeaves, server
<1>4. CASE ListAndWatch BY <1>4 DEF ListAndWatch, deviceList, Wake, Done, Send
<1>6. CASE CheckDevice
  <2>0. call \in [state : {"idle", "checking", "granted", "refused"},
                  ids : SUBSET (Devices \cup {Unlisted}),
                  asked : SUBSET (Devices \cup {Unlisted}), sick : SUBSET Devices]
    BY DEF DevicePluginType
  <2>h. health' = health BY <1>6 DEF CheckDevice, server
  <2>1. CASE call.ids = {} BY <1>6, <2>0, <2>h, <2>1 DEF CheckDevice
  <2>2. CASE call.ids # {} /\ NextDevice \in Devices /\ health[NextDevice] = "Healthy"
    BY <1>6, <2>0, <2>h, <2>2 DEF CheckDevice
  <2>3. CASE call.ids # {} /\ ~(NextDevice \in Devices /\ health[NextDevice] = "Healthy")
    BY <1>6, <2>0, <2>h, <2>3 DEF CheckDevice
  <2> QED BY <2>1, <2>2, <2>3
<1>7. ASSUME NEW ids \in SUBSET (Devices \cup {Unlisted}), Allocate(ids) PROVE CallSound'
  BY <1>7 DEF Allocate, server
<1>8. ASSUME NEW s \in Setters, Notify(s) PROVE CallSound'
  BY <1>8 DEF Notify
<1>9. ASSUME NEW s \in Setters, NEW d \in Devices, NEW h \in Healths, SetHealth(s, d, h)
      PROVE CallSound'
  BY <1>9 DEF SetHealth, DevicePluginType, Lists
<1>10. CASE UNCHANGED vars BY <1>10 DEF vars
<1> QED
  BY <1>1, <1>2, <1>3, <1>4, <1>6, <1>7, <1>8, <1>9, <1>10, Zenon DEF Next, Kubelet

\* Only New and the kubelet's calls to a running process start anything.
LEMMA DownStep == DevicePluginInv /\ [Next]_vars => DownIsEmpty'
<1> SUFFICES ASSUME DevicePluginInv, [Next]_vars PROVE DownIsEmpty'
  OBVIOUS
<1> USE DEF DevicePluginInv, DownIsEmpty
<1>1. CASE New BY <1>1 DEF New
<1>2. CASE registerFails \/ Killed \/ GracefulStop
  BY <1>2, ExitStep, Zenon DEF registerFails, Killed, GracefulStop
<1>3. CASE register \/ Signal \/ KubeletAccepts \/ KubeletDials \/ KubeletLeaves
  BY <1>3 DEF register, Signal, KubeletAccepts, KubeletDials, KubeletLeaves, server
<1>4. CASE ListAndWatch BY <1>4 DEF ListAndWatch, deviceList, Wake, Done, Send
<1>6. CASE CheckDevice BY <1>6 DEF CheckDevice, server, NoCall
<1>7. ASSUME NEW ids \in SUBSET (Devices \cup {Unlisted}), Allocate(ids) PROVE DownIsEmpty'
  BY <1>7 DEF Allocate, server
<1>8. ASSUME NEW s \in Setters, Notify(s) PROVE DownIsEmpty'
  BY <1>8 DEF Notify
<1>9. ASSUME NEW s \in Setters, NEW d \in Devices, NEW h \in Healths, SetHealth(s, d, h)
      PROVE DownIsEmpty'
  BY <1>9 DEF SetHealth
<1>10. CASE UNCHANGED vars BY <1>10 DEF vars
<1> QED
  BY <1>1, <1>2, <1>3, <1>4, <1>6, <1>7, <1>8, <1>9, <1>10, Zenon DEF Next, Kubelet

\* DevicePluginInv is an inductive invariant.
LEMMA DevicePluginInvariant == Spec => []DevicePluginInv
<1>1. Init => DevicePluginInv
  <2> SUFFICES ASSUME Init PROVE DevicePluginInv
    OBVIOUS
  <2>1. updates \in BOOLEAN BY Zenon DEF Init
  <2>2. DevicePluginType
    BY <2>1 DEF Init, DevicePluginType, AllHealthy, NoCall, Lists, Healths
  <2>3. ListsAnnounced /\ CallSound /\ DownIsEmpty
    BY DEF Init, ListsAnnounced, CallSound, DownIsEmpty, NoCall
  <2> QED BY <2>2, <2>3 DEF DevicePluginInv
<1>2. DevicePluginInv /\ [Next]_vars => DevicePluginInv'
  BY TypeStep, AnnouncedStep, CallStep, DownStep, Zenon DEF DevicePluginInv
<1> QED BY <1>1, <1>2, PTL DEF Spec

\* The plugin's and kubelet's state keeps its type, for any devices and any
\* number of goroutines that call SetHealth.
THEOREM DevicePluginTyped == Spec => []DevicePluginType
<1>1. DevicePluginInv => DevicePluginType BY DEF DevicePluginInv
<1> QED BY DevicePluginInvariant, <1>1, PTL

\* The one-slot channel loses no health change: when ListAndWatch waits, the
\* channel is empty and no SetHealth is under way, kubelet has every device's
\* current health.
THEOREM UpdatesNotLost == Spec => []NoLostUpdate
<1>1. DevicePluginInv => NoLostUpdate
  BY Zenon DEF DevicePluginInv, ListsAnnounced, Announced, NoLostUpdate
<1> QED BY DevicePluginInvariant, <1>1, PTL

\* Allocate grants only devices the plugin has and that were Healthy at some
\* time during the call.
THEOREM GrantsUsable == Spec => []GrantedIsUsable
<1>1. DevicePluginInv => GrantedIsUsable
  BY DEF DevicePluginInv, CallSound, GrantedIsUsable
<1> QED BY DevicePluginInvariant, <1>1, PTL

-------------------------------------------------------------------------------
\* The policy controller.

\* What a sync remembers of the template explains what it writes over: nothing
\* when it creates, and a template it may replace when it updates.
SyncKnows ==
  /\ sync.step = "create" => sync.existing = Nobody
  /\ sync.step = "update" =>
       sync.existing # Nobody /\ Managed(sync.existing, sync.policy)
  /\ sync.step \in {"create", "update"} => sync.policy.spec \in Specs

PolicyControllerInv == PolicyControllerType /\ SyncKnows

USE PolicyControllerAssumption

\* Nothing is there and no sync is under way.
LEMMA InitInv == ControllerInit => PolicyControllerInv
<1> SUFFICES ASSUME ControllerInit PROVE PolicyControllerInv
  OBVIOUS
<1>1. queued \in BOOLEAN /\ watch \in Seq(Policy \cup {Nobody})
  BY EmptySeq, Zenon DEF ControllerInit
<1>2. changes \in 0..MaxChanges
  BY DEF ControllerInit
<1>3. SyncKnows
  BY DEF ControllerInit, SyncKnows, NotSyncing
<1> QED
  BY <1>1, <1>2, <1>3, Zenon DEF ControllerInit, PolicyControllerInv, PolicyControllerType

\* SyncDone and Fail end a sync, and Call goes on with what is stored.
LEMMA SyncEnds ==
  PolicyControllerInv /\ (SyncDone \/ Fail) =>
    sync' = NotSyncing /\ queued' \in BOOLEAN /\ SyncKnows'
<1> SUFFICES ASSUME PolicyControllerInv, SyncDone \/ Fail
             PROVE  sync' = NotSyncing /\ queued' \in BOOLEAN /\ SyncKnows'
  OBVIOUS
<1>1. sync' = NotSyncing
  BY DEF SyncDone, Fail
<1>2. queued' \in BOOLEAN
  BY Zenon DEF SyncDone, Fail, PolicyControllerInv, PolicyControllerType
<1>3. SyncKnows'
  BY <1>1 DEF SyncKnows, NotSyncing
<1> QED
  BY <1>1, <1>2, <1>3

\* The template for a policy with DRA parameters is a template.
LEMMA DesiredType ==
  ASSUME NEW p \in Policy, p.spec \in Specs
  PROVE  /\ ResourceClaimTemplateForPolicy(p) \in Template
         /\ Managed(ResourceClaimTemplateForPolicy(p), p)
  BY DEF Policy, Template, ResourceClaimTemplateForPolicy, Managed

\* The steps of sync.
LEMMA SyncInv ==
  PolicyControllerInv /\ (SyncStep \/ SyncFails) => PolicyControllerInv'
<1> SUFFICES ASSUME PolicyControllerInv, SyncStep \/ SyncFails
             PROVE  PolicyControllerInv'
  OBVIOUS
<1>1. CASE SyncStart
  BY <1>1, Zenon DEF SyncStart, PolicyControllerInv, PolicyControllerType, SyncKnows, NotSyncing
<1>2. CASE SyncGet
  <2>1. sync \in [step : {"get", "delete", "create", "update"}, policy : Policy,
                  existing : Template \cup {Nobody}]
    BY <1>2 DEF SyncGet, PolicyControllerInv, PolicyControllerType, NotSyncing
  <2>2. CASE SyncDone \/ Fail
    BY <1>2, <2>2, SyncEnds DEF SyncGet, PolicyControllerInv, PolicyControllerType
  <2>3. CASE Call("delete")
    BY <1>2, <2>1, <2>3, Zenon DEF SyncGet, Call, PolicyControllerInv, PolicyControllerType, SyncKnows
  <2>4. CASE Call("create") /\ template = Nobody /\ sync.policy.spec # NoDRA
    BY <1>2, <2>1, <2>4, Zenon DEF SyncGet, Call, PolicyControllerInv, PolicyControllerType, SyncKnows, Policy
  <2>5. CASE /\ Call("update") /\ sync.policy.spec # NoDRA
             /\ template # Nobody /\ Managed(template, sync.policy)
    BY <1>2, <2>1, <2>5, Zenon DEF SyncGet, Call, PolicyControllerInv, PolicyControllerType, SyncKnows,
       Policy, Managed
  <2> QED
    BY <1>2, <2>2, <2>3, <2>4, <2>5 DEF SyncGet
<1>3. CASE SyncDelete
  BY <1>3, SyncEnds DEF SyncDelete, PolicyControllerInv, PolicyControllerType
<1>4. CASE SyncWrite
  <2>1. sync.policy \in Policy /\ sync.policy.spec \in Specs
    BY <1>4 DEF SyncWrite, PolicyControllerInv, PolicyControllerType, SyncKnows, NotSyncing
  <2> QED
    BY <1>4, <2>1, SyncEnds, DesiredType
    DEF SyncWrite, PolicyControllerInv, PolicyControllerType
<1>5. CASE SyncFails
  BY <1>5, SyncEnds DEF SyncFails, PolicyControllerInv, PolicyControllerType
<1> QED
  BY <1>1, <1>2, <1>3, <1>4, <1>5 DEF SyncStep

\* The informer's events and a restart.
LEMMA InformerInv ==
  PolicyControllerInv /\ (Deliver \/ Relist \/ Resync \/ Restart) => PolicyControllerInv'
<1> SUFFICES ASSUME PolicyControllerInv, Deliver \/ Relist \/ Resync \/ Restart
             PROVE  PolicyControllerInv'
  OBVIOUS
<1> USE DEF PolicyControllerInv, PolicyControllerType, SyncKnows
<1>1. CASE Deliver
  <2>1. Head(watch) \in Policy \cup {Nobody} /\ Tail(watch) \in Seq(Policy \cup {Nobody})
    BY <1>1, HeadTailProperties DEF Deliver
  <2> QED
    BY <1>1, <2>1 DEF Deliver
<1>2. CASE Relist
  BY <1>2, EmptySeq DEF Relist
<1>3. CASE Resync
  BY <1>3 DEF Resync
<1>4. CASE Restart
  <2>1. watch' \in Seq(Policy \cup {Nobody})
    <3>1. ASSUME policy \in Policy PROVE <<policy>> \in Seq(Policy \cup {Nobody})
      BY <3>1
    <3> QED
      BY <1>4, <3>1, EmptySeq, Zenon DEF Restart
  <2> QED
    BY <1>4, <2>1, Zenon DEF Restart, NotSyncing
<1> QED
  BY <1>1, <1>2, <1>3, <1>4

\* What operators and the garbage collector do.
LEMMA OutsideInv ==
  PolicyControllerInv /\ (PolicyChange \/ TemplateChange \/ GarbageCollect)
    => PolicyControllerInv'
<1> SUFFICES ASSUME PolicyControllerInv, PolicyChange \/ TemplateChange \/ GarbageCollect
             PROVE  PolicyControllerInv'
  OBVIOUS
<1> USE DEF PolicyControllerInv, PolicyControllerType, SyncKnows
<1>1. CASE PolicyChange
  <2>1. changes' \in 0..MaxChanges /\ changes' \in Nat \ {0}
    BY <1>1 DEF PolicyChange, Change
  <2>2. policy' \in Policy \cup {Nobody}
    <3>1. CASE policy' = Nobody
      BY <3>1
    <3>2. ASSUME NEW spec \in Specs \cup {NoDRA}, policy' = [uid |-> changes', spec |-> spec]
          PROVE  policy' \in Policy
      BY <2>1, <3>2 DEF Policy
    <3>3. ASSUME NEW spec \in Specs \cup {NoDRA}, policy \in Policy,
                 policy' = [policy EXCEPT !.spec = spec]
          PROVE  policy' \in Policy
      BY <3>3 DEF Policy
    <3>4. QED  BY <1>1, <3>1, <3>2, <3>3, SMTT(30) DEF PolicyChange
  <2>3. watch' \in Seq(Policy \cup {Nobody})
    BY <1>1, <2>2, AppendProperties DEF PolicyChange
  <2> QED
    BY <1>1, <2>1, <2>2, <2>3 DEF PolicyChange
<1>2. CASE TemplateChange
  <2>1. changes' \in 0..MaxChanges
    BY <1>2 DEF TemplateChange, Change
  <2>2. template' \in Template \cup {Nobody}
    <3>1. ASSUME NEW spec \in Specs,
                 template' = [label |-> "other", owner |-> 0, extra |-> FALSE, spec |-> spec]
          PROVE  template' \in Template
      BY <3>1, Zenon DEF Template
    <3>2. ASSUME template \in Template,
                 \/ template' = [template EXCEPT !.extra = ~@]
                 \/ template' = [template EXCEPT !.label = "other"]
          PROVE  template' \in Template
      BY <3>2, Zenon DEF Template
    <3> QED
      BY <1>2, <3>1, <3>2, Zenon DEF TemplateChange
  <2> QED
    BY <1>2, <2>1, <2>2 DEF TemplateChange
<1>3. CASE GarbageCollect
  BY <1>3 DEF GarbageCollect
<1> QED
  BY <1>1, <1>2, <1>3

\* Every step preserves the invariant.
LEMMA NextInv == PolicyControllerInv /\ [ControllerNext]_controllerVars => PolicyControllerInv'
<1>1. PolicyControllerInv /\ UNCHANGED controllerVars => PolicyControllerInv'
  BY DEF controllerVars, PolicyControllerInv, PolicyControllerType, SyncKnows
<1> QED
  BY <1>1, SyncInv, InformerInv, OutsideInv DEF ControllerNext

\* The controller's state has its types, and a sync that is about to write knows
\* that it writes over nothing or over a template of its own.
THEOREM PolicyControllerCorrect == ControllerSpec => [](PolicyControllerType /\ SyncKnows)
<1> QED
  BY InitInv, NextInv, PTL DEF ControllerSpec, PolicyControllerInv

\* No write of sync replaces a template that is not the controller's and the
\* policy's own, whatever others did to it since sync looked.
THEOREM ForeignTemplatesSafe == ControllerSpec => ForeignTemplatesKept
<1> DEFINE Kept ==
      SyncStep /\ template # Nobody /\ template' \notin {template, Nobody}
        => Managed(template, sync.policy) /\ Managed(template', sync.policy)
<1>1. PolicyControllerInv /\ [ControllerNext]_controllerVars => [Kept]_controllerVars
  <2> SUFFICES ASSUME PolicyControllerInv, SyncStep, template # Nobody,
                      template' \notin {template, Nobody}
               PROVE  Managed(template, sync.policy) /\ Managed(template', sync.policy)
    OBVIOUS
  <2>1. SyncWrite /\ template = sync.existing
    BY DEF SyncStep, SyncStart, SyncGet, SyncDelete, SyncWrite
  <2>2. sync.step = "update"
    BY <2>1 DEF SyncWrite, PolicyControllerInv, SyncKnows
  <2>3. sync.policy \in Policy /\ sync.policy.spec \in Specs
    BY <2>2 DEF PolicyControllerInv, PolicyControllerType, SyncKnows, NotSyncing
  <2>4. template' = ResourceClaimTemplateForPolicy(sync.policy)
    BY <2>1 DEF SyncWrite
  <2> QED
    BY <2>1, <2>2, <2>3, <2>4, DesiredType DEF PolicyControllerInv, SyncKnows
<1> QED
  BY <1>1, InitInv, NextInv, PTL DEF ControllerSpec, ForeignTemplatesKept
===============================================================================
