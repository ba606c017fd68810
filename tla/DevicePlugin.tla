------------------------------ MODULE DevicePlugin ------------------------------
(***************************************************************************)
(* The synthetic device plugin (pkg/deviceplugin/plugin.go): a process     *)
(* that registers once with kubelet, streams its device list to kubelet    *)
(* (ListAndWatch), answers Allocate, and is told of health changes         *)
(* (SetHealth) by goroutines of its own.                                   *)
(*                                                                         *)
(* SetHealth changes a device under the mutex, releases it and only then   *)
(* puts a token in the one-slot channel updates, or drops the token when   *)
(* the slot is full.  The stream takes a token, reads the list under the   *)
(* mutex and sends it: three steps, between which health changes again.    *)
(* Allocate looks at one device at a time under the mutex.                 *)
(*                                                                         *)
(* kubelet is external: it accepts the registration, dials back, drops the *)
(* connection or restarts, and never dials a plugin that has not           *)
(* registered since.                                                       *)
(***************************************************************************)
EXTENDS Naturals

CONSTANTS
  Devices,     \* the device IDs New makes, ordered as the strings are
  Unlisted,    \* an ID kubelet may remember that New did not make
  Setters,     \* the goroutines that call SetHealth
  NoList       \* kubelet has no list: the endpoint is not running

Healths == {"Healthy", "Unhealthy"}
Lists == [Devices -> Healths]

ASSUME DevicePluginAssumption ==
  /\ Devices \subseteq Nat
  /\ Devices # {}
  /\ Unlisted \in Nat \ Devices
  /\ NoList \notin Lists

VARIABLES
  process,        \* Run: down, registering, serving or stopping
  health,         \* the devices' health, under the mutex
  updates,        \* the channel holds a token
  setter,         \* the setters that have changed a device and not yet sent
  stream,         \* ListAndWatch: none, read, send or wait
  list,           \* the list the stream read and is about to send
  registration,   \* kubelet's record of the plugin: none, accepted, dialed, lost
  known,          \* the last list kubelet received
  call            \* the Allocate call

server == <<health, updates, setter, stream, list>>
vars == <<process, health, updates, setter, stream, list, registration, known, call>>

Connected == registration = "dialed"
AllHealthy == [d \in Devices |-> "Healthy"]
NoCall == [state |-> "idle", ids |-> {}, asked |-> {}, sick |-> {}]

Init ==
  /\ process = "down"
  /\ health = AllHealthy
  /\ updates = FALSE
  /\ setter = {}
  /\ stream = "none"
  /\ list = AllHealthy
  /\ registration = "none"
  /\ known = NoList
  /\ call = NoCall

-------------------------------------------------------------------------------
\* New and the start of Run: every device is Healthy, whatever it was before,
\* and the server answers before the plugin registers.
New ==
  /\ process = "down"
  /\ process' = "registering"
  /\ health' = AllHealthy
  /\ updates' = FALSE
  /\ registration' = "none"
  /\ UNCHANGED <<setter, stream, list, known, call>>

\* The process is gone, with its goroutines and connections.
Exit ==
  /\ process' = "down"
  /\ setter' = {}
  /\ stream' = "none"
  /\ registration' = "none"
  /\ known' = NoList
  /\ call' = NoCall
  /\ UNCHANGED <<health, updates, list>>

\* kubelet handles Register, and dials back whether or not register has
\* returned yet.
KubeletAccepts ==
  /\ process = "registering"
  /\ registration = "none"
  /\ registration' = "accepted"
  /\ UNCHANGED <<process, server, known, call>>

KubeletDials ==
  /\ process \in {"registering", "serving"}
  /\ registration = "accepted"
  /\ registration' = "dialed"
  /\ stream' = "read"
  /\ UNCHANGED <<process, health, updates, setter, list, known, call>>

register ==
  /\ process = "registering"
  /\ registration # "none"
  /\ process' = "serving"
  /\ UNCHANGED <<server, registration, known, call>>

\* register returns an error, kubelet's answer lost or never given: Run stops
\* the server and returns.
registerFails == process = "registering" /\ Exit

\* A crash, an error of Serve, or the kill at the end of the grace period.
Killed == process # "down" /\ Exit

Signal ==
  /\ process = "serving"
  /\ process' = "stopping"
  /\ UNCHANGED <<server, registration, known, call>>

\* GracefulStop accepts no new call and waits for those under way, ListAndWatch
\* included; then Run returns.
GracefulStop ==
  /\ process = "stopping"
  /\ stream = "none"
  /\ call.state # "checking"
  /\ Exit

\* The connection breaks or kubelet restarts: it forgets the plugin, which
\* does not register again.
KubeletLeaves ==
  /\ registration \in {"accepted", "dialed"}
  /\ registration' = "lost"
  /\ known' = NoList
  /\ UNCHANGED <<process, server, call>>

-------------------------------------------------------------------------------
\* ListAndWatch, beginning with the list it sends when the stream opens.
deviceList ==
  /\ stream = "read"
  /\ list' = health
  /\ stream' = "send"
  /\ UNCHANGED <<process, health, updates, setter, registration, known, call>>

\* Send fails when the connection is gone, and ListAndWatch returns.
Send ==
  /\ stream = "send"
  /\ IF Connected THEN known' = list /\ stream' = "wait"
                  ELSE stream' = "none" /\ UNCHANGED known
  /\ UNCHANGED <<process, health, updates, setter, list, registration, call>>

\* A mutant of Wake: the select has no case for the channel.
WakeIgnored == FALSE

Wake ==
  /\ stream = "wait"
  /\ updates
  /\ updates' = FALSE
  /\ stream' = "read"
  /\ UNCHANGED <<process, health, setter, list, registration, known, call>>

\* A mutant of Done: the select has no case for it.
DoneIgnored == FALSE

Done ==
  /\ stream = "wait"
  /\ ~Connected
  /\ stream' = "none"
  /\ UNCHANGED <<process, health, updates, setter, list, registration, known, call>>

ListAndWatch == deviceList \/ Send \/ Wake \/ Done

\* SetHealth, when it changes anything.
SetHealth(s, d, h) ==
  /\ process # "down"
  /\ s \notin setter
  /\ health[d] # h
  /\ health' = [health EXCEPT ![d] = h]
  /\ setter' = setter \cup {s}
  /\ call' = [call EXCEPT !.sick = @ \ {d}]
  /\ UNCHANGED <<process, updates, stream, list, registration, known>>

\* A mutant of Notify: the channel has no slot, so a token is passed only to a
\* stream that waits for it.
NotifyUnbuffered(s) ==
  /\ s \in setter
  /\ setter' = setter \ {s}
  /\ updates' = (stream = "wait")
  /\ UNCHANGED <<process, health, stream, list, registration, known, call>>

\* The non-blocking send at the end of SetHealth.
Notify(s) ==
  /\ s \in setter
  /\ setter' = setter \ {s}
  /\ updates' = TRUE
  /\ UNCHANGED <<process, health, stream, list, registration, known, call>>

-------------------------------------------------------------------------------
\* kubelet asks for devices of the list it has, or for one it remembers.  The
\* history variable sick holds those that have been Unhealthy since the call
\* began.
Allocate(ids) ==
  /\ process \in {"registering", "serving"}
  /\ known # NoList
  /\ call.state # "checking"
  /\ call' = [state |-> "checking", ids |-> ids, asked |-> ids,
              sick |-> {d \in ids \cap Devices : health[d] = "Unhealthy"}]
  /\ UNCHANGED <<process, server, registration, known>>

\* The next device in sorted order.
NextDevice == CHOOSE d \in call.ids : \A e \in call.ids : d <= e

\* A mutant of CheckDevice: only unknown devices are refused.
CheckDeviceExists ==
  /\ call.state = "checking"
  /\ call' = IF call.ids = {} THEN [call EXCEPT !.state = "granted"]
             ELSE IF NextDevice \in Devices
             THEN [call EXCEPT !.ids = @ \ {NextDevice}]
             ELSE [call EXCEPT !.state = "refused", !.ids = {}]
  /\ UNCHANGED <<process, server, registration, known>>

CheckDevice ==
  /\ call.state = "checking"
  /\ call' = IF call.ids = {} THEN [call EXCEPT !.state = "granted"]
             ELSE IF NextDevice \in Devices /\ health[NextDevice] = "Healthy"
             THEN [call EXCEPT !.ids = @ \ {NextDevice}]
             ELSE [call EXCEPT !.state = "refused", !.ids = {}]
  /\ UNCHANGED <<process, server, registration, known>>

Kubelet ==
  \/ KubeletAccepts \/ KubeletDials \/ KubeletLeaves
  \/ \E ids \in SUBSET (Devices \cup {Unlisted}) : ids # {} /\ Allocate(ids)

Next ==
  \/ New \/ register \/ registerFails \/ Killed \/ Signal \/ GracefulStop
  \/ ListAndWatch \/ CheckDevice \/ Kubelet
  \/ \E s \in Setters : Notify(s) \/ \E d \in Devices, h \in Healths : SetHealth(s, d, h)

Spec == Init /\ [][Next]_vars

\* Goroutines that can run do, and kubelet dials a plugin it has accepted.
\* Nothing is assumed of signals, kills, health or kubelet's restarts.
FairSpec ==
  /\ Spec
  /\ WF_vars(deviceList) /\ WF_vars(Send) /\ WF_vars(Wake) /\ WF_vars(Done)
  /\ WF_vars(CheckDevice) /\ WF_vars(GracefulStop) /\ WF_vars(KubeletDials)
  /\ \A s \in Setters : WF_vars(Notify(s))

-------------------------------------------------------------------------------
\* Type invariant of the plugin's and kubelet's state.
DevicePluginType ==
  /\ process \in {"down", "registering", "serving", "stopping"}
  /\ health \in Lists
  /\ updates \in BOOLEAN
  /\ setter \subseteq Setters
  /\ stream \in {"none", "read", "send", "wait"}
  /\ list \in Lists
  /\ registration \in {"none", "accepted", "dialed", "lost"}
  /\ known \in Lists \cup {NoList}
  /\ call \in [state : {"idle", "checking", "granted", "refused"},
               ids : SUBSET (Devices \cup {Unlisted}),
               asked : SUBSET (Devices \cup {Unlisted}), sick : SUBSET Devices]

\* The one-slot channel loses no health change: when ListAndWatch waits with
\* the channel empty and every SetHealth has finished, kubelet has the current
\* health of every device, however changes, dropped tokens, reads and sends
\* interleaved.
NoLostUpdate ==
  Connected /\ stream = "wait" /\ ~updates /\ setter = {} => known = health

\* Allocate never grants a device New did not make, nor one that has been
\* Unhealthy since the call began, although it looks at one device at a time
\* while SetHealth runs.
GrantedIsUsable ==
  call.state = "granted" => call.asked \subseteq Devices \ call.sick

\* Health that stays as it is reaches kubelet: when the plugin goes on serving
\* and kubelet does not leave, ListAndWatch ends up having sent it.
HealthReachesKubelet ==
  \A h \in Lists :
    <>[](process = "serving" /\ registration \in {"accepted", "dialed"} /\ health = h)
      => <>[](known = h)

\* GracefulStop waits for ListAndWatch, which returns only when its client is
\* gone: from then on Run returns without being killed.
GracefulStopEnds == process = "stopping" /\ ~Connected ~> process = "down"
===============================================================================
