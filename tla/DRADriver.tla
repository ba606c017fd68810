------------------------------- MODULE DRADriver -------------------------------
(***************************************************************************)
(* The node's DRA kubelet driver (pkg/dra/driver.go).  It keeps the        *)
(* prepared claims in memory, in a state file and, one file per claim, as  *)
(* CDI specifications for the container runtime.  One mutex serialises the *)
(* calls, so one call is under way at a time; its file operations are      *)
(* separate steps, each of which can fail, and the process can die between *)
(* any two of them.  A file is replaced by a rename, so a write leaves the *)
(* new content or the old one.                                             *)
(*                                                                         *)
(* What kubelet was told is kept in granted and released: they are not     *)
(* part of the driver but of what others rely on.                          *)
(***************************************************************************)
CONSTANTS
  Claims,        \* UIDs of the ResourceClaims
  Devices,       \* the devices of the node's pool
  Allocations,   \* the allocation results the driver can be given for a claim
  NoClaim,       \* owner of a free device
  None           \* no allocation, no file

\* An allocation names some devices; repeated says that it names one twice, as
\* results of two requests or with different share IDs can.
ASSUME DriverAssumption ==
  /\ NoClaim \notin Claims
  /\ None \notin Allocations
  /\ \A a \in Allocations : /\ a.devices \in (SUBSET Devices) \ {{}}
                            /\ a.repeated \in BOOLEAN

VARIABLES
  running,     \* "down", "loading" (in NewDriver) or "serving"
  prepared,    \* Driver.prepared
  owners,      \* Driver.owners
  stateFile,   \* the claims in the file at statePath
  cdi,         \* the CDI file of each claim
  op,          \* the call that holds the mutex and its next file operation
  toLoad,      \* the claims of the state file that load has still to visit
  granted,     \* the allocation kubelet was told is prepared
  released     \* the claims that kubelet was last told are unprepared

memory == <<prepared, owners>>
files == <<stateFile, cdi>>
told == <<granted, released>>
vars == <<running, prepared, owners, stateFile, cdi, op, toLoad, granted, released>>

Nothing == [c \in Claims |-> None]
Free == [d \in Devices |-> NoClaim]
Idle == [step |-> "idle", claim |-> NoClaim, devices |-> None]
Steps == {"writeCDI", "persist", "rollback", "rewriteCDI", "removeCDI", "release", "restoreCDI"}

Init ==
  /\ running = "serving"
  /\ prepared = Nothing /\ owners = Free
  /\ stateFile = Nothing /\ cdi = Nothing
  /\ op = Idle /\ toLoad = {}
  /\ granted = Nothing
  /\ released = {}

InStep(step) == running = "serving" /\ op.step = step
GoOn(step) == op' = [op EXCEPT !.step = step]
Return == op' = Idle

\* deviceKey of each allocated device given to claim c, or taken from it.
Own(c, a) == [d \in Devices |-> IF d \in a.devices THEN c ELSE owners[d]]

-------------------------------------------------------------------------------
(***************************************************************************)
(* prepareClaim.  A claim that was prepared with another allocation, or    *)
(* that needs a device of another claim, is refused without a change.      *)
(***************************************************************************)
\* A mutant of Conflict: the owners of the devices are not consulted.
ConflictIgnored(c, a) == FALSE

Conflict(c, a) == \E d \in a.devices : owners[d] \notin {NoClaim, c}

prepareClaim(c, a) ==
  /\ InStep("idle")
  /\ prepared[c] = None => ~Conflict(c, a)
  /\ prepared[c] \in {None, a}
  /\ op' = [step |-> IF prepared[c] = None THEN "writeCDI" ELSE "rewriteCDI",
            claim |-> c, devices |-> a]
  /\ released' = released \ {c}
  /\ UNCHANGED <<running, memory, files, toLoad, granted>>

\* writeCDI for a new claim, and again for one that is already prepared.
PrepareWritesCDI ==
  /\ InStep("writeCDI")
  /\ cdi' = [cdi EXCEPT ![op.claim] = op.devices]
  /\ GoOn("persist")
  /\ UNCHANGED <<running, memory, stateFile, toLoad, told>>

PrepareRewritesCDI ==
  /\ InStep("rewriteCDI")
  /\ cdi' = [cdi EXCEPT ![op.claim] = op.devices]
  /\ Return
  /\ granted' = [granted EXCEPT ![op.claim] = op.devices]
  /\ UNCHANGED <<running, memory, stateFile, toLoad, released>>

PrepareCDIFails ==
  /\ InStep("writeCDI") \/ InStep("rewriteCDI")
  /\ Return
  /\ UNCHANGED <<running, memory, files, toLoad, told>>

PreparePersists ==
  /\ InStep("persist")
  /\ prepared' = [prepared EXCEPT ![op.claim] = op.devices]
  /\ owners' = Own(op.claim, op.devices)
  /\ stateFile' = prepared'
  /\ granted' = [granted EXCEPT ![op.claim] = op.devices]
  /\ Return
  /\ UNCHANGED <<running, cdi, toLoad, released>>

\* A mutant of PreparePersistFails: the devices keep their owner.
PreparePersistFailsKeepsOwners ==
  /\ InStep("persist")
  /\ owners' = Own(op.claim, op.devices)
  /\ GoOn("rollback")
  /\ UNCHANGED <<running, prepared, files, toLoad, told>>

\* persist fails: the entries in memory are deleted again (no one saw them).
PreparePersistFails ==
  /\ InStep("persist")
  /\ prepared' = [prepared EXCEPT ![op.claim] = None]
  /\ owners' = Own(NoClaim, op.devices)
  /\ GoOn("rollback")
  /\ UNCHANGED <<running, files, toLoad, told>>

\* The result of removing the CDI file is ignored.
PrepareRollsBack ==
  /\ InStep("rollback")
  /\ \E left \in {None, cdi[op.claim]} : cdi' = [cdi EXCEPT ![op.claim] = left]
  /\ Return
  /\ UNCHANGED <<running, memory, stateFile, toLoad, told>>

(***************************************************************************)
(* unprepareClaim.  An unknown claim is a success without a change.        *)
(***************************************************************************)
unprepareClaim(c) ==
  /\ InStep("idle")
  /\ granted' = [granted EXCEPT ![c] = None]
  /\ IF prepared[c] = None
     THEN released' = released \cup {c} /\ UNCHANGED op
     ELSE /\ op' = [step |-> "removeCDI", claim |-> c, devices |-> prepared[c]]
          /\ UNCHANGED released
  /\ UNCHANGED <<running, memory, files, toLoad>>

UnprepareRemovesCDI ==
  /\ InStep("removeCDI")
  /\ cdi' = [cdi EXCEPT ![op.claim] = None]
  /\ GoOn("release")
  /\ UNCHANGED <<running, memory, stateFile, toLoad, told>>

UnprepareRemoveFails ==
  /\ InStep("removeCDI")
  /\ Return
  /\ UNCHANGED <<running, memory, files, toLoad, told>>

\* A mutant of UnpreparePersists: the release is not persisted.
UnprepareInMemory ==
  /\ InStep("release")
  /\ prepared' = [prepared EXCEPT ![op.claim] = None]
  /\ owners' = Own(NoClaim, op.devices)
  /\ released' = released \cup {op.claim}
  /\ Return
  /\ UNCHANGED <<running, files, toLoad, granted>>

UnpreparePersists ==
  /\ InStep("release")
  /\ prepared' = [prepared EXCEPT ![op.claim] = None]
  /\ owners' = Own(NoClaim, op.devices)
  /\ stateFile' = prepared'
  /\ released' = released \cup {op.claim}
  /\ Return
  /\ UNCHANGED <<running, cdi, toLoad, granted>>

\* persist fails: the entries in memory are put back (no one saw them gone).
UnpreparePersistFails ==
  /\ InStep("release")
  /\ prepared' = [prepared EXCEPT ![op.claim] = op.devices]
  /\ owners' = Own(op.claim, op.devices)
  /\ GoOn("restoreCDI")
  /\ UNCHANGED <<running, files, toLoad, told>>

\* The CDI file is written again; the call fails whether or not that works.
UnprepareRestoresCDI ==
  /\ InStep("restoreCDI")
  /\ \E left \in {op.devices, cdi[op.claim]} : cdi' = [cdi EXCEPT ![op.claim] = left]
  /\ Return
  /\ UNCHANGED <<running, memory, stateFile, toLoad, told>>

-------------------------------------------------------------------------------
(***************************************************************************)
(* The process dies; when the node reboots, the CDI directory (/var/run)   *)
(* is empty afterwards.  NewDriver reads the state file and, claim by      *)
(* claim, rebuilds the maps and the CDI files; an error ends the process.  *)
(***************************************************************************)
GoDown ==
  /\ running' = "down"
  /\ prepared' = Nothing /\ owners' = Free
  /\ op' = Idle /\ toLoad' = {}

\* A mutant of Crash: the state file is written in place, not by a rename.
CrashTruncates ==
  /\ running # "down"
  /\ GoDown
  /\ cdi' \in {cdi, Nothing}
  /\ stateFile' \in {stateFile, IF op.step \in {"persist", "release"} THEN Nothing ELSE stateFile}
  /\ UNCHANGED told

Crash ==
  /\ running # "down"
  /\ GoDown
  /\ cdi' \in {cdi, Nothing}
  /\ UNCHANGED <<stateFile, told>>

NewDriver ==
  /\ running = "down"
  /\ running' = "loading"
  /\ toLoad' = {c \in Claims : stateFile[c] # None}
  /\ UNCHANGED <<memory, files, op, told>>

\* load refuses a device that already has an owner, the same claim included.
LoadAccepts(c) ==
  /\ \A d \in stateFile[c].devices : owners[d] = NoClaim
  /\ ~stateFile[c].repeated

\* A mutant of LoadClaim: load does not recreate the CDI file.
LoadClaimWithoutCDI(c) ==
  /\ running = "loading" /\ c \in toLoad
  /\ LoadAccepts(c)
  /\ owners' = Own(c, stateFile[c])
  /\ prepared' = [prepared EXCEPT ![c] = stateFile[c]]
  /\ toLoad' = toLoad \ {c}
  /\ UNCHANGED <<running, files, op, told>>

LoadClaim(c) ==
  /\ running = "loading" /\ c \in toLoad
  /\ LoadAccepts(c)
  /\ owners' = Own(c, stateFile[c])
  /\ prepared' = [prepared EXCEPT ![c] = stateFile[c]]
  /\ cdi' = [cdi EXCEPT ![c] = stateFile[c]]
  /\ toLoad' = toLoad \ {c}
  /\ UNCHANGED <<running, stateFile, op, told>>

\* writeCDI fails in load.
LoadFails ==
  /\ running = "loading" /\ toLoad # {}
  /\ GoDown
  /\ UNCHANGED <<files, told>>

\* load refuses the state file.
LoadRefuses(c) ==
  /\ running = "loading" /\ c \in toLoad
  /\ ~LoadAccepts(c)
  /\ GoDown
  /\ UNCHANGED <<files, told>>

\* A mutant of Serve: an empty state file is an error.
ServeIfLoaded ==
  /\ running = "loading" /\ toLoad = {} /\ prepared # Nothing
  /\ running' = "serving"
  /\ UNCHANGED <<memory, files, op, toLoad, told>>

Serve ==
  /\ running = "loading" /\ toLoad = {}
  /\ running' = "serving"
  /\ UNCHANGED <<memory, files, op, toLoad, told>>

-------------------------------------------------------------------------------
Call == \E c \in Claims : unprepareClaim(c) \/ \E a \in Allocations : prepareClaim(c, a)

CallStep ==
  \/ PrepareWritesCDI \/ PrepareRewritesCDI \/ PreparePersists \/ PrepareRollsBack
  \/ UnprepareRemovesCDI \/ UnpreparePersists \/ UnprepareRestoresCDI

FileFailure ==
  \/ PrepareCDIFails \/ PreparePersistFails
  \/ UnprepareRemoveFails \/ UnpreparePersistFails
  \/ LoadFails

Recovery == NewDriver \/ Serve \/ \E c \in Claims : LoadClaim(c) \/ LoadRefuses(c)

Next == Call \/ CallStep \/ FileFailure \/ Crash \/ Recovery

Spec == Init /\ [][Next]_vars

\* The process makes progress and kubelet restarts a container that exited.
FairSpec == Spec /\ WF_vars(CallStep) /\ WF_vars(Recovery)

-------------------------------------------------------------------------------
\* Type invariant of the driver, its files and what kubelet was told.
DriverType ==
  /\ running \in {"down", "loading", "serving"}
  /\ prepared \in [Claims -> Allocations \cup {None}]
  /\ owners \in [Devices -> Claims \cup {NoClaim}]
  /\ stateFile \in [Claims -> Allocations \cup {None}]
  /\ cdi \in [Claims -> Allocations \cup {None}]
  /\ op \in {Idle} \cup [step : Steps, claim : Claims, devices : Allocations]
  /\ toLoad \in SUBSET Claims
  /\ granted \in [Claims -> Allocations \cup {None}]
  /\ released \in SUBSET Claims

\* The owners map is the inverse of prepared, through every rollback of a
\* failed persist and while load rebuilds both.
OwnersMatchPrepared ==
  \A c \in Claims, d \in Devices :
    owners[d] = c <=> prepared[c] # None /\ d \in prepared[c].devices

\* What kubelet was told is prepared survives file errors and crashes: until
\* Unprepare is called the claim stays in the state file with the same devices,
\* and whenever the driver serves, its CDI file is there and names them.
GrantSurvives ==
  \A c \in Claims :
    granted[c] # None =>
      /\ stateFile[c] = granted[c]
      /\ running = "serving" => cdi[c] = granted[c] /\ prepared[c] = granted[c]

\* kubelet never holds one device for two claims at once: prepareClaim rejects
\* "a device already prepared for another claim", also after a restart.
NoSharedDevice ==
  \A c, e \in Claims :
    c # e /\ granted[c] # None /\ granted[e] # None
      => granted[c].devices \cap granted[e].devices = {}

\* An unprepared claim stays unprepared: no restart brings back a claim whose
\* release was answered with success.
ReleaseIsDurable ==
  \A c \in released : stateFile[c] = None /\ prepared[c] = None

\* ADR-0005: the driver will "reload" the state file "on driver restart": load
\* refuses no claim of a file the driver wrote, except one whose allocation
\* names a device twice, which prepareClaim accepts and load does not.
StateFileLoads ==
  running = "loading" => \A c \in toLoad : LoadAccepts(c) \/ stateFile[c].repeated

\* The claim that the state file names as the owner of each device.
fileOwner ==
  [d \in Devices |->
     IF \E c \in Claims : stateFile[c] # None /\ d \in stateFile[c].devices
     THEN CHOOSE c \in Claims : stateFile[c] # None /\ d \in stateFile[c].devices
     ELSE NoClaim]

Ownership == INSTANCE ExclusiveOwnership
  WITH Holders <- Claims, Units <- Devices, Nobody <- NoClaim, owner <- fileOwner

\* The state file implements exclusive ownership that nothing but a successful
\* Prepare or Unprepare changes, whatever fails and whenever the process dies.
FileIsExclusive == Ownership!Spec

\* Once files can be written and the process is left alone, the driver always
\* gets back to serving, unless the state file keeps such a claim.
Recovers ==
  <>[][~(FileFailure \/ Crash)]_vars =>
    \/ []<>(running = "serving")
    \/ <>[](\E c \in Claims : stateFile[c] # None /\ stateFile[c].repeated)
===============================================================================
