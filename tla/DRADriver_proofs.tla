--------------------------- MODULE DRADriver_proofs ---------------------------
(***************************************************************************)
(* Proofs about the DRA driver, for any claims, devices and allocations.   *)
(*                                                                         *)
(* DriverInv relates the four copies of what is prepared: the two maps in  *)
(* memory, the state file and the CDI files.  While the driver serves, the *)
(* memory is the file; while it loads, it is the part of the file already  *)
(* visited.  A call under way knows the entry of its claim, and the file   *)
(* never gives one device to two claims.                                   *)
(***************************************************************************)
EXTENDS DRADriver, TLAPS

\* The maps in memory follow the state file.
MemoryFollowsFile ==
  /\ running = "serving" => prepared = stateFile
  /\ running = "loading" =>
       /\ \A c \in Claims : prepared[c] = IF c \in toLoad THEN None ELSE stateFile[c]
       /\ \A c \in toLoad : stateFile[c] # None
  /\ running = "down" => prepared = Nothing

\* The state file never gives one device to two claims.
FileDisjoint ==
  \A c, e \in Claims :
    c # e /\ stateFile[c] # None /\ stateFile[e] # None
      => stateFile[c].devices \cap stateFile[e].devices = {}

\* What a call knows of its claim between two file operations.
CallKnows ==
  /\ op.step # "idle" => running = "serving"
  /\ op.step \in {"writeCDI", "persist", "rollback"} =>
       /\ prepared[op.claim] = None /\ op.claim \notin released
       /\ \A d \in op.devices.devices : owners[d] = NoClaim
  /\ op.step = "persist" => cdi[op.claim] = op.devices
  /\ op.step = "rewriteCDI" => prepared[op.claim] = op.devices
  /\ op.step \in {"removeCDI", "release", "restoreCDI"} =>
       prepared[op.claim] = op.devices /\ granted[op.claim] = None

\* Loading has written the CDI file of each claim it has visited.
LoadedHasCDI ==
  running = "loading" =>
    \A c \in Claims \ toLoad : stateFile[c] # None => cdi[c] = stateFile[c]

DriverInv ==
  /\ DriverType
  /\ OwnersMatchPrepared
  /\ MemoryFollowsFile
  /\ FileDisjoint
  /\ CallKnows
  /\ LoadedHasCDI
  /\ GrantSurvives
  /\ ReleaseIsDurable

USE DriverAssumption

\* A new node: nothing is prepared.
LEMMA InitInv == Init => DriverInv
BY DEF Init, DriverInv, DriverType, OwnersMatchPrepared, MemoryFollowsFile, FileDisjoint,
   CallKnows, LoadedHasCDI, GrantSurvives, ReleaseIsDurable, Nothing, Free, Idle

\* The call under way, when there is one, is about a claim and an allocation.
LEMMA OpType ==
  ASSUME DriverInv, op.step # "idle"
  PROVE  op.claim \in Claims /\ op.devices \in Allocations /\ op.step \in Steps
BY DEF DriverInv, DriverType, Idle

\* Type correctness.
LEMMA TypeStep == DriverInv /\ [Next]_vars => DriverType'
<1>. SUFFICES ASSUME DriverInv, [Next]_vars PROVE DriverType'
  OBVIOUS
<1>. USE DEF DriverInv, DriverType, memory, files, told
<1>1. CASE Call
  BY <1>1 DEF Call, prepareClaim, unprepareClaim, Steps
<1>2. CASE CallStep
  <2>1. CASE PrepareWritesCDI \/ UnprepareRemovesCDI
    BY <2>1, OpType DEF PrepareWritesCDI, UnprepareRemovesCDI, InStep, GoOn, Steps, Idle
  <2>2. CASE PrepareRewritesCDI \/ PrepareRollsBack \/ UnprepareRestoresCDI
    BY <2>2, OpType DEF PrepareRewritesCDI, PrepareRollsBack, UnprepareRestoresCDI, InStep, Return
  <2>3. CASE PreparePersists \/ UnpreparePersists
    BY <2>3, OpType DEF PreparePersists, UnpreparePersists, InStep, Return, Own
  <2>4. QED  BY <1>2, <2>1, <2>2, <2>3 DEF CallStep
<1>3. CASE FileFailure
  <2>1. CASE PrepareCDIFails \/ UnprepareRemoveFails
    BY <2>1 DEF PrepareCDIFails, UnprepareRemoveFails, Return
  <2>2. CASE PreparePersistFails \/ UnpreparePersistFails
    BY <2>2, OpType DEF PreparePersistFails, UnpreparePersistFails, InStep, GoOn, Own, Steps, Idle
  <2>3. CASE LoadFails
    BY <2>3 DEF LoadFails, GoDown, Nothing, Free
  <2>4. QED  BY <1>3, <2>1, <2>2, <2>3 DEF FileFailure
<1>4. CASE Crash
  BY <1>4 DEF Crash, GoDown, Nothing, Free
<1>5. CASE Recovery
  <2>1. ASSUME NEW c \in Claims, LoadClaim(c) PROVE DriverType'
    BY <2>1 DEF LoadClaim, Own, MemoryFollowsFile
  <2>2. ASSUME NEW c \in Claims, LoadRefuses(c) PROVE DriverType'
    BY <2>2 DEF LoadRefuses, GoDown, Nothing, Free
  <2>3. CASE NewDriver \/ Serve
    BY <2>3 DEF NewDriver, Serve
  <2>4. QED  BY <1>5, <2>1, <2>2, <2>3 DEF Recovery
<1>6. CASE UNCHANGED vars
  BY <1>6 DEF vars
<1>7. QED  BY <1>1, <1>2, <1>3, <1>4, <1>5, <1>6 DEF Next

-------------------------------------------------------------------------------
(***************************************************************************)
(* Steps that write neither the maps nor the state file.                   *)
(***************************************************************************)

\* The parts of the invariant that speak of the maps and the state file only.
LEMMA MapsUnchanged ==
  ASSUME DriverInv, UNCHANGED <<memory, stateFile, running, toLoad>>
  PROVE  OwnersMatchPrepared' /\ MemoryFollowsFile' /\ FileDisjoint'
BY DEF DriverInv, memory, OwnersMatchPrepared, MemoryFollowsFile, FileDisjoint

LEMMA CallInv == DriverInv /\ Call => DriverInv'
<1>. SUFFICES ASSUME DriverInv, NEW c \in Claims,
                     unprepareClaim(c) \/ \E a \in Allocations : prepareClaim(c, a)
              PROVE  DriverInv'
  BY DEF Call
<1>1. DriverType'
  BY TypeStep DEF Next, Call
<1>2. OwnersMatchPrepared' /\ MemoryFollowsFile' /\ FileDisjoint'
  BY MapsUnchanged DEF prepareClaim, unprepareClaim, files
<1>3. CallKnows' /\ LoadedHasCDI' /\ GrantSurvives' /\ ReleaseIsDurable'
  <2>1. CASE unprepareClaim(c)
    BY <2>1 DEF unprepareClaim, InStep, CallKnows, LoadedHasCDI, GrantSurvives,
       ReleaseIsDurable, DriverInv, DriverType, MemoryFollowsFile, memory, files
  <2>2. ASSUME NEW a \in Allocations, prepareClaim(c, a)
        PROVE  CallKnows' /\ LoadedHasCDI' /\ GrantSurvives' /\ ReleaseIsDurable'
    <3>1. CallKnows'
      <4>1. CASE prepared[c] = None
        <5>1. \A d \in a.devices : owners[d] = NoClaim
          BY <2>2, <4>1 DEF prepareClaim, Conflict, DriverInv, DriverType, OwnersMatchPrepared
        <5>2. QED  BY <2>2, <4>1, <5>1 DEF prepareClaim, InStep, CallKnows, memory
      <4>2. CASE prepared[c] = a
        BY <2>2, <4>2 DEF prepareClaim, InStep, CallKnows, memory
      <4>3. QED  BY <2>2, <4>1, <4>2 DEF prepareClaim
    <3>2. LoadedHasCDI' /\ GrantSurvives' /\ ReleaseIsDurable'
      BY <2>2 DEF prepareClaim, LoadedHasCDI, GrantSurvives, ReleaseIsDurable, DriverInv,
         memory, files
    <3>3. QED  BY <3>1, <3>2
  <2>3. QED  BY <2>1, <2>2
<1>4. QED  BY <1>1, <1>2, <1>3 DEF DriverInv

\* The CDI file operations of a call, done or failed.
LEMMA CDIStepInv ==
  ASSUME DriverInv,
         \/ PrepareWritesCDI \/ PrepareRewritesCDI \/ PrepareRollsBack
         \/ UnprepareRemovesCDI \/ UnprepareRestoresCDI
         \/ PrepareCDIFails \/ UnprepareRemoveFails
  PROVE  DriverInv'
<1>1. DriverType'
  BY TypeStep DEF Next, CallStep, FileFailure
<1>2. UNCHANGED <<memory, stateFile, running, toLoad, released>> /\ running = "serving"
  BY DEF PrepareWritesCDI, PrepareRewritesCDI, PrepareRollsBack, UnprepareRemovesCDI,
     UnprepareRestoresCDI, PrepareCDIFails, UnprepareRemoveFails, InStep, files, told
<1>3. OwnersMatchPrepared' /\ MemoryFollowsFile' /\ FileDisjoint'
  BY <1>2, MapsUnchanged
<1>4. LoadedHasCDI' /\ ReleaseIsDurable'
  BY <1>2 DEF LoadedHasCDI, ReleaseIsDurable, DriverInv, memory
<1>5. prepared = stateFile
  BY <1>2 DEF DriverInv, MemoryFollowsFile
<1>. USE <1>2, <1>5, OpType DEF DriverInv, DriverType, CallKnows, GrantSurvives, InStep, memory, told
<1>6. CASE PrepareWritesCDI
  <2>1. CallKnows'
    BY <1>6 DEF PrepareWritesCDI, GoOn, Idle
  <2>2. GrantSurvives'
    BY <1>6 DEF PrepareWritesCDI
  <2>3. QED  BY <1>1, <1>3, <1>4, <2>1, <2>2
<1>7. CASE PrepareRewritesCDI
  <2>1. CallKnows'
    BY <1>7 DEF PrepareRewritesCDI, Return, Idle
  <2>2. GrantSurvives'
    BY <1>7 DEF PrepareRewritesCDI
  <2>3. QED  BY <1>1, <1>3, <1>4, <2>1, <2>2
<1>8. CASE PrepareRollsBack \/ UnprepareRestoresCDI
  <2>1. CallKnows'
    BY <1>8 DEF PrepareRollsBack, UnprepareRestoresCDI, Return, Idle
  <2>2. GrantSurvives'
    BY <1>8 DEF PrepareRollsBack, UnprepareRestoresCDI
  <2>3. QED  BY <1>1, <1>3, <1>4, <2>1, <2>2
<1>9. CASE UnprepareRemovesCDI
  <2>1. CallKnows'
    BY <1>9 DEF UnprepareRemovesCDI, GoOn, Idle
  <2>2. GrantSurvives'
    BY <1>9 DEF UnprepareRemovesCDI
  <2>3. QED  BY <1>1, <1>3, <1>4, <2>1, <2>2
<1>10. CASE PrepareCDIFails \/ UnprepareRemoveFails
  <2>1. CallKnows'
    BY <1>10 DEF PrepareCDIFails, UnprepareRemoveFails, Return, Idle
  <2>2. GrantSurvives'
    BY <1>10 DEF PrepareCDIFails, UnprepareRemoveFails, files
  <2>3. QED  BY <1>1, <1>3, <1>4, <2>1, <2>2
<1>11. QED  BY <1>6, <1>7, <1>8, <1>9, <1>10

-------------------------------------------------------------------------------
(***************************************************************************)
(* Steps that write the maps.                                              *)
(***************************************************************************)

\* persist of a new claim, done: the claim enters both maps and the file.
LEMMA PreparePersistsInv == DriverInv /\ PreparePersists => DriverInv'
<1>. SUFFICES ASSUME DriverInv, PreparePersists PROVE DriverInv'
  OBVIOUS
<1>1. DriverType'
  BY TypeStep DEF Next, CallStep
<1>2. PICK c \in Claims, a \in Allocations : c = op.claim /\ a = op.devices
  BY OpType DEF PreparePersists, InStep
<1>3. /\ running = "serving" /\ running' = "serving" /\ op' = Idle
      /\ prepared[c] = None /\ c \notin released /\ prepared = stateFile
      /\ \A d \in a.devices : owners[d] = NoClaim
  BY <1>2 DEF PreparePersists, InStep, Return, DriverInv, CallKnows, MemoryFollowsFile
<1>4. /\ prepared' = [prepared EXCEPT ![c] = a] /\ stateFile' = prepared'
      /\ owners' = [d \in Devices |-> IF d \in a.devices THEN c ELSE owners[d]]
      /\ granted' = [granted EXCEPT ![c] = a] /\ released' = released
      /\ cdi' = cdi
  BY <1>2 DEF PreparePersists, Own
<1>5. a \in Allocations /\ a # None /\ a.devices \subseteq Devices
  BY DriverAssumption
<1>6. \A e \in Claims : prepared'[e] = IF e = c THEN a ELSE prepared[e]
  BY <1>4 DEF DriverInv, DriverType
<1>7. OwnersMatchPrepared'
  <2>1. SUFFICES ASSUME NEW e \in Claims, NEW d \in Devices
                 PROVE  owners'[d] = e <=> prepared'[e] # None /\ d \in prepared'[e].devices
    BY DEF OwnersMatchPrepared
  <2>2. owners[d] = e <=> prepared[e] # None /\ d \in prepared[e].devices
    BY DEF DriverInv, OwnersMatchPrepared
  <2>3. QED  BY <1>3, <1>4, <1>5, <1>6, <2>2, DriverAssumption
<1>8. MemoryFollowsFile' /\ CallKnows' /\ LoadedHasCDI'
  BY <1>3, <1>4 DEF MemoryFollowsFile, CallKnows, LoadedHasCDI, Idle
<1>9. FileDisjoint'
  BY <1>1, <1>4, <1>7, DriverAssumption DEF FileDisjoint, OwnersMatchPrepared, DriverType
<1>10. ReleaseIsDurable'
  BY <1>3, <1>4, <1>6 DEF ReleaseIsDurable, DriverInv, DriverType
<1>11. GrantSurvives'
  <2>1. cdi[c] = a
    BY <1>2 DEF PreparePersists, InStep, DriverInv, CallKnows
  <2>2. \A e \in Claims : granted'[e] = IF e = c THEN a ELSE granted[e]
    BY <1>4 DEF DriverInv, DriverType
  <2>3. QED  BY <1>3, <1>4, <1>6, <2>1, <2>2 DEF GrantSurvives, DriverInv
<1>12. QED  BY <1>1, <1>7, <1>8, <1>9, <1>10, <1>11 DEF DriverInv

\* persist of a new claim, failed: deleting the entries restores the maps.
LEMMA PreparePersistFailsInv == DriverInv /\ PreparePersistFails => DriverInv'
<1>. SUFFICES ASSUME DriverInv, PreparePersistFails PROVE DriverInv'
  OBVIOUS
<1>1. DriverType'
  BY TypeStep DEF Next, FileFailure
<1>2. op.claim \in Claims /\ op.devices \in Allocations
  BY OpType DEF PreparePersistFails, InStep
<1>3. prepared' = prepared /\ owners' = owners
  <2>1. prepared[op.claim] = None /\ \A d \in op.devices.devices : owners[d] = NoClaim
    BY DEF PreparePersistFails, InStep, DriverInv, CallKnows
  <2>2. prepared' = prepared
    BY <1>2, <2>1 DEF PreparePersistFails, DriverInv, DriverType
  <2>3. owners' = owners
    BY <1>2, <2>1 DEF PreparePersistFails, Own, DriverInv, DriverType
  <2>4. QED  BY <2>2, <2>3
<1>4. OwnersMatchPrepared' /\ MemoryFollowsFile' /\ FileDisjoint'
  BY <1>3, MapsUnchanged DEF PreparePersistFails, memory, files
<1>5. CallKnows'
  BY <1>3 DEF PreparePersistFails, InStep, GoOn, CallKnows, DriverInv, DriverType, told, Idle
<1>6. LoadedHasCDI' /\ GrantSurvives' /\ ReleaseIsDurable'
  BY <1>3 DEF PreparePersistFails, LoadedHasCDI, GrantSurvives, ReleaseIsDurable, DriverInv,
     files, told
<1>7. QED  BY <1>1, <1>4, <1>5, <1>6 DEF DriverInv

\* persist of a release, done: the claim leaves both maps and the file.
LEMMA UnpreparePersistsInv == DriverInv /\ UnpreparePersists => DriverInv'
<1>. SUFFICES ASSUME DriverInv, UnpreparePersists PROVE DriverInv'
  OBVIOUS
<1>1. DriverType'
  BY TypeStep DEF Next, CallStep
<1>2. PICK c \in Claims, a \in Allocations : c = op.claim /\ a = op.devices
  BY OpType DEF UnpreparePersists, InStep
<1>3. /\ running = "serving" /\ running' = "serving" /\ op' = Idle
      /\ prepared[c] = a /\ granted[c] = None /\ prepared = stateFile
  BY <1>2 DEF UnpreparePersists, InStep, Return, DriverInv, CallKnows, MemoryFollowsFile
<1>4. /\ prepared' = [prepared EXCEPT ![c] = None] /\ stateFile' = prepared'
      /\ owners' = [d \in Devices |-> IF d \in a.devices THEN NoClaim ELSE owners[d]]
      /\ granted' = granted /\ released' = released \cup {c}
      /\ cdi' = cdi
  BY <1>2 DEF UnpreparePersists, Own
<1>5. \A e \in Claims : prepared'[e] = IF e = c THEN None ELSE prepared[e]
  BY <1>4 DEF DriverInv, DriverType
<1>6. OwnersMatchPrepared'
  <2>1. SUFFICES ASSUME NEW e \in Claims, NEW d \in Devices
                 PROVE  owners'[d] = e <=> prepared'[e] # None /\ d \in prepared'[e].devices
    BY DEF OwnersMatchPrepared
  <2>2. \A f \in Claims : owners[d] = f <=> prepared[f] # None /\ d \in prepared[f].devices
    BY DEF DriverInv, OwnersMatchPrepared
  <2>3. a # None
    BY DriverAssumption
  <2>4. QED  BY <1>3, <1>4, <1>5, <2>2, <2>3, DriverAssumption
<1>7. MemoryFollowsFile' /\ CallKnows' /\ LoadedHasCDI'
  BY <1>3, <1>4 DEF MemoryFollowsFile, CallKnows, LoadedHasCDI, Idle
<1>8. FileDisjoint'
  BY <1>3, <1>4, <1>5 DEF FileDisjoint, DriverInv
<1>9. ReleaseIsDurable' /\ GrantSurvives'
  BY <1>3, <1>4, <1>5 DEF ReleaseIsDurable, GrantSurvives, DriverInv, DriverType
<1>10. QED  BY <1>1, <1>6, <1>7, <1>8, <1>9 DEF DriverInv

\* persist of a release, failed: putting the entries back restores the maps.
LEMMA UnpreparePersistFailsInv == DriverInv /\ UnpreparePersistFails => DriverInv'
<1>. SUFFICES ASSUME DriverInv, UnpreparePersistFails PROVE DriverInv'
  OBVIOUS
<1>1. DriverType'
  BY TypeStep DEF Next, FileFailure
<1>2. op.claim \in Claims /\ op.devices \in Allocations
  BY OpType DEF UnpreparePersistFails, InStep
<1>3. prepared' = prepared /\ owners' = owners
  <2>1. prepared[op.claim] = op.devices
    BY DEF UnpreparePersistFails, InStep, DriverInv, CallKnows
  <2>2. prepared' = prepared
    BY <1>2, <2>1 DEF UnpreparePersistFails, DriverInv, DriverType
  <2>3. \A d \in Devices : d \in op.devices.devices => owners[d] = op.claim
    BY <1>2, <2>1, DriverAssumption DEF DriverInv, OwnersMatchPrepared
  <2>4. owners' = owners
    BY <1>2, <2>3 DEF UnpreparePersistFails, Own, DriverInv, DriverType
  <2>5. QED  BY <2>2, <2>4
<1>4. OwnersMatchPrepared' /\ MemoryFollowsFile' /\ FileDisjoint'
  BY <1>3, MapsUnchanged DEF UnpreparePersistFails, memory, files
<1>5. CallKnows'
  BY <1>3 DEF UnpreparePersistFails, InStep, GoOn, CallKnows, DriverInv, DriverType, told, Idle
<1>6. LoadedHasCDI' /\ GrantSurvives' /\ ReleaseIsDurable'
  BY <1>3 DEF UnpreparePersistFails, LoadedHasCDI, GrantSurvives, ReleaseIsDurable, DriverInv,
     files, told
<1>7. QED  BY <1>1, <1>4, <1>5, <1>6 DEF DriverInv

-------------------------------------------------------------------------------
(***************************************************************************)
(* The process dies and comes back.                                        *)
(***************************************************************************)

\* The memory is lost; what kubelet was told is in the file.
LEMMA GoDownInv ==
  ASSUME DriverInv, DriverType', GoDown, UNCHANGED <<stateFile, told>>
  PROVE  DriverInv'
<1>1. OwnersMatchPrepared'
  BY DEF GoDown, Nothing, Free, OwnersMatchPrepared
<1>2. MemoryFollowsFile' /\ CallKnows' /\ LoadedHasCDI'
  BY DEF GoDown, MemoryFollowsFile, CallKnows, LoadedHasCDI, Idle
<1>3. FileDisjoint'
  BY DEF FileDisjoint, DriverInv
<1>4. GrantSurvives' /\ ReleaseIsDurable'
  BY DEF GoDown, GrantSurvives, ReleaseIsDurable, Nothing, DriverInv, DriverType, told
<1>5. QED  BY <1>1, <1>2, <1>3, <1>4 DEF DriverInv

\* The driver starts to load with empty maps.
LEMMA NewDriverInv == DriverInv /\ NewDriver => DriverInv'
<1>. SUFFICES ASSUME DriverInv, NewDriver PROVE DriverInv'
  OBVIOUS
<1>1. DriverType'
  BY TypeStep DEF Next, Recovery
<1>2. OwnersMatchPrepared' /\ FileDisjoint'
  BY DEF NewDriver, memory, files, OwnersMatchPrepared, FileDisjoint, DriverInv
<1>3. MemoryFollowsFile' /\ LoadedHasCDI'
  BY DEF NewDriver, memory, files, Nothing, MemoryFollowsFile, LoadedHasCDI, DriverInv
<1>4. CallKnows' /\ GrantSurvives' /\ ReleaseIsDurable'
  BY DEF NewDriver, memory, files, told, CallKnows, GrantSurvives, ReleaseIsDurable, DriverInv
<1>5. QED  BY <1>1, <1>2, <1>3, <1>4 DEF DriverInv

\* One claim of the file enters both maps and gets its CDI file.
LEMMA LoadClaimInv ==
  ASSUME DriverInv, NEW c \in Claims, LoadClaim(c) PROVE DriverInv'
<1>1. DriverType'
  BY TypeStep DEF Next, Recovery
<1>2. /\ running = "loading" /\ running' = "loading" /\ c \in toLoad
      /\ prepared[c] = None /\ stateFile[c] \in Allocations
      /\ stateFile' = stateFile /\ toLoad' = toLoad \ {c}
  BY DEF LoadClaim, DriverInv, DriverType, MemoryFollowsFile
<1>3. \A e \in Claims : prepared'[e] = IF e = c THEN stateFile[c] ELSE prepared[e]
  BY DEF LoadClaim, DriverInv, DriverType
<1>4. \A d \in Devices : owners'[d] = IF d \in stateFile[c].devices THEN c ELSE owners[d]
  BY DEF LoadClaim, Own
<1>5. OwnersMatchPrepared'
  <2>1. SUFFICES ASSUME NEW e \in Claims, NEW d \in Devices
                 PROVE  owners'[d] = e <=> prepared'[e] # None /\ d \in prepared'[e].devices
    BY DEF OwnersMatchPrepared
  <2>2. owners[d] = e <=> prepared[e] # None /\ d \in prepared[e].devices
    BY DEF DriverInv, OwnersMatchPrepared
  <2>3. d \in stateFile[c].devices => owners[d] = NoClaim
    BY DEF LoadClaim, LoadAccepts
  <2>4. QED  BY <1>2, <1>3, <1>4, <2>2, <2>3, DriverAssumption
<1>6. MemoryFollowsFile' /\ FileDisjoint'
  BY <1>2, <1>3 DEF MemoryFollowsFile, FileDisjoint, DriverInv
<1>7. LoadedHasCDI'
  BY <1>2 DEF LoadClaim, LoadedHasCDI, DriverInv, DriverType
<1>8. CallKnows' /\ GrantSurvives'
  BY <1>2 DEF LoadClaim, CallKnows, GrantSurvives, told, DriverInv
<1>9. ReleaseIsDurable'
  BY <1>2, <1>3 DEF LoadClaim, ReleaseIsDurable, told, DriverInv, DriverType
<1>10. QED  BY <1>1, <1>5, <1>6, <1>7, <1>8, <1>9 DEF DriverInv

\* The whole file is loaded: the memory is the file, and so are the CDI files.
LEMMA ServeInv == DriverInv /\ Serve => DriverInv'
<1>. SUFFICES ASSUME DriverInv, Serve PROVE DriverInv'
  OBVIOUS
<1>1. DriverType'
  BY TypeStep DEF Next, Recovery
<1>2. prepared = stateFile
  BY DEF Serve, MemoryFollowsFile, DriverInv, DriverType
<1>3. OwnersMatchPrepared' /\ FileDisjoint'
  BY DEF Serve, memory, files, OwnersMatchPrepared, FileDisjoint, DriverInv
<1>4. MemoryFollowsFile' /\ LoadedHasCDI' /\ CallKnows'
  BY <1>2 DEF Serve, memory, files, MemoryFollowsFile, LoadedHasCDI, CallKnows, DriverInv, told
<1>5. GrantSurvives' /\ ReleaseIsDurable'
  BY <1>2 DEF Serve, memory, files, told, GrantSurvives, ReleaseIsDurable, LoadedHasCDI, DriverInv
<1>6. QED  BY <1>1, <1>3, <1>4, <1>5 DEF DriverInv

LEMMA NextInv == DriverInv /\ [Next]_vars => DriverInv'
<1>. SUFFICES ASSUME DriverInv, [Next]_vars PROVE DriverInv'
  OBVIOUS
<1>1. CASE Call
  BY <1>1, CallInv
<1>2. CASE CallStep
  BY <1>2, CDIStepInv, PreparePersistsInv, UnpreparePersistsInv DEF CallStep
<1>3. CASE FileFailure
  <2>1. CASE LoadFails
    BY <2>1, TypeStep, GoDownInv DEF LoadFails, files
  <2>2. QED  BY <1>3, <2>1, CDIStepInv, PreparePersistFailsInv, UnpreparePersistFailsInv
             DEF FileFailure
<1>4. CASE Crash
  BY <1>4, TypeStep, GoDownInv DEF Crash
<1>5. CASE Recovery
  <2>1. ASSUME NEW c \in Claims, LoadRefuses(c) PROVE DriverInv'
    BY <2>1, TypeStep, GoDownInv DEF LoadRefuses, files
  <2>2. QED  BY <1>5, <2>1, NewDriverInv, LoadClaimInv, ServeInv DEF Recovery
<1>6. CASE UNCHANGED vars
  BY <1>6 DEF vars, DriverInv, DriverType, OwnersMatchPrepared, MemoryFollowsFile, FileDisjoint,
     CallKnows, LoadedHasCDI, GrantSurvives, ReleaseIsDurable
<1>7. QED  BY <1>1, <1>2, <1>3, <1>4, <1>5, <1>6 DEF Next

-------------------------------------------------------------------------------
\* The four copies of what is prepared agree as DriverInv says, through every
\* file error and crash.
THEOREM DriverCorrect == Spec => []DriverInv
<1>1. QED  BY InitInv, NextInv, PTL DEF Spec

\* The driver's state has its type through file errors, crashes and reboots.
THEOREM DriverTyped == Spec => []DriverType
BY DriverCorrect, PTL DEF DriverInv

\* The driver's owners map is the inverse of its prepared claims in every
\* reachable state, so that a device is refused exactly while a claim has it.
THEOREM OwnersFollowPrepared == Spec => []OwnersMatchPrepared
BY DriverCorrect, PTL DEF DriverInv

\* Every grant kubelet was given outlives file errors, crashes and reboots.
THEOREM GrantsSurvive == Spec => []GrantSurvives
<1>1. DriverInv => GrantSurvives
  BY DEF DriverInv
<1>2. QED  BY <1>1, DriverCorrect, PTL

\* A release that was answered with success is never undone.
THEOREM ReleasesAreDurable == Spec => []ReleaseIsDurable
<1>1. DriverInv => ReleaseIsDurable
  BY DEF DriverInv
<1>2. QED  BY <1>1, DriverCorrect, PTL

\* prepareClaim never gives kubelet one device for two claims.
THEOREM NoDeviceShared == Spec => []NoSharedDevice
<1>1. DriverInv => NoSharedDevice
  BY DEF DriverInv, GrantSurvives, FileDisjoint, NoSharedDevice
<1>2. QED  BY <1>1, DriverCorrect, PTL

\* load accepts every claim of a file the driver wrote, except one that names a
\* device twice.
THEOREM FilesLoad == Spec => []StateFileLoads
<1>1. ASSUME DriverInv, running = "loading", NEW c \in toLoad
      PROVE  LoadAccepts(c) \/ stateFile[c].repeated
  <2>1. c \in Claims /\ stateFile[c] \in Allocations
    BY <1>1 DEF DriverInv, DriverType, MemoryFollowsFile
  <2>2. ASSUME NEW d \in stateFile[c].devices PROVE owners[d] = NoClaim
    <3>1. d \in Devices
      BY <2>1, DriverAssumption
    <3>2. ASSUME NEW e \in Claims, owners[d] = e PROVE FALSE
      <4>1. prepared[e] # None /\ d \in prepared[e].devices
        BY <1>1, <3>1, <3>2 DEF DriverInv, OwnersMatchPrepared
      <4>2. e \notin toLoad /\ prepared[e] = stateFile[e]
        BY <1>1, <4>1 DEF DriverInv, MemoryFollowsFile
      <4>3. QED  BY <1>1, <2>1, <2>2, <4>1, <4>2, DriverAssumption DEF DriverInv, FileDisjoint
    <3>3. QED  BY <1>1, <3>1, <3>2 DEF DriverInv, DriverType
  <2>3. QED  BY <2>1, <2>2 DEF LoadAccepts
<1>2. DriverInv => StateFileLoads
  BY <1>1 DEF StateFileLoads
<1>3. QED  BY <1>2, DriverCorrect, PTL

-------------------------------------------------------------------------------
(***************************************************************************)
(* The state file implements exclusive ownership.                          *)
(***************************************************************************)

\* fileOwner is well defined: the owner it names is the only one.
FileOwned ==
  \A d \in Devices :
    /\ fileOwner[d] \in Claims \cup {NoClaim}
    /\ \A c \in Claims : fileOwner[d] = c <=> stateFile[c] # None /\ d \in stateFile[c].devices

LEMMA FileOwnerIs == DriverInv => FileOwned
<1>. SUFFICES ASSUME DriverInv, NEW d \in Devices
              PROVE  /\ fileOwner[d] \in Claims \cup {NoClaim}
                     /\ \A c \in Claims : fileOwner[d] = c
                          <=> stateFile[c] # None /\ d \in stateFile[c].devices
  BY DEF FileOwned
<1>. DEFINE Owns(c) == stateFile[c] # None /\ d \in stateFile[c].devices
<1>1. fileOwner[d] = IF \E c \in Claims : Owns(c) THEN CHOOSE c \in Claims : Owns(c) ELSE NoClaim
  BY DEF fileOwner
<1>2. \A c, e \in Claims : Owns(c) /\ Owns(e) => c = e
  BY DEF DriverInv, FileDisjoint
<1>3. CASE \E c \in Claims : Owns(c)
  <2>1. fileOwner[d] \in Claims /\ Owns(fileOwner[d])
    BY <1>1, <1>3
  <2>2. QED  BY <1>2, <2>1
<1>4. CASE ~ \E c \in Claims : Owns(c)
  BY <1>1, <1>4, DriverAssumption
<1>5. QED  BY <1>3, <1>4

\* fileOwner depends on the state file only.
LEMMA FileOwnerUnchanged == UNCHANGED stateFile => UNCHANGED fileOwner
BY DEF fileOwner

\* A successful Prepare takes all the devices of the claim, all of them free.
LEMMA PrepareAcquires ==
  DriverInv /\ FileOwned /\ FileOwned' /\ PreparePersists => Ownership!Next
<1>. SUFFICES ASSUME DriverInv, FileOwned, FileOwned', PreparePersists PROVE Ownership!Next
  OBVIOUS
<1>1. PICK c \in Claims, a \in Allocations : c = op.claim /\ a = op.devices
  BY OpType DEF PreparePersists, InStep
<1>2. /\ stateFile[c] = None /\ prepared = stateFile
      /\ stateFile' = [stateFile EXCEPT ![c] = a]
      /\ \A d \in a.devices : owners[d] = NoClaim
  BY <1>1 DEF PreparePersists, InStep, DriverInv, CallKnows, MemoryFollowsFile
<1>3. a # None /\ a.devices \subseteq Devices /\ a.devices # {}
  BY DriverAssumption
<1>4. \A e \in Claims : stateFile'[e] = IF e = c THEN a ELSE stateFile[e]
  BY <1>2 DEF DriverInv, DriverType
<1>5. \A d \in Devices : fileOwner[d] # c
  BY <1>2 DEF FileOwned
<1>6. \A d \in a.devices : fileOwner[d] = NoClaim
  BY <1>2, <1>3, DriverAssumption DEF FileOwned, DriverInv, OwnersMatchPrepared
<1>7. ASSUME NEW d \in Devices
      PROVE  fileOwner'[d] = IF d \in a.devices THEN c ELSE fileOwner[d]
  BY <1>3, <1>4, <1>5, DriverAssumption DEF FileOwned
<1>8. fileOwner' = [d \in Devices |-> IF d \in a.devices THEN c ELSE fileOwner[d]]
  BY <1>7, Zenon DEF fileOwner
<1>9. Ownership!Acquire(c, a.devices)
  BY <1>3, <1>5, <1>6, <1>8 DEF Ownership!Acquire, Ownership!HeldBy
<1>10. QED  BY <1>3, <1>9 DEF Ownership!Next

\* A successful Unprepare gives all the devices of the claim back.
LEMMA UnprepareReleases ==
  DriverInv /\ FileOwned /\ FileOwned' /\ UnpreparePersists => Ownership!Next
<1>. SUFFICES ASSUME DriverInv, FileOwned, FileOwned', UnpreparePersists PROVE Ownership!Next
  OBVIOUS
<1>1. PICK c \in Claims, a \in Allocations : c = op.claim /\ a = op.devices
  BY OpType DEF UnpreparePersists, InStep
<1>2. stateFile[c] = a /\ stateFile' = [stateFile EXCEPT ![c] = None]
  BY <1>1 DEF UnpreparePersists, InStep, DriverInv, CallKnows, MemoryFollowsFile
<1>3. a # None /\ a.devices \subseteq Devices /\ a.devices # {}
  BY DriverAssumption
<1>4. \A e \in Claims : stateFile'[e] = IF e = c THEN None ELSE stateFile[e]
  BY <1>2 DEF DriverInv, DriverType
<1>5. PICK d \in Devices : fileOwner[d] = c
  BY <1>2, <1>3 DEF FileOwned
<1>6. ASSUME NEW e \in Devices
      PROVE  fileOwner'[e] = IF fileOwner[e] = c THEN NoClaim ELSE fileOwner[e]
  BY <1>4, DriverAssumption DEF FileOwned
<1>7. fileOwner' = [e \in Devices |-> IF fileOwner[e] = c THEN NoClaim ELSE fileOwner[e]]
  BY <1>6, Zenon DEF fileOwner
<1>8. Ownership!Release(c)
  BY <1>5, <1>7 DEF Ownership!Release, Ownership!HeldBy
<1>9. QED  BY <1>8 DEF Ownership!Next

\* Only a successful persist changes the state file.
LEMMA FileStep ==
  [Next]_vars => UNCHANGED stateFile \/ PreparePersists \/ UnpreparePersists
<1>. SUFFICES ASSUME [Next]_vars, ~PreparePersists, ~UnpreparePersists
              PROVE  UNCHANGED stateFile
  OBVIOUS
<1>. USE DEF files
<1>1. CASE Call
  BY <1>1 DEF Call, prepareClaim, unprepareClaim
<1>2. CASE CallStep
  BY <1>2 DEF CallStep, PrepareWritesCDI, PrepareRewritesCDI, PrepareRollsBack,
     UnprepareRemovesCDI, UnprepareRestoresCDI
<1>3. CASE FileFailure
  BY <1>3 DEF FileFailure, PrepareCDIFails, PreparePersistFails, UnprepareRemoveFails,
     UnpreparePersistFails, LoadFails
<1>4. CASE Crash \/ Recovery
  BY <1>4 DEF Crash, Recovery, NewDriver, Serve, LoadClaim, LoadRefuses
<1>5. QED  BY <1>1, <1>2, <1>3, <1>4 DEF Next, vars

\* ADR-0005's persistent ownership: the state file implements exclusive
\* ownership of the devices, whatever fails and whenever the process dies.
THEOREM DriverImplementsOwnership == Spec => FileIsExclusive
<1>1. Init => Ownership!Init
  BY DEF Init, Nothing, fileOwner, Ownership!Init
<1>2. DriverInv /\ FileOwned /\ FileOwned' /\ [Next]_vars => [Ownership!Next]_fileOwner
  BY FileStep, FileOwnerUnchanged, PrepareAcquires, UnprepareReleases
<1>3. QED
  BY <1>1, <1>2, DriverCorrect, FileOwnerIs, PTL DEF Spec, FileIsExclusive, Ownership!Spec
===============================================================================
