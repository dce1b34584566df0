-------------------------- MODULE ReferencePipeline --------------------------
(***************************************************************************)
(* How the reference oracle comes into being: one operator runs the        *)
(* commands of `osbench payload` and `osbench reference`, which write      *)
(* artifacts one from another, and asks `osbench reference preflight` what *)
(* to run next.  Most commands write in place and may be killed in the     *)
(* middle; preflight looks only at what is on disk.                        *)
(*                                                                         *)
(* A hash is represented by what was hashed.                               *)
(***************************************************************************)
EXTENDS Naturals, FiniteSets, Sequences, SequencesExt

CONSTANTS
    Hosts,          \* the sets of tools that a host may have
    HostIsDebian,   \* does the host's package list name a kernel, systemd and libc?
    Profile,        \* the QEMU profiles in config/qemu.yaml
    Environment,    \* OSBENCH_PROFILE
    MaxUnasked,     \* bound: commands and boots that nothing asked for
    MaxFaults,      \* bound: commands killed, failing, or fed a bad download
    MaxEdits,       \* bound: edits of the sources and of lock.json
    Host,           \* the origin of a package list collected on the host
    Nothing         \* no file, no value

\* What preflight looks for: groups of tools that are there as a whole or not at
\* all, the keyring of the Debian roles, and QEMU with its firmware.
Tools ==
    {"acquisition", "role keyring", "compilers", "xorriso", "qemu-img", "emulator",
     "guestfish", "virt-copy-out"}

\* The container has what its packages bring; none of them is debian-keyring.
ContainerTools == Tools \ {"role keyring"}

ASSUME PipelineAssumption ==
    /\ Hosts \subseteq SUBSET Tools
    /\ HostIsDebian \in BOOLEAN
    /\ Environment \in Profile
    /\ {MaxUnasked, MaxFaults, MaxEdits} \subseteq Nat

VARIABLES
    tools,      \* the tools at hand: the host's, or the container's
    asked,      \* the profile preflight is asked about
    verify,     \* preflight runs with --verify-hashes
    boots,      \* the operator boots an installed image outside osbench
    classifies, \* the guest answers a crash case with an outcome class
    disk,       \* the files, see Empty
    job,        \* the next step of the command that is running
    unasked, faults, edits  \* counters

bounds == <<unasked, faults, edits>>
givens == <<asked, verify, boots, classifies>>
vars == <<tools, givens, disk, job, bounds>>

Idle == [at |-> "idle", profile |-> Environment, observed |-> Nothing]

Empty ==
    [sourceLock  |-> TRUE,      \* lock.json's benchmark_artifacts are what _measure finds
     sections    |-> 0,         \* lock.json's other sections, by version
     sums        |-> "absent",  \* the cached SHA256SUMS and its signature
     iso         |-> "absent",  \* the cached installer ISO
     tree        |-> [parts |-> {}, digest |-> Nothing],  \* artifacts/payload/staging
     payload     |-> Nothing,   \* osbench-payload.iso
     image       |-> Nothing,   \* debian-13.6-amd64.qcow2
     packages    |-> Nothing,   \* inventory/packages.tsv, by its origin
     manifest    |-> Nothing,   \* inventory/manifest.json, by its origin
     rootfs      |-> Nothing,   \* debian-13.6-rootfs.tar
     layers      |-> {},        \* the blobs of the OCI layout
     archive     |-> Nothing,   \* the OCI archive
     calibration |-> [p \in Profile |-> Nothing],  \* unsynced_outcomes.<profile>.json
     realized    |-> Nothing,   \* lock.realized.json
     builds      |-> 0]         \* images and payloads made so far; no two are alike

At(step) == job.at = step

Go(step) == job' = [job EXCEPT !.at = step]

\* The command has come to its end, or has failed.
Exit == job' = Idle

Write(new) == disk' = new

Same == UNCHANGED <<tools, givens, bounds>>

-----------------------------------------------------------------------------
(* Preflight.  A definition whose name extends the name of the next one is *)
(* that one with a mistake in it; no specification uses it.                *)

Present(artifact) == artifact # Nothing

InvalidIso == disk.iso = "resized" \/ (verify /\ disk.iso = "corrupt")

CalibrationReady ==
    LET document == disk.calibration[asked]
    IN  /\ Present(document) /\ Present(disk.image) /\ Present(disk.payload)
        /\ verify => /\ document.image = disk.image
                     /\ document.payload = disk.payload

Identified(origin) == Present(origin) /\ (origin = Host => HostIsDebian)

Exported == Present(disk.rootfs) /\ Present(disk.archive)

\* Everything the lock is made from, except the calibration.
Collected ==
    Present(disk.payload) /\ Present(disk.image) /\ Present(disk.manifest) /\ Exported

\* Nothing compares the inventory, or any source but the lock's own sections.
LockReady ==
    LET lock == disk.realized
    IN  /\ Present(lock) /\ Collected /\ CalibrationReady
        /\ lock.materialized
        /\ lock.sections = disk.sections
        /\ Present(lock.rootfs) /\ Present(lock.archive)
        /\ lock.profile = asked
        /\ verify => /\ lock.image = disk.image /\ lock.payload = disk.payload
                     /\ lock.rootfs = disk.rootfs /\ lock.archive = disk.archive
                     /\ lock.calibration = disk.calibration[asked]

StagesReady == Tools \subseteq tools

NextActionExportFirst ==
    IF ~disk.sourceLock THEN "lock-sources"
    ELSE IF LockReady THEN "none"
    ELSE IF Collected /\ CalibrationReady THEN "lock-realize"
    ELSE IF ~StagesReady THEN "docker compose build"
    ELSE IF InvalidIso THEN "remove iso"
    ELSE IF ~Present(disk.payload) THEN "payload build"
    ELSE IF ~Present(disk.image) THEN "reference build"
    ELSE IF ~Exported THEN "export-oci"
    ELSE IF ~Present(disk.manifest) THEN "inventory"
    ELSE "calibrate-unsynced"

NextActionAnyLock ==
    IF ~disk.sourceLock THEN "lock-sources"
    ELSE IF LockReady THEN "none"
    ELSE IF Collected /\ Present(disk.calibration[asked]) THEN "lock-realize"
    ELSE IF ~StagesReady THEN "docker compose build"
    ELSE IF InvalidIso THEN "remove iso"
    ELSE IF ~Present(disk.payload) THEN "payload build"
    ELSE IF ~Present(disk.image) THEN "reference build"
    ELSE IF ~Present(disk.manifest) THEN "inventory"
    ELSE IF ~Exported THEN "export-oci"
    ELSE "calibrate-unsynced"

\* preflight's next_action.  Its last two branches, a calibration that is not
\* ready and lock-realize, are one: the second cannot be reached.
NextAction ==
    IF ~disk.sourceLock THEN "lock-sources"
    ELSE IF LockReady THEN "none"
    ELSE IF Collected /\ CalibrationReady THEN "lock-realize"
    ELSE IF ~StagesReady THEN "docker compose build"
    ELSE IF InvalidIso THEN "remove iso"
    ELSE IF ~Present(disk.payload) THEN "payload build"
    ELSE IF ~Present(disk.image) THEN "reference build"
    ELSE IF ~Present(disk.manifest) THEN "inventory"
    ELSE IF ~Exported THEN "export-oci"
    ELSE "calibrate-unsynced"

-----------------------------------------------------------------------------
(* Starting a command.                                                     *)

Command ==
    {"lock-sources", "lock-realize", "docker compose build", "remove iso", "payload build",
     "reference build", "inventory", "export-oci", "calibrate-unsynced"}

Start(command, profile) ==
    /\ job' = [Idle EXCEPT !.at = command, !.profile = profile]
    /\ UNCHANGED <<tools, givens, disk, faults, edits>>

\* The command preflight prints names no profile.
Follow ==
    /\ At("idle") /\ NextAction # "none"
    /\ Start(NextAction, Environment)
    /\ UNCHANGED unasked

RunUnasked ==
    /\ At("idle") /\ unasked < MaxUnasked
    /\ unasked' = unasked + 1
    /\ \E command \in Command, profile \in Profile : Start(command, profile)

-----------------------------------------------------------------------------
(* The commands of one step.                                               *)

LockSources ==
    /\ At("lock-sources")
    /\ Write([disk EXCEPT !.sourceLock = TRUE])
    /\ Exit /\ Same

\* The operator goes on in the container.
DockerBuild ==
    /\ At("docker compose build")
    /\ tools' = ContainerTools
    /\ Exit
    /\ UNCHANGED <<givens, disk, bounds>>

RemoveIso ==
    /\ At("remove iso")
    /\ Write([disk EXCEPT !.iso = "absent"])
    /\ Exit /\ Same

-----------------------------------------------------------------------------
(* payload build.                                                          *)

\* The order of copying; the scripts are the parts of the sources that
\* validate_payload_tree looks for.
Parts == <<"agent", "artifacts", "scripts", "sources">>

StageClear ==
    /\ At("payload build")
    /\ Write([disk EXCEPT !.tree = Empty.tree])
    /\ Go("stage") /\ Same

StageCopy ==
    /\ At("stage")
    /\ Cardinality(disk.tree.parts) < Len(Parts)
    /\ Write([disk EXCEPT !.tree.parts = @ \cup {Parts[Cardinality(@) + 1]}])
    /\ UNCHANGED job /\ Same

StageManifest ==
    /\ At("stage")
    /\ Cardinality(disk.tree.parts) = Len(Parts)
    /\ Write([disk EXCEPT !.tree.digest = disk.tree.parts])
    /\ IF "xorriso" \in tools THEN Go("xorriso") ELSE Exit
    /\ Same

ValidTreeByFiles ==
    /\ {"agent", "scripts"} \subseteq disk.tree.parts
    /\ Present(disk.tree.digest) => disk.tree.digest = disk.tree.parts

\* validate_payload_tree: the required files, one of them the manifest, and the
\* digest in it.
ValidTree ==
    /\ {"agent", "scripts"} \subseteq disk.tree.parts
    /\ Present(disk.tree.digest)
    /\ disk.tree.digest = disk.tree.parts

\* xorriso writes the ISO under its final name.
XorrisoStarts ==
    /\ At("xorriso")
    /\ Write([disk EXCEPT !.payload = [build |-> disk.builds + 1, whole |-> FALSE],
                          !.builds = @ + 1])
    /\ Go("xorriso ends") /\ Same

XorrisoEnds ==
    /\ At("xorriso ends")
    /\ Write([disk EXCEPT !.payload.whole = TRUE])
    /\ Exit /\ Same

-----------------------------------------------------------------------------
(* reference build: build_image.sh.                                        *)

\* A download is moved to its name when it is complete; a file that is there is
\* not fetched again.
FetchSums ==
    /\ At("reference build") /\ "acquisition" \in tools
    /\ Write([disk EXCEPT !.sums = IF @ = "absent" THEN "good" ELSE @])
    /\ Go("check sums") /\ Same

FetchIso ==
    /\ At("fetch iso")
    /\ Write([disk EXCEPT !.iso = IF @ = "absent" THEN "good" ELSE @])
    /\ Go("check iso") /\ Same

\* What a download brings is damaged: SHA256SUMS has another signature or does not
\* name the hash in the lock, the ISO another size or other contents.
FetchBad ==
    /\ faults < MaxFaults
    /\ faults' = faults + 1
    /\ \/ /\ At("reference build") /\ "acquisition" \in tools
          /\ disk.sums = "absent"
          /\ \E bad \in {"unsigned", "wrong"} : Write([disk EXCEPT !.sums = bad])
          /\ Go("check sums")
       \/ /\ At("fetch iso")
          /\ disk.iso = "absent"
          /\ \E bad \in {"resized", "corrupt"} : Write([disk EXCEPT !.iso = bad])
          /\ Go("check iso")
    /\ UNCHANGED <<tools, givens, unasked, edits>>

CannotFetch ==
    /\ At("reference build") /\ "acquisition" \notin tools
    /\ Exit
    /\ UNCHANGED disk /\ Same

\* Without the role keyring the signature is checked with the archive's, which may
\* not know the key, or not at all.
CheckSums ==
    /\ At("check sums")
    /\ \/ /\ disk.sums # "wrong"
          /\ "role keyring" \in tools => disk.sums = "good"
          /\ Go("fetch iso")
       \/ /\ "role keyring" \in tools => disk.sums # "good"
          /\ Exit
    /\ UNCHANGED disk /\ Same

\* The ISO is compared with the lock every time, and customized with xorriso.
CheckIso ==
    /\ At("check iso")
    /\ IF disk.iso = "good" /\ "xorriso" \in tools THEN Go("create") ELSE Exit
    /\ UNCHANGED disk /\ Same

\* The old image is removed, an empty one created; it stays if there is no
\* firmware to install it with.
CreateImage ==
    /\ At("create")
    /\ IF "qemu-img" \in tools
         THEN Write([disk EXCEPT
                       !.image = [build |-> disk.builds + 1, installed |-> FALSE, boot |-> 0],
                       !.builds = @ + 1])
         ELSE Write([disk EXCEPT !.image = Nothing])
    /\ IF {"qemu-img", "emulator"} \subseteq tools THEN Go("install") ELSE Exit
    /\ Same

\* An installer that reaches its timeout counts as a success: that is Stop here.
Install ==
    /\ At("install")
    /\ Write([disk EXCEPT !.image.installed = TRUE])
    /\ Exit /\ Same

-----------------------------------------------------------------------------
(* inventory.                                                              *)

FromImage == Present(disk.image) /\ "virt-copy-out" \in tools

\* collect.sh removes the old inventory first.
InventoryClear ==
    /\ At("inventory") /\ FromImage
    /\ Write([disk EXCEPT !.packages = Nothing, !.manifest = Nothing])
    /\ Go("copy out") /\ Same

\* osbench never writes to the image: every VM it starts runs with -snapshot.
\* The guest's inventory is in the image only after it was booted in another way.
CopyOut ==
    /\ At("copy out")
    /\ IF disk.image.boot > 0
         THEN Write([disk EXCEPT !.packages = disk.image, !.manifest = disk.image])
         ELSE UNCHANGED disk
    /\ Exit /\ Same

\* collect_reference runs where osbench runs; packages first, manifest last.
HostPackages ==
    /\ At("inventory") /\ ~FromImage
    /\ Write([disk EXCEPT !.packages = Host])
    /\ Go("host manifest") /\ Same

HostManifest ==
    /\ At("host manifest")
    /\ Write([disk EXCEPT !.manifest = Host])
    /\ Exit /\ Same

-----------------------------------------------------------------------------
(* export-oci.                                                             *)

RootfsStarts ==
    /\ At("export-oci")
    /\ IF /\ Present(disk.image) /\ "guestfish" \in tools
          /\ disk.image.installed
         THEN /\ Write([disk EXCEPT !.rootfs = [of |-> disk.image, whole |-> FALSE]])
              /\ Go("rootfs ends")
         ELSE Exit /\ UNCHANGED disk
    /\ Same

RootfsEnds ==
    /\ At("rootfs ends")
    /\ Write([disk EXCEPT !.rootfs.whole = TRUE])
    /\ Go("layer") /\ Same

\* A blob is written under the name of what it should hold; one that is there is
\* not looked at.
LayerThere == \E layer \in disk.layers : layer.of = disk.rootfs

LayerStarts ==
    /\ At("layer")
    /\ IF LayerThere
         THEN UNCHANGED disk /\ Go("archive")
         ELSE /\ Write([disk EXCEPT !.layers = @ \cup {[of |-> disk.rootfs, whole |-> FALSE]}])
              /\ Go("layer ends")
    /\ Same

LayerEnds ==
    /\ At("layer ends")
    /\ Write([disk EXCEPT !.layers = (@ \ {[of |-> disk.rootfs, whole |-> FALSE]})
                                     \cup {[of |-> disk.rootfs, whole |-> TRUE]}])
    /\ Go("archive") /\ Same

Other(document) == IF Present(document) THEN ~document.copy ELSE TRUE

\* Two archives of one tree differ in their times, two calibrations of one
\* oracle in their durations: copy tells a file from the one it replaces.
ArchiveStarts ==
    /\ At("archive")
    /\ Write([disk EXCEPT
                 !.archive = [layer |-> CHOOSE layer \in disk.layers : layer.of = disk.rootfs,
                              whole |-> FALSE,
                              copy  |-> Other(@)]])
    /\ Go("archive ends") /\ Same

ArchiveEnds ==
    /\ At("archive ends")
    /\ Write([disk EXCEPT !.archive.whole = TRUE])
    /\ Exit /\ Same

-----------------------------------------------------------------------------
(* calibrate-unsynced.                                                     *)

CanCalibrateAnyImage ==
    /\ Present(disk.payload) /\ "emulator" \in tools
    /\ Present(disk.image) => disk.image.installed
    /\ classifies

CanCalibrate ==
    /\ Present(disk.image) /\ Present(disk.payload) /\ "emulator" \in tools
    /\ disk.image.installed
    /\ classifies

Trials ==
    /\ At("calibrate-unsynced")
    /\ IF CanCalibrate
         THEN job' = [job EXCEPT !.at = "document",
                                 !.observed = [image |-> disk.image, payload |-> disk.payload]]
         ELSE Exit
    /\ UNCHANGED disk /\ Same

\* The hashes are taken after the trials.
WriteCalibration ==
    /\ At("document")
    /\ Write([disk EXCEPT !.calibration[job.profile] =
                [image    |-> disk.image,
                 payload  |-> disk.payload,
                 observed |-> job.observed,
                 profile  |-> job.profile,
                 copy     |-> Other(@)]])
    /\ Exit /\ Same

-----------------------------------------------------------------------------
(* lock-realize.                                                           *)

BoundByImage(document) ==
    /\ Present(document)
    /\ document.image = disk.image

\* _realize_unsynced_calibration takes a document that names these artifacts.
Bound(document) ==
    /\ Present(document)
    /\ document.image = disk.image
    /\ document.payload = disk.payload

RealizeLock ==
    LET document == disk.calibration[Environment]
        bound    == Bound(document)
    IN  /\ At("lock-realize")
        /\ Write([disk EXCEPT !.realized =
                    [image        |-> disk.image,
                     package      |-> disk.manifest,
                     versions     |-> disk.packages,
                     rootfs       |-> disk.rootfs,
                     archive      |-> disk.archive,
                     payload      |-> disk.payload,
                     calibration  |-> IF bound THEN document ELSE Nothing,
                     profile      |-> IF bound THEN Environment ELSE Nothing,
                     sections     |-> disk.sections,
                     materialized |->
                       /\ Present(disk.image) /\ Present(disk.payload)
                       /\ Present(disk.manifest) /\ Identified(disk.packages)
                       /\ bound]])
        /\ Exit /\ Same

-----------------------------------------------------------------------------
(* The environment.                                                        *)

\* The command is killed, or the tool it runs fails.
Stop ==
    /\ ~At("idle")
    /\ faults < MaxFaults
    /\ faults' = faults + 1
    /\ Exit
    /\ UNCHANGED <<tools, givens, disk, unasked, edits>>

\* Booted without -snapshot, the image changes: each start of the guest's agent
\* writes the inventory into it.
BootedImage == [disk EXCEPT !.image.boot = @ + 1]

CanBoot == boots /\ At("idle") /\ Present(disk.image) /\ disk.image.installed

\* A failing inventory asks for the first boot.
BootByHand ==
    /\ CanBoot
    /\ NextAction = "inventory" /\ disk.image.boot = 0
    /\ Write(BootedImage)
    /\ UNCHANGED job /\ Same

BootUnasked ==
    /\ CanBoot
    /\ unasked < MaxUnasked
    /\ unasked' = unasked + 1
    /\ Write(BootedImage)
    /\ UNCHANGED <<tools, givens, job, faults, edits>>

\* Someone edits the benchmark's artifacts, or another section of lock.json.
Edit ==
    /\ edits < MaxEdits
    /\ edits' = edits + 1
    /\ \/ Write([disk EXCEPT !.sourceLock = FALSE])
       \/ Write([disk EXCEPT !.sections = @ + 1])
    /\ UNCHANGED <<tools, givens, job, unasked, faults>>

-----------------------------------------------------------------------------
Init ==
    /\ tools \in Hosts
    /\ asked \in Profile
    /\ verify \in BOOLEAN /\ boots \in BOOLEAN /\ classifies \in BOOLEAN
    /\ disk = Empty
    /\ job = Idle
    /\ unasked = 0 /\ faults = 0 /\ edits = 0

Payload == StageClear \/ StageCopy \/ StageManifest \/ XorrisoStarts \/ XorrisoEnds

Image ==
    \/ FetchSums \/ FetchIso \/ FetchBad \/ CannotFetch \/ CheckSums \/ CheckIso
    \/ CreateImage \/ Install

Inventory == InventoryClear \/ CopyOut \/ HostPackages \/ HostManifest

Export ==
    RootfsStarts \/ RootfsEnds \/ LayerStarts \/ LayerEnds \/ ArchiveStarts \/ ArchiveEnds

Calibrate == Trials \/ WriteCalibration

Step ==
    \/ LockSources \/ DockerBuild \/ RemoveIso \/ Payload \/ Image \/ Inventory
    \/ Export \/ Calibrate \/ RealizeLock

Operator == Follow \/ Step

\* There is nothing left to do.
Done ==
    /\ At("idle") /\ NextAction = "none"
    /\ UNCHANGED vars

Next == Operator \/ RunUnasked \/ Stop \/ BootByHand \/ BootUnasked \/ Edit \/ Done

Spec == Init /\ [][Next]_vars

\* The operator goes on, and in the end boots the image when an inventory that
\* fails asks for it.
FairSpec == Spec /\ WF_vars(Operator) /\ SF_vars(BootByHand)

-----------------------------------------------------------------------------
(* Properties.                                                             *)

ImageType == [build : Nat, installed : BOOLEAN, boot : Nat]
PayloadType == [build : Nat, whole : BOOLEAN]
Oracle == [image : ImageType, payload : PayloadType]

CalibrationType ==
    [image : ImageType, payload : PayloadType, observed : Oracle, profile : Profile,
     copy : BOOLEAN]

Points ==
    Command \cup
    {"idle", "stage", "xorriso", "xorriso ends", "check sums", "fetch iso", "check iso",
     "create", "install", "copy out", "host manifest", "rootfs ends", "layer",
     "layer ends", "archive", "archive ends", "document"}

RootfsType == [of : ImageType, whole : BOOLEAN]
LayerType == [of : RootfsType, whole : BOOLEAN]
ArchiveType == [layer : LayerType, whole : BOOLEAN, copy : BOOLEAN]

PackagesType == ImageType \cup {Host, Nothing}

LockType ==
    [image        : ImageType \cup {Nothing},
     package      : PackagesType,
     versions     : PackagesType,
     rootfs       : RootfsType \cup {Nothing},
     archive      : ArchiveType \cup {Nothing},
     payload      : PayloadType \cup {Nothing},
     calibration  : CalibrationType \cup {Nothing},
     profile      : Profile \cup {Nothing},
     sections     : Nat,
     materialized : BOOLEAN]

TreeType ==
    [parts : SUBSET ToSet(Parts), digest : (SUBSET ToSet(Parts)) \cup {Nothing}]

DiskType ==
    [sourceLock  : BOOLEAN,
     sections    : Nat,
     sums        : {"absent", "good", "unsigned", "wrong"},
     iso         : {"absent", "good", "resized", "corrupt"},
     tree        : TreeType,
     payload     : PayloadType \cup {Nothing},
     image       : ImageType \cup {Nothing},
     packages    : PackagesType,
     manifest    : PackagesType,
     rootfs      : RootfsType \cup {Nothing},
     layers      : SUBSET LayerType,
     archive     : ArchiveType \cup {Nothing},
     calibration : [Profile -> CalibrationType \cup {Nothing}],
     realized    : LockType \cup {Nothing},
     builds      : Nat]

ASSUME NothingAssumption ==
    Nothing \notin ImageType \cup PayloadType \cup RootfsType \cup ArchiveType

\* Files, tools and the running command have their types: no command works on a
\* file that is not there.
TypeOK ==
    /\ tools \subseteq Tools
    /\ asked \in Profile
    /\ verify \in BOOLEAN /\ boots \in BOOLEAN /\ classifies \in BOOLEAN
    /\ disk \in DiskType
    /\ job \in [at : Points, profile : Profile, observed : Oracle \cup {Nothing}]
    /\ unasked \in Nat /\ faults \in Nat /\ edits \in Nat

\* docs/REFERENCE.md:15 and the docstring of _realize_unsynced_calibration: a
\* lock that calls itself materialized carries a calibration for its profile,
\* whose outcomes were observed on the image and the payload the lock records,
\* whatever was rebuilt, killed or run out of order before.
MaterializedIsCalibrated ==
    Present(disk.realized) /\ disk.realized.materialized =>
        LET lock == disk.realized
        IN  /\ Present(lock.calibration)
            /\ lock.calibration.observed = [image |-> lock.image, payload |-> lock.payload]
            /\ lock.calibration.profile = lock.profile

\* An operator who only runs what preflight asks for, and whose commands all
\* succeed, ends with a lock in which everything comes from one image: the order
\* of preflight's checks is such that nothing is derived from an image that is
\* still to change.  Preflight itself compares neither inventory nor exports with
\* the image.
FollowedLockIsCoherent ==
    (unasked = 0 /\ faults = 0 /\ At("idle") /\ LockReady) =>
        LET lock == disk.realized
        IN  /\ disk.image.installed /\ disk.payload.whole
            /\ lock.image = disk.image
            /\ lock.package = lock.image /\ lock.versions = lock.image
            /\ lock.rootfs = [of |-> lock.image, whole |-> TRUE]
            /\ lock.archive.layer = [of |-> lock.rootfs, whole |-> TRUE]
            /\ lock.archive.whole

\* A staging tree that validate_payload_tree accepts was staged to its end, even
\* if another staging was killed in the middle.
ValidTreeIsWhole == ValidTree => disk.tree.parts = ToSet(Parts)

\* Preflight asks for a command that cannot bring it further.
Blocked ==
    \/ asked # Environment
    \/ Present(disk.image) /\ ~disk.image.installed
    \/ NextAction = "docker compose build" /\ tools = ContainerTools
    \/ ~Present(disk.image) /\ disk.sums \in {"unsigned", "wrong"}
    \/ disk.iso = "corrupt" /\ ~verify
    \/ ~boots /\ ~Present(disk.manifest)
    \/ Present(disk.manifest) /\ ~Identified(disk.packages)
    \/ ~classifies /\ ~CalibrationReady
    \/ ~verify /\ Present(disk.calibration[asked]) /\ ~Bound(disk.calibration[asked])

\* Following preflight's next action (docs/REFERENCE.md:17) comes to an end, even
\* after commands run out of order, edits and failures, unless preflight looks at
\* another profile than the commands; or something is there that it takes for good
\* without looking: an image whose installer did not finish, a bad SHA256SUMS, an
\* inventory that names no kernel, or, without --verify-hashes, a bad ISO or a
\* calibration of other artifacts; or its command can never do what it is for: the
\* container lacks a keyring like the host, nobody boots the image, which osbench
\* itself never does, or the guest names no outcome class.
FollowingEnds == <>[](NextAction = "none") \/ <>[]Blocked
=============================================================================
