----------------------- MODULE ReferencePipelineProofs -----------------------
(***************************************************************************)
(* What holds of the reference pipeline for every set of profiles and      *)
(* tools, and however many commands run out of order, fail, are killed or  *)
(* meet an edit.                                                           *)
(***************************************************************************)
EXTENDS ReferencePipeline, FiniteSetTheorems, TLAPS

\* The groups of variables that UNCHANGED names, and how steps are written.
USE DEF givens, bounds, At, Go, Exit, Idle, Write, Same, Present

-----------------------------------------------------------------------------
(* Types.  What was given stays as it is; the counters count.              *)

JobType == [at : Points, profile : Profile, observed : Oracle \cup {Nothing}]

GivenTyped ==
    /\ tools \subseteq Tools /\ asked \in Profile
    /\ verify \in BOOLEAN /\ boots \in BOOLEAN /\ classifies \in BOOLEAN

CountTyped == unasked \in Nat /\ faults \in Nat /\ edits \in Nat

LEMMA GivensStay ==
    ASSUME [Next]_vars
    PROVE  givens' = givens /\ (tools' = tools \/ tools' = ContainerTools)
BY DEF Next, Operator, Follow, Step, Payload, Image, Inventory, Export, Calibrate,
       LockSources, DockerBuild, RemoveIso, StageClear, StageCopy, StageManifest,
       XorrisoStarts, XorrisoEnds, FetchSums, FetchIso, FetchBad, CannotFetch, CheckSums,
       CheckIso, CreateImage, Install,
       InventoryClear, CopyOut, HostPackages, HostManifest, RootfsStarts, RootfsEnds,
       LayerStarts, LayerEnds, ArchiveStarts, ArchiveEnds, Trials, WriteCalibration,
       RealizeLock, RunUnasked, Stop, BootByHand, BootUnasked, Edit, Done, Start, vars

LEMMA Counting == ASSUME CountTyped, [Next]_vars PROVE CountTyped'
<1>1. CASE Step \/ BootByHand \/ Done \/ UNCHANGED vars
  <2>1. bounds' = bounds \/ FetchBad
    BY <1>1 DEF Step, Payload, Image, Inventory, Export, Calibrate,
       LockSources, DockerBuild, RemoveIso, StageClear, StageCopy, StageManifest,
       XorrisoStarts, XorrisoEnds, FetchSums, FetchIso, CannotFetch, CheckSums, CheckIso,
       CreateImage, Install,
       InventoryClear, CopyOut, HostPackages, HostManifest, RootfsStarts, RootfsEnds,
       LayerStarts, LayerEnds, ArchiveStarts, ArchiveEnds, Trials, WriteCalibration,
       RealizeLock, BootByHand, Done, vars
  <2>2. CASE FetchBad
    <3>1. faults' = faults + 1 /\ unasked' = unasked /\ edits' = edits
      BY <2>2 DEF FetchBad
    <3>2. QED BY <3>1 DEF CountTyped
  <2>3. QED BY <2>1, <2>2 DEF CountTyped
<1>2. CASE Follow
  BY <1>2 DEF Follow, Start, CountTyped
<1>3. CASE RunUnasked
  <2>1. unasked' = unasked + 1 /\ faults' = faults /\ edits' = edits
    BY <1>3 DEF RunUnasked, Start
  <2>2. QED BY <2>1 DEF CountTyped
<1>4. CASE Stop
  <2>1. faults' = faults + 1 /\ unasked' = unasked /\ edits' = edits
    BY <1>4 DEF Stop
  <2>2. QED BY <2>1 DEF CountTyped
<1>5. CASE Edit
  <2>1. edits' = edits + 1 /\ faults' = faults /\ unasked' = unasked
    BY <1>5 DEF Edit
  <2>2. QED BY <2>1 DEF CountTyped
<1>6. CASE BootUnasked
  <2>1. unasked' = unasked + 1 /\ faults' = faults /\ edits' = edits
    BY <1>6 DEF BootUnasked
  <2>2. QED BY <2>1 DEF CountTyped
<1>7. QED BY <1>1, <1>2, <1>3, <1>4, <1>5, <1>6 DEF Next, Operator

-----------------------------------------------------------------------------
(* A command that is past its first step has what it works on, and what a  *)
(* calibration observed is still there when its hashes are taken.          *)

ExportPoints == {"rootfs ends", "layer", "layer ends", "archive", "archive ends"}

JobInv ==
    /\ At("xorriso ends") => disk.payload \in PayloadType
    /\ At("install") \/ At("copy out") => disk.image \in ImageType
    /\ job.at \in ExportPoints => disk.rootfs \in RootfsType
    /\ At("archive") => LayerThere
    /\ At("archive ends") => disk.archive \in ArchiveType
    /\ At("document") =>
         /\ disk.image \in ImageType /\ disk.payload \in PayloadType
         /\ job.observed = [image |-> disk.image, payload |-> disk.payload]

FilesTyped == disk \in DiskType /\ job \in JobType /\ JobInv

\* The parts of the payload tree, and how many they are.
LEMMA PartsNamed ==
    /\ ToSet(Parts) = {"agent", "artifacts", "scripts", "sources"}
    /\ IsFiniteSet(ToSet(Parts)) /\ Cardinality(ToSet(Parts)) = Len(Parts)
<1> DEFINE A == {"agent"}
           B == A \cup {"artifacts"}
           C == B \cup {"scripts"}
           D == C \cup {"sources"}
<1>1. ToSet(Parts) = D
  <2>1. DOMAIN Parts = 1..4
    BY DEF Parts
  <2>2. ASSUME NEW x PROVE x \in ToSet(Parts) <=> x \in D
    <3>1. x \in ToSet(Parts) <=> \E i \in 1..4 : x = Parts[i]
      BY <2>1 DEF ToSet
    <3>2. QED BY <3>1 DEF Parts
  <2>3. QED BY <2>2
<1>2. IsFiniteSet(A) /\ Cardinality(A) = 1
  BY FS_Singleton
<1>3. IsFiniteSet(B) /\ Cardinality(B) = 2
  BY <1>2, FS_AddElement
<1>4. IsFiniteSet(C) /\ Cardinality(C) = 3
  BY <1>3, FS_AddElement
<1>5. IsFiniteSet(D) /\ Cardinality(D) = 4
  BY <1>4, FS_AddElement
<1>6. Len(Parts) = 4
  BY DEF Parts
<1>7. QED BY <1>1, <1>5, <1>6

LEMMA InitFiles == Init => FilesTyped
<1> SUFFICES ASSUME Init PROVE FilesTyped
  OBVIOUS
<1>1. disk \in DiskType
  <2>1. Empty.tree \in TreeType
    BY DEF Empty, TreeType
  <2>2. QED BY <2>1 DEF Init, Empty, DiskType, PackagesType
<1>2. job \in JobType /\ At("idle")
  BY PipelineAssumption DEF Init, JobType, Points
<1>3. QED BY <1>1, <1>2 DEF FilesTyped, JobInv, ExportPoints

\* A command that ends leaves nothing to be typed but the files.
LEMMA ExitFiles ==
    ASSUME disk' \in DiskType, Exit
    PROVE  FilesTyped'
BY PipelineAssumption DEF FilesTyped, JobInv, JobType, Points, ExportPoints

\* So does a step of a command to a point of which nothing is said.
LEMMA GoFiles ==
    ASSUME FilesTyped, disk' \in DiskType,
           NEW step \in {"stage", "xorriso", "check sums", "fetch iso", "check iso", "create",
                         "host manifest"},
           Go(step)
    PROVE  FilesTyped'
BY DEF FilesTyped, JobInv, JobType, Points, ExportPoints

LEMMA StartFiles == ASSUME FilesTyped, Follow \/ RunUnasked PROVE FilesTyped'
<1>1. PICK command \in Command, profile \in Profile :
          job' = [Idle EXCEPT !.at = command, !.profile = profile] /\ disk' = disk
  <2>1. CASE Follow
    <3>1. NextAction \in Command \cup {"none"}
      BY DEF NextAction, Command
    <3>2. QED BY <2>1, <3>1, PipelineAssumption DEF Follow, Start
  <2>2. CASE RunUnasked
    BY <2>2 DEF RunUnasked, Start
  <2>3. QED BY <2>1, <2>2
<1>2. job' \in JobType /\ job'.at \in Command
  BY <1>1 DEF JobType, Points
<1>3. QED BY <1>1, <1>2 DEF FilesTyped, JobInv, ExportPoints, Command

\* A command that fails, is killed or has nothing to write.
LEMMA StopFiles ==
    ASSUME FilesTyped, DockerBuild \/ CannotFetch \/ Stop
    PROVE  FilesTyped'
<1>1. disk' = disk /\ Exit
  BY DEF DockerBuild, CannotFetch, Stop
<1>2. QED BY <1>1, ExitFiles DEF FilesTyped

\* The last step of a command, or its only one.
LEMMA EndFiles ==
    ASSUME FilesTyped,
           \/ LockSources \/ RemoveIso \/ XorrisoEnds \/ Install
           \/ CopyOut \/ HostManifest \/ ArchiveEnds
    PROVE  FilesTyped'
<1>1. Exit
  BY DEF LockSources, RemoveIso, XorrisoEnds, Install, CopyOut, HostManifest,
         ArchiveEnds
<1>2. disk' \in DiskType
  <2>0. CASE LockSources
    BY <2>0 DEF LockSources, FilesTyped, DiskType
  <2>1. CASE RemoveIso
    BY <2>1 DEF RemoveIso, FilesTyped, DiskType
  <2>8. CASE HostManifest
    <3>1. Host \in PackagesType
      BY DEF PackagesType
    <3>2. QED BY <2>8, <3>1 DEF HostManifest, FilesTyped, DiskType
  <2>2. CASE XorrisoEnds
    <3>1. disk.payload \in PayloadType
      BY <2>2 DEF XorrisoEnds, FilesTyped, JobInv
    <3>2. [disk.payload EXCEPT !.whole = TRUE] \in PayloadType
      BY <3>1 DEF PayloadType
    <3>3. QED BY <2>2, <3>2 DEF XorrisoEnds, FilesTyped, DiskType
  <2>4. CASE Install
    <3>1. disk.image \in ImageType
      BY <2>4 DEF Install, FilesTyped, JobInv
    <3>2. [disk.image EXCEPT !.installed = TRUE] \in ImageType
      BY <3>1 DEF ImageType
    <3>3. QED BY <2>4, <3>2 DEF Install, FilesTyped, DiskType
  <2>5. CASE CopyOut
    <3>1. disk.image \in PackagesType
      BY <2>5 DEF CopyOut, FilesTyped, JobInv, PackagesType
    <3>2. QED BY <2>5, <3>1 DEF CopyOut, FilesTyped, DiskType
  <2>6. CASE ArchiveEnds
    <3>1. disk.archive \in ArchiveType
      BY <2>6 DEF ArchiveEnds, FilesTyped, JobInv
    <3>2. [disk.archive EXCEPT !.whole = TRUE] \in ArchiveType
      BY <3>1 DEF ArchiveType
    <3>3. QED BY <2>6, <3>2 DEF ArchiveEnds, FilesTyped, DiskType
  <2>7. QED BY <2>0, <2>1, <2>2, <2>4, <2>5, <2>6, <2>8
<1>3. QED BY <1>1, <1>2, ExitFiles

\* Staging the payload tree.
LEMMA StageFiles ==
    ASSUME FilesTyped, StageClear \/ StageCopy \/ StageManifest
    PROVE  FilesTyped'
<1>1. disk.tree \in TreeType
  BY DEF FilesTyped, DiskType
<1>2. CASE StageClear
  <2>1. Empty.tree \in TreeType
    BY DEF Empty, TreeType
  <2>2. disk' \in DiskType
    BY <1>2, <2>1 DEF StageClear, FilesTyped, DiskType
  <2>3. QED BY <1>2, <2>2, GoFiles DEF StageClear
<1>3. CASE StageCopy
  <2> DEFINE count == Cardinality(disk.tree.parts)
             new == disk.tree.parts \cup {Parts[count + 1]}
  <2>1. Parts[count + 1] \in ToSet(Parts)
    <3>1. IsFiniteSet(disk.tree.parts)
      BY <1>1, PartsNamed, FS_Subset DEF TreeType
    <3>2. count \in Nat
      BY <3>1, FS_CardinalityType
    <3>3. count < Len(Parts)
      BY <1>3 DEF StageCopy
    <3>4. count + 1 \in 1..Len(Parts)
      BY <3>2, <3>3 DEF Parts
    <3>5. QED BY <3>4 DEF ToSet, Parts
  <2>2. disk' = [disk EXCEPT !.tree.parts = new] /\ job' = job
    BY <1>3 DEF StageCopy
  <2>3. [disk.tree EXCEPT !.parts = new] \in TreeType
    BY <1>1, <2>1 DEF TreeType
  <2>4. disk' \in DiskType
    BY <2>2, <2>3 DEF FilesTyped, DiskType
  <2>5. At("stage")
    BY <1>3 DEF StageCopy
  <2>6. QED BY <2>2, <2>4, <2>5 DEF FilesTyped, JobInv, ExportPoints
<1>4. CASE StageManifest
  <2>1. [disk.tree EXCEPT !.digest = disk.tree.parts] \in TreeType
    BY <1>1 DEF TreeType
  <2>2. disk' \in DiskType
    BY <1>4, <2>1 DEF StageManifest, FilesTyped, DiskType
  <2>3. Go("xorriso") \/ Exit
    BY <1>4 DEF StageManifest
  <2>4. QED BY <2>2, <2>3, ExitFiles, GoFiles
<1>5. QED BY <1>2, <1>3, <1>4

\* The downloads and their checks.
LEMMA FetchFiles ==
    ASSUME FilesTyped, FetchSums \/ FetchIso \/ FetchBad \/ CheckSums \/ CheckIso
    PROVE  FilesTyped'
<1>1. CASE FetchSums \/ FetchIso
  <2>1. disk' \in DiskType
    <3>1. CASE FetchSums
      <4>1. (IF disk.sums = "absent" THEN "good" ELSE disk.sums)
              \in {"absent", "good", "unsigned", "wrong"}
        BY DEF FilesTyped, DiskType
      <4>2. QED BY <3>1, <4>1 DEF FetchSums, FilesTyped, DiskType
    <3>2. CASE FetchIso
      <4>1. (IF disk.iso = "absent" THEN "good" ELSE disk.iso)
              \in {"absent", "good", "resized", "corrupt"}
        BY DEF FilesTyped, DiskType
      <4>2. QED BY <3>2, <4>1 DEF FetchIso, FilesTyped, DiskType
    <3>3. QED BY <1>1, <3>1, <3>2
  <2>2. Go("check sums") \/ Go("check iso")
    BY <1>1 DEF FetchSums, FetchIso
  <2>3. QED BY <2>1, <2>2, GoFiles
<1>2. CASE FetchBad
  <2>1. disk' \in DiskType
    BY <1>2 DEF FetchBad, FilesTyped, DiskType
  <2>2. Go("check sums") \/ Go("check iso")
    BY <1>2 DEF FetchBad
  <2>3. QED BY <2>1, <2>2, GoFiles
<1>3. CASE CheckSums \/ CheckIso
  <2>1. disk' \in DiskType
    BY <1>3 DEF CheckSums, CheckIso, FilesTyped
  <2>2. Go("fetch iso") \/ Go("create") \/ Exit
    BY <1>3 DEF CheckSums, CheckIso
  <2>3. QED BY <2>1, <2>2, GoFiles, ExitFiles
<1>4. QED BY <1>1, <1>2, <1>3

\* xorriso, QEMU's installer and the inventory begin to write.
LEMMA WritingFiles ==
    ASSUME FilesTyped,
           \/ XorrisoStarts \/ CreateImage \/ InventoryClear \/ HostPackages
    PROVE  FilesTyped'
<1>1. CASE XorrisoStarts
  <2> DEFINE new == [build |-> disk.builds + 1, whole |-> FALSE]
  <2>1. disk.builds + 1 \in Nat
    BY DEF FilesTyped, DiskType
  <2>2. new \in PayloadType
    BY <2>1 DEF PayloadType
  <2>3. disk' = [disk EXCEPT !.payload = new, !.builds = disk.builds + 1]
    BY <1>1 DEF XorrisoStarts
  <2> HIDE DEF new
  <2>4. disk' \in DiskType /\ disk'.payload \in PayloadType
    BY <2>1, <2>2, <2>3 DEF FilesTyped, DiskType
  <2>5. Go("xorriso ends")
    BY <1>1 DEF XorrisoStarts
  <2>6. QED BY <2>4, <2>5 DEF FilesTyped, JobInv, JobType, Points, ExportPoints
<1>3. CASE CreateImage /\ "qemu-img" \in tools
  <2> DEFINE new == [build |-> disk.builds + 1, installed |-> FALSE, boot |-> 0]
  <2>1. disk.builds + 1 \in Nat
    BY DEF FilesTyped, DiskType
  <2>2. new \in ImageType
    BY <2>1 DEF ImageType
  <2>3. disk' = [disk EXCEPT !.image = new, !.builds = disk.builds + 1]
    BY <1>3 DEF CreateImage
  <2> HIDE DEF new
  <2>4. disk' \in DiskType /\ disk'.image \in ImageType
    BY <2>1, <2>2, <2>3 DEF FilesTyped, DiskType
  <2>5. Go("install") \/ Exit
    BY <1>3 DEF CreateImage
  <2>6. CASE Go("install")
    BY <2>4, <2>6 DEF FilesTyped, JobInv, JobType, Points, ExportPoints
  <2>7. QED BY <2>4, <2>5, <2>6, ExitFiles
<1>4. CASE CreateImage /\ "qemu-img" \notin tools
  <2>1. disk' \in DiskType
    BY <1>4 DEF CreateImage, FilesTyped, DiskType
  <2>2. Exit
    BY <1>4 DEF CreateImage
  <2>3. QED BY <2>1, <2>2, ExitFiles
<1>5. CASE InventoryClear
  <2>1. Nothing \in PackagesType
    BY DEF PackagesType
  <2>2. disk' \in DiskType /\ disk'.image = disk.image
    BY <1>5, <2>1 DEF InventoryClear, FilesTyped, DiskType
  <2>3. disk.image \in ImageType /\ Go("copy out")
    BY <1>5 DEF InventoryClear, FromImage, FilesTyped, DiskType
  <2>4. QED BY <2>2, <2>3 DEF FilesTyped, JobInv, JobType, Points, ExportPoints
<1>6. CASE HostPackages
  <2>1. Host \in PackagesType
    BY DEF PackagesType
  <2>2. disk' \in DiskType
    BY <1>6, <2>1 DEF HostPackages, FilesTyped, DiskType
  <2>3. QED BY <1>6, <2>2, GoFiles DEF HostPackages
<1>7. QED BY <1>1, <1>3, <1>4, <1>5, <1>6

\* The export writes a tar, a layer made from it, and an archive of the layer.
LEMMA ExportFiles ==
    ASSUME FilesTyped, RootfsStarts \/ RootfsEnds \/ LayerStarts \/ LayerEnds \/ ArchiveStarts
    PROVE  FilesTyped'
<1>1. CASE RootfsStarts
  <2>1. CASE Exit /\ disk' = disk
    BY <2>1, ExitFiles DEF FilesTyped
  <2>2. CASE Go("rootfs ends") /\ disk' = [disk EXCEPT !.rootfs = [of |-> disk.image, whole |-> FALSE]]
             /\ Present(disk.image)
    <3>1. disk.image \in ImageType
      BY <2>2 DEF FilesTyped, DiskType
    <3>2. [of |-> disk.image, whole |-> FALSE] \in RootfsType
      BY <3>1 DEF RootfsType
    <3>3. disk' \in DiskType /\ disk'.rootfs \in RootfsType
      BY <2>2, <3>2 DEF FilesTyped, DiskType
    <3>4. QED BY <2>2, <3>3 DEF FilesTyped, JobInv, JobType, Points, ExportPoints
  <2>3. QED BY <1>1, <2>1, <2>2 DEF RootfsStarts
<1>2. CASE RootfsEnds
  <2>1. disk.rootfs \in RootfsType
    BY <1>2 DEF RootfsEnds, FilesTyped, JobInv, ExportPoints
  <2>2. [disk.rootfs EXCEPT !.whole = TRUE] \in RootfsType
    BY <2>1 DEF RootfsType
  <2>3. disk' \in DiskType /\ disk'.rootfs \in RootfsType
    BY <1>2, <2>2 DEF RootfsEnds, FilesTyped, DiskType
  <2>4. Go("layer")
    BY <1>2 DEF RootfsEnds
  <2>5. QED BY <2>3, <2>4 DEF FilesTyped, JobInv, JobType, Points, ExportPoints
<1>3. CASE LayerStarts
  <2>1. disk.rootfs \in RootfsType
    BY <1>3 DEF LayerStarts, FilesTyped, JobInv, ExportPoints
  <2>2. CASE LayerThere /\ disk' = disk /\ Go("archive")
    <3>1. LayerThere'
      BY <2>2 DEF LayerThere
    <3>2. QED BY <2>1, <2>2, <3>1 DEF FilesTyped, JobInv, JobType, Points, ExportPoints
  <2>3. CASE ~LayerThere
    <3> DEFINE new == disk.layers \cup {[of |-> disk.rootfs, whole |-> FALSE]}
    <3>0. [of |-> disk.rootfs, whole |-> FALSE] \in LayerType /\ disk.layers \subseteq LayerType
      BY <2>1 DEF LayerType, FilesTyped, DiskType
    <3>1. new \in SUBSET LayerType
      BY <3>0
    <3>2. disk' = [disk EXCEPT !.layers = new] /\ Go("layer ends")
      BY <1>3, <2>3 DEF LayerStarts
    <3> HIDE DEF new
    <3>3. disk' \in DiskType /\ disk'.rootfs = disk.rootfs
      BY <3>1, <3>2 DEF FilesTyped, DiskType
    <3>4. QED BY <2>1, <3>2, <3>3 DEF FilesTyped, JobInv, JobType, Points, ExportPoints
  <2>4. QED BY <1>3, <2>2, <2>3 DEF LayerStarts
<1>4. CASE LayerEnds
  <2> DEFINE whole == [of |-> disk.rootfs, whole |-> TRUE]
             new == (disk.layers \ {[of |-> disk.rootfs, whole |-> FALSE]}) \cup {whole}
  <2>1. disk.rootfs \in RootfsType
    BY <1>4 DEF LayerEnds, FilesTyped, JobInv, ExportPoints
  <2>0. whole \in LayerType /\ disk.layers \subseteq LayerType
    BY <2>1 DEF LayerType, FilesTyped, DiskType
  <2>2. new \in SUBSET LayerType
    BY <2>0
  <2>3. disk' = [disk EXCEPT !.layers = new] /\ Go("archive")
    BY <1>4 DEF LayerEnds
  <2>4. whole \in new /\ whole.of = disk.rootfs
    OBVIOUS
  <2> HIDE DEF new, whole
  <2>5. disk' \in DiskType /\ disk'.rootfs = disk.rootfs /\ disk'.layers = new
    BY <2>2, <2>3 DEF FilesTyped, DiskType
  <2>6. LayerThere'
    BY <2>4, <2>5 DEF LayerThere
  <2>7. QED BY <2>1, <2>3, <2>5, <2>6 DEF FilesTyped, JobInv, JobType, Points, ExportPoints
<1>5. CASE ArchiveStarts
  <2> DEFINE layer == CHOOSE l \in disk.layers : l.of = disk.rootfs
             new == [layer |-> layer, whole |-> FALSE, copy |-> Other(disk.archive)]
  <2>1. LayerThere /\ disk.rootfs \in RootfsType
    BY <1>5 DEF ArchiveStarts, FilesTyped, JobInv, ExportPoints
  <2>2. layer \in LayerType
    <3>1. layer \in disk.layers
      BY <2>1 DEF LayerThere
    <3>2. QED BY <3>1 DEF FilesTyped, DiskType
  <2>3. Other(disk.archive) \in BOOLEAN
    <3>1. disk.archive \in ArchiveType \cup {Nothing}
      BY DEF FilesTyped, DiskType
    <3>2. QED BY <3>1 DEF Other, ArchiveType
  <2>4. disk' = [disk EXCEPT !.archive = new] /\ Go("archive ends")
    BY <1>5 DEF ArchiveStarts
  <2> HIDE DEF layer
  <2>5. new \in ArchiveType
    BY <2>2, <2>3 DEF ArchiveType
  <2> HIDE DEF new
  <2>6. disk' \in DiskType /\ disk'.archive \in ArchiveType /\ disk'.rootfs = disk.rootfs
    BY <2>4, <2>5 DEF FilesTyped, DiskType
  <2>7. QED BY <2>1, <2>4, <2>6 DEF FilesTyped, JobInv, JobType, Points, ExportPoints
<1>6. QED BY <1>1, <1>2, <1>3, <1>4, <1>5

\* The trials observe the image and the payload that are there; the document
\* names those that are there when it is written.
LEMMA CalibrationFiles ==
    ASSUME FilesTyped, Trials \/ WriteCalibration
    PROVE  FilesTyped'
<1>1. CASE Trials
  <2>1. CASE ~CanCalibrate
    <3>1. disk' = disk /\ Exit
      BY <1>1, <2>1 DEF Trials
    <3>2. QED BY <3>1, ExitFiles DEF FilesTyped
  <2>2. CASE CanCalibrate
    <3> DEFINE seen == [image |-> disk.image, payload |-> disk.payload]
    <3>1. disk.image \in ImageType /\ disk.payload \in PayloadType
      BY <2>2 DEF CanCalibrate, FilesTyped, DiskType
    <3>2. job' = [job EXCEPT !.at = "document", !.observed = seen] /\ disk' = disk
      BY <1>1, <2>2 DEF Trials
    <3>3. seen \in Oracle
      BY <3>1 DEF Oracle
    <3> HIDE DEF seen
    <3>4. job' \in JobType /\ job'.at = "document" /\ job'.observed = seen
      BY <3>2, <3>3 DEF FilesTyped, JobType, Points
    <3>5. QED BY <3>1, <3>2, <3>4 DEF FilesTyped, JobInv, ExportPoints, seen
  <2>3. QED BY <2>1, <2>2
<1>2. CASE WriteCalibration
  <2> DEFINE new == [image    |-> disk.image,
                     payload  |-> disk.payload,
                     observed |-> job.observed,
                     profile  |-> job.profile,
                     copy     |-> Other(disk.calibration[job.profile])]
             documents == [disk.calibration EXCEPT ![job.profile] = new]
  <2>1. /\ disk.image \in ImageType /\ disk.payload \in PayloadType
        /\ job.observed = [image |-> disk.image, payload |-> disk.payload]
    BY <1>2 DEF WriteCalibration, FilesTyped, JobInv
  <2>2. job.observed \in Oracle
    BY <2>1 DEF Oracle
  <2>3. job.profile \in Profile
    BY DEF FilesTyped, JobType
  <2>4. disk.calibration \in [Profile -> CalibrationType \cup {Nothing}]
    BY DEF FilesTyped, DiskType
  <2>5. Other(disk.calibration[job.profile]) \in BOOLEAN
    <3>1. disk.calibration[job.profile] \in CalibrationType \cup {Nothing}
      BY <2>3, <2>4
    <3>2. QED BY <3>1 DEF Other, CalibrationType
  <2>6. new \in CalibrationType
    BY <2>1, <2>2, <2>3, <2>5 DEF CalibrationType
  <2>7. disk' = [disk EXCEPT !.calibration = documents] /\ Exit
    BY <1>2 DEF WriteCalibration
  <2> HIDE DEF new
  <2>8. documents \in [Profile -> CalibrationType \cup {Nothing}]
    BY <2>4, <2>6
  <2> HIDE DEF documents
  <2>9. disk' \in DiskType
    BY <2>7, <2>8 DEF FilesTyped, DiskType
  <2>10. QED BY <2>7, <2>9, ExitFiles
<1>3. QED BY <1>1, <1>2

\* What lock-realize writes, in its two parts.
Calibrated == Bound(disk.calibration[Environment])

Realized ==
    [image        |-> disk.image,
     package      |-> disk.manifest,
     versions     |-> disk.packages,
     rootfs       |-> disk.rootfs,
     archive      |-> disk.archive,
     payload      |-> disk.payload,
     calibration  |-> IF Calibrated THEN disk.calibration[Environment] ELSE Nothing,
     profile      |-> IF Calibrated THEN Environment ELSE Nothing,
     sections     |-> disk.sections,
     materialized |->
       /\ Present(disk.image) /\ Present(disk.payload)
       /\ Present(disk.manifest) /\ Identified(disk.packages)
       /\ Calibrated]

LEMMA LockWritten ==
    ASSUME RealizeLock
    PROVE  disk' = [disk EXCEPT !.realized = Realized] /\ Exit
BY DEF RealizeLock, Realized, Calibrated

LEMMA LockFiles == ASSUME FilesTyped, RealizeLock PROVE FilesTyped'
<1>1. Environment \in Profile
  BY PipelineAssumption
<1>2. disk.calibration[Environment] \in CalibrationType \cup {Nothing}
  BY <1>1 DEF FilesTyped, DiskType
<1>3. Realized.calibration \in CalibrationType \cup {Nothing}
  BY <1>2 DEF Realized
<1>4. Realized.profile \in Profile \cup {Nothing}
  BY <1>1 DEF Realized
<1>5. Realized.materialized \in BOOLEAN
  BY DEF Realized
<1>6. Realized \in LockType
  BY <1>3, <1>4, <1>5 DEF Realized, LockType, FilesTyped, DiskType
<1>7. disk' \in DiskType
  BY <1>6, LockWritten DEF FilesTyped, DiskType
<1>8. QED BY <1>7, LockWritten, ExitFiles

\* The environment boots the image between commands, and edits sources at any time.
LEMMA EnvironmentFiles ==
    ASSUME FilesTyped, BootByHand \/ BootUnasked \/ Edit
    PROVE  FilesTyped'
<1>1. CASE BootByHand \/ BootUnasked
  <2>1. /\ disk.image \in ImageType /\ job' = job /\ At("idle")
        /\ disk' = [disk EXCEPT !.image.boot = disk.image.boot + 1]
    BY <1>1 DEF BootByHand, BootUnasked, CanBoot, BootedImage, FilesTyped, DiskType
  <2>2. [disk.image EXCEPT !.boot = disk.image.boot + 1] \in ImageType
    BY <2>1 DEF ImageType
  <2>3. disk' \in DiskType
    BY <2>1, <2>2 DEF FilesTyped, DiskType
  <2>4. QED BY <2>1, <2>3 DEF FilesTyped, JobInv, ExportPoints
<1>2. CASE Edit
  <2>1. \/ disk' = [disk EXCEPT !.sourceLock = FALSE]
        \/ disk' = [disk EXCEPT !.sections = disk.sections + 1]
    BY <1>2 DEF Edit
  <2>2. disk.sections + 1 \in Nat
    BY DEF FilesTyped, DiskType
  <2>3. /\ disk' \in DiskType
        /\ disk'.payload = disk.payload /\ disk'.image = disk.image
        /\ disk'.rootfs = disk.rootfs /\ disk'.layers = disk.layers
        /\ disk'.archive = disk.archive
    BY <2>1, <2>2 DEF FilesTyped, DiskType
  <2>4. job' = job
    BY <1>2 DEF Edit
  <2>5. QED BY <2>3, <2>4 DEF FilesTyped, JobInv, LayerThere
<1>3. QED BY <1>1, <1>2

LEMMA NextFiles == ASSUME FilesTyped, [Next]_vars PROVE FilesTyped'
<1>1. CASE UNCHANGED vars \/ Done
  <2>1. disk' = disk /\ job' = job
    BY <1>1 DEF Done, vars
  <2>2. QED BY <2>1 DEF FilesTyped, JobInv, LayerThere
<1>2. CASE Step
  BY <1>2, StopFiles, EndFiles, StageFiles, FetchFiles, WritingFiles, ExportFiles,
     CalibrationFiles, LockFiles
     DEF Step, Payload, Image, Inventory, Export, Calibrate
<1>3. CASE Follow \/ RunUnasked
  BY <1>3, StartFiles
<1>4. CASE Stop \/ BootByHand \/ BootUnasked \/ Edit
  BY <1>4, StopFiles, EnvironmentFiles
<1>5. QED BY <1>1, <1>2, <1>3, <1>4 DEF Next, Operator

\* The inductive invariant behind TypeOK.
Typed == GivenTyped /\ CountTyped /\ FilesTyped

LEMMA TypedAlways == Spec => []Typed
<1>1. Init => Typed
  <2>1. Init => GivenTyped /\ CountTyped
    BY PipelineAssumption DEF Init, GivenTyped, CountTyped
  <2>2. QED BY <2>1, InitFiles DEF Typed
<1>2. Typed /\ [Next]_vars => Typed'
  <2> SUFFICES ASSUME Typed, [Next]_vars PROVE Typed'
    OBVIOUS
  <2>1. GivenTyped'
    <3>1. ContainerTools \subseteq Tools
      BY DEF ContainerTools
    <3>2. QED BY <3>1, GivensStay DEF Typed, GivenTyped
  <2>2. QED BY <2>1, Counting, NextFiles DEF Typed
<1>3. QED BY <1>1, <1>2, PTL DEF Spec

\* Whatever is killed, fails or runs out of order, no command works on a file
\* that is not there, and every file is what its writers make it (reference.py,
\* payload.py, oci.py, build_image.sh).
THEOREM TypeCorrect == Spec => []TypeOK
<1>1. Typed => TypeOK
  BY DEF Typed, GivenTyped, CountTyped, FilesTyped, JobType, TypeOK
<1>2. QED BY <1>1, TypedAlways, PTL

-----------------------------------------------------------------------------
(* A materialized lock.                                                    *)

\* Only the calibration and the realization write their files.
LEMMA OthersKeepLock ==
    ASSUME FilesTyped, [Next]_vars, ~WriteCalibration, ~RealizeLock
    PROVE  disk'.calibration = disk.calibration /\ disk'.realized = disk.realized
<1> USE DEF FilesTyped, DiskType
<1>1. CASE disk' = disk
  BY <1>1
<1>2. CASE LockSources \/ RemoveIso \/ FetchSums \/ FetchIso \/ FetchBad \/ HostPackages
            \/ HostManifest
  BY <1>2 DEF LockSources, RemoveIso, FetchSums, FetchIso, FetchBad, HostPackages, HostManifest
<1>3. CASE StageClear \/ StageCopy \/ StageManifest
  BY <1>3 DEF StageClear, StageCopy, StageManifest
<1>4. CASE XorrisoStarts \/ XorrisoEnds
  BY <1>4 DEF XorrisoStarts, XorrisoEnds
<1>5. CASE CreateImage \/ Install \/ BootByHand \/ BootUnasked
  BY <1>5 DEF CreateImage, Install, BootByHand, BootUnasked, BootedImage
<1>6. CASE InventoryClear \/ CopyOut
  BY <1>6 DEF InventoryClear, CopyOut
<1>7. CASE RootfsStarts \/ RootfsEnds
  BY <1>7 DEF RootfsStarts, RootfsEnds
<1>8. CASE LayerStarts \/ LayerEnds
  BY <1>8 DEF LayerStarts, LayerEnds
<1>9. CASE ArchiveStarts \/ ArchiveEnds
  BY <1>9 DEF ArchiveStarts, ArchiveEnds
<1>10. CASE Edit
  BY <1>10 DEF Edit
<1>11. CASE UNCHANGED vars \/ Done \/ Stop \/ Follow \/ RunUnasked \/ DockerBuild
            \/ CannotFetch \/ CheckSums \/ CheckIso \/ Trials
  BY <1>11, <1>1 DEF vars, Done, Stop, Follow, RunUnasked, Start, DockerBuild, CannotFetch,
         CheckSums, CheckIso, Trials
<1>12. QED BY <1>2, <1>3, <1>4, <1>5, <1>6, <1>7, <1>8, <1>9, <1>10, <1>11
           DEF Next, Operator, Step, Payload, Image, Inventory, Export, Calibrate

\* A calibration names the artifacts its outcomes were observed on: nothing can
\* rebuild them between the trials and the taking of the hashes.
DocumentHonest(document, profile) ==
    Present(document) =>
        /\ document.observed = [image |-> document.image, payload |-> document.payload]
        /\ document.profile = profile

CalibrationsHonest ==
    /\ \A profile \in Profile : DocumentHonest(disk.calibration[profile], profile)
    /\ MaterializedIsCalibrated

LEMMA CalibrationsStayHonest ==
    ASSUME FilesTyped, CalibrationsHonest, [Next]_vars
    PROVE  CalibrationsHonest'
<1>1. CASE WriteCalibration
  <2> DEFINE new == [image    |-> disk.image,
                     payload  |-> disk.payload,
                     observed |-> job.observed,
                     profile  |-> job.profile,
                     copy     |-> Other(disk.calibration[job.profile])]
             documents == [disk.calibration EXCEPT ![job.profile] = new]
  <2>1. DocumentHonest(new, job.profile)
    BY <1>1 DEF WriteCalibration, FilesTyped, JobInv, DocumentHonest
  <2>2. disk' = [disk EXCEPT !.calibration = documents]
    BY <1>1 DEF WriteCalibration
  <2> HIDE DEF new
  <2>3. ASSUME NEW profile \in Profile
        PROVE  DocumentHonest(documents[profile], profile)
    BY <2>1 DEF CalibrationsHonest, FilesTyped, DiskType
  <2> HIDE DEF documents
  <2>4. disk'.calibration = documents /\ disk'.realized = disk.realized
    BY <2>2 DEF FilesTyped, DiskType
  <2>5. MaterializedIsCalibrated'
    BY <2>4 DEF CalibrationsHonest, MaterializedIsCalibrated
  <2>6. QED BY <2>3, <2>4, <2>5 DEF CalibrationsHonest, DocumentHonest
<1>2. CASE RealizeLock
  <2>1. disk' = [disk EXCEPT !.realized = Realized]
    BY <1>2, LockWritten
  <2>2. Environment \in Profile
    BY PipelineAssumption
  <2>3. ASSUME Realized.materialized
        PROVE  /\ Present(Realized.calibration)
               /\ Realized.calibration.observed =
                    [image |-> Realized.image, payload |-> Realized.payload]
               /\ Realized.calibration.profile = Realized.profile
    <3>1. Calibrated
      BY <2>3 DEF Realized
    <3> DEFINE document == disk.calibration[Environment]
    <3>2. /\ Present(document)
          /\ document.image = disk.image /\ document.payload = disk.payload
      BY <3>1 DEF Calibrated, Bound
    <3>3. /\ document.observed = [image |-> disk.image, payload |-> disk.payload]
          /\ document.profile = Environment
      BY <2>2, <3>2 DEF CalibrationsHonest, DocumentHonest
    <3>4. Realized.calibration = document /\ Realized.profile = Environment
      BY <3>1 DEF Realized
    <3>5. Realized.image = disk.image /\ Realized.payload = disk.payload
      BY DEF Realized
    <3>6. QED BY <3>2, <3>3, <3>4, <3>5
  <2>4. disk'.calibration = disk.calibration /\ disk'.realized = Realized
    BY <2>1 DEF FilesTyped, DiskType
  <2>5. MaterializedIsCalibrated'
    BY <2>3, <2>4 DEF MaterializedIsCalibrated
  <2>6. QED BY <2>4, <2>5 DEF CalibrationsHonest, DocumentHonest
<1>3. CASE ~WriteCalibration /\ ~RealizeLock
  <2>1. disk'.calibration = disk.calibration /\ disk'.realized = disk.realized
    BY <1>3, OthersKeepLock
  <2>2. QED BY <2>1 DEF CalibrationsHonest, DocumentHonest, MaterializedIsCalibrated
<1>4. QED BY <1>1, <1>2, <1>3

\* Whatever was rebuilt, killed or run out of order before: a lock that says it
\* is materialized carries the calibration observed on the image and the payload
\* it records (realize_lock, _realize_unsynced_calibration).
THEOREM LockIsCalibrated == Spec => []MaterializedIsCalibrated
<1>1. Init => CalibrationsHonest
  BY DEF Init, Empty, CalibrationsHonest, DocumentHonest, MaterializedIsCalibrated
<1>2. Typed /\ CalibrationsHonest /\ [Next]_vars => CalibrationsHonest'
  BY CalibrationsStayHonest DEF Typed
<1>3. CalibrationsHonest => MaterializedIsCalibrated
  BY DEF CalibrationsHonest
<1>4. QED BY <1>1, <1>2, <1>3, TypedAlways, PTL DEF Spec

-----------------------------------------------------------------------------
(* The staging tree.                                                       *)

\* The manifest is written when every part was copied, and removed with them.
DigestOfWhole == disk.tree.digest \in {Nothing, ToSet(Parts)}

LEMMA OthersKeepTree ==
    ASSUME FilesTyped, [Next]_vars, ~StageClear, ~StageCopy, ~StageManifest
    PROVE  disk'.tree = disk.tree
<1> USE DEF FilesTyped, DiskType
<1>1. CASE LockSources \/ RemoveIso \/ FetchSums \/ FetchIso \/ FetchBad \/ HostPackages
            \/ HostManifest
  BY <1>1 DEF LockSources, RemoveIso, FetchSums, FetchIso, FetchBad, HostPackages, HostManifest
<1>2. CASE XorrisoStarts \/ XorrisoEnds
  BY <1>2 DEF XorrisoStarts, XorrisoEnds
<1>3. CASE CreateImage \/ Install \/ BootByHand \/ BootUnasked
  BY <1>3 DEF CreateImage, Install, BootByHand, BootUnasked, BootedImage
<1>4. CASE InventoryClear \/ CopyOut
  BY <1>4 DEF InventoryClear, CopyOut
<1>5. CASE RootfsStarts \/ RootfsEnds
  BY <1>5 DEF RootfsStarts, RootfsEnds
<1>6. CASE LayerStarts \/ LayerEnds
  BY <1>6 DEF LayerStarts, LayerEnds
<1>7. CASE ArchiveStarts \/ ArchiveEnds
  BY <1>7 DEF ArchiveStarts, ArchiveEnds
<1>8. CASE WriteCalibration
  BY <1>8 DEF WriteCalibration
<1>9. CASE RealizeLock
  BY <1>9, LockWritten
<1>10. CASE Edit
  BY <1>10 DEF Edit
<1>11. CASE UNCHANGED vars \/ Done \/ Stop \/ Follow \/ RunUnasked \/ DockerBuild
            \/ CannotFetch \/ CheckSums \/ CheckIso \/ Trials
  BY <1>11 DEF vars, Done, Stop, Follow, RunUnasked, Start, DockerBuild, CannotFetch,
         CheckSums, CheckIso, Trials
<1>12. QED BY <1>1, <1>2, <1>3, <1>4, <1>5, <1>6, <1>7, <1>8, <1>9, <1>10, <1>11
           DEF Next, Operator, Step, Payload, Image, Inventory, Export, Calibrate

LEMMA DigestStaysOfWhole ==
    ASSUME FilesTyped, DigestOfWhole, [Next]_vars
    PROVE  DigestOfWhole'
<1>1. disk.tree \in TreeType
  BY DEF FilesTyped, DiskType
<1>2. CASE StageClear
  <2>1. disk'.tree = Empty.tree
    BY <1>2 DEF StageClear, FilesTyped, DiskType
  <2>2. QED BY <2>1 DEF DigestOfWhole, Empty
<1>3. CASE StageCopy
  <2> DEFINE new == disk.tree.parts \cup {Parts[Cardinality(disk.tree.parts) + 1]}
  <2>1. disk' = [disk EXCEPT !.tree.parts = new]
    BY <1>3 DEF StageCopy
  <2> HIDE DEF new
  <2>2. disk'.tree = [disk.tree EXCEPT !.parts = new]
    BY <2>1 DEF FilesTyped, DiskType
  <2>3. disk'.tree.digest = disk.tree.digest
    BY <1>1, <2>2 DEF TreeType
  <2>4. QED BY <2>3 DEF DigestOfWhole
<1>4. CASE StageManifest
  <2>1. disk.tree.parts \subseteq ToSet(Parts)
    BY <1>1 DEF TreeType
  <2>2. Cardinality(disk.tree.parts) = Len(Parts)
    BY <1>4 DEF StageManifest
  <2>3. disk.tree.parts = ToSet(Parts)
    BY <2>1, <2>2, PartsNamed, FS_Subset
  <2>4. disk' = [disk EXCEPT !.tree.digest = disk.tree.parts]
    BY <1>4 DEF StageManifest
  <2>5. disk'.tree = [disk.tree EXCEPT !.digest = disk.tree.parts]
    BY <2>4 DEF FilesTyped, DiskType
  <2>6. disk'.tree.digest = disk.tree.parts
    BY <1>1, <2>5 DEF TreeType
  <2>7. QED BY <2>3, <2>6 DEF DigestOfWhole
<1>5. CASE ~StageClear /\ ~StageCopy /\ ~StageManifest
  BY <1>5, OthersKeepTree DEF DigestOfWhole
<1>6. QED BY <1>2, <1>3, <1>4, <1>5

\* A payload tree that validate_payload_tree accepts was staged to its end
\* (payload.py), even if other stagings were killed in the middle.
THEOREM AcceptedTreeIsWhole == Spec => []ValidTreeIsWhole
<1>1. Init => DigestOfWhole
  BY DEF Init, Empty, DigestOfWhole
<1>2. Typed /\ DigestOfWhole /\ [Next]_vars => DigestOfWhole'
  BY DigestStaysOfWhole DEF Typed
<1>3. DigestOfWhole => ValidTreeIsWhole
  BY DEF DigestOfWhole, ValidTreeIsWhole, ValidTree
<1>4. QED BY <1>1, <1>2, <1>3, TypedAlways, PTL DEF Spec

-----------------------------------------------------------------------------
(* An operator who only follows preflight, and whose commands succeed.     *)

Clean == unasked = 0 /\ faults = 0

\* What is derived is there only if what it is derived from is there.
Chain ==
    /\ Present(disk.image) => Present(disk.payload)
    /\ Present(disk.manifest) => Present(disk.image)
    /\ Present(disk.rootfs) => Present(disk.manifest)
    /\ Present(disk.archive) => Present(disk.rootfs)
    /\ disk.layers # {} => Present(disk.rootfs)
    /\ Present(disk.realized) => Collected

\* A command runs only while nothing was derived from what it writes.
Ordered ==
    /\ job.at \in {"payload build", "stage", "xorriso"} => disk.payload = Nothing
    /\ At("xorriso ends") => disk.image = Nothing
    /\ job.at \in {"reference build", "check sums", "fetch iso", "check iso", "create"} =>
         disk.image = Nothing /\ Present(disk.payload) /\ Tools \subseteq tools
    /\ job.at \in {"install", "inventory", "copy out"} => disk.manifest = Nothing
    /\ At("inventory") => Tools \subseteq tools /\ Present(disk.image)
    /\ ~At("host manifest")
    /\ At("export-oci") => disk.rootfs = Nothing
    /\ job.at \in {"export-oci"} \cup ExportPoints =>
         Present(disk.manifest) /\ disk.realized = Nothing
    /\ At("rootfs ends") => disk.layers = {}
    /\ job.at \in {"rootfs ends", "layer", "layer ends", "archive"} => disk.archive = Nothing
    /\ At("lock-realize") => Collected

\* Outside the command that writes it, a file is whole and comes from the image.
Derived ==
    /\ Present(disk.payload) => disk.payload.whole \/ At("xorriso ends")
    /\ Present(disk.image) => disk.image.installed \/ At("install")
    /\ Present(disk.manifest) =>
         disk.manifest = disk.image /\ disk.packages = disk.image
    /\ Present(disk.rootfs) =>
         disk.rootfs.of = disk.image /\ (disk.rootfs.whole \/ At("rootfs ends"))
    /\ Present(disk.rootfs) /\ job.at \notin ExportPoints => Present(disk.archive)
    /\ \A layer \in disk.layers : layer.of = disk.rootfs /\ (layer.whole \/ At("layer ends"))
    /\ Present(disk.archive) =>
         /\ disk.archive.layer = [of |-> disk.rootfs, whole |-> TRUE]
         /\ disk.archive.whole \/ At("archive ends")
    /\ Present(disk.realized) =>
         LET lock == disk.realized
         IN  /\ lock.image = disk.image
             /\ lock.package = disk.manifest /\ lock.versions = disk.packages
             /\ lock.rootfs = disk.rootfs /\ lock.archive = disk.archive

Coherent == Chain /\ Ordered /\ Derived

\* Nothing the invariant speaks of is written.
Kept ==
    /\ disk'.payload = disk.payload /\ disk'.image = disk.image
    /\ disk'.packages = disk.packages /\ disk'.manifest = disk.manifest
    /\ disk'.rootfs = disk.rootfs /\ disk'.layers = disk.layers
    /\ disk'.archive = disk.archive /\ disk'.realized = disk.realized

\* Points at which no file is being written.
Quiet ==
    job.at \notin {"xorriso ends", "install", "rootfs ends", "layer", "layer ends", "archive",
                   "archive ends"}

LEMMA KeptExit == ASSUME Coherent, Kept, Quiet, Exit PROVE Coherent'
<1>1. job'.at = "idle"
  OBVIOUS
<1>2. Chain'
  BY DEF Coherent, Chain, Kept, Collected, Exported
<1>3. Ordered'
  BY <1>1 DEF Ordered, ExportPoints
<1>4. Derived'
  BY <1>1 DEF Coherent, Derived, Kept, Quiet, ExportPoints
<1>5. QED BY <1>2, <1>3, <1>4 DEF Coherent

LEMMA KeptGo ==
    ASSUME FilesTyped, Coherent, Kept,
           \/ job.at \in {"payload build", "stage"} /\ job'.at \in {"stage", "xorriso"}
           \/ At("calibrate-unsynced") /\ job'.at = "document"
           \/ /\ job.at \in {"reference build", "check sums", "fetch iso", "check iso"}
              /\ job'.at \in {"check sums", "fetch iso", "check iso", "create"}
              /\ tools' = tools
    PROVE  Coherent'
<1>1. Chain'
  BY DEF Coherent, Chain, Kept, Collected, Exported
<1>2. Ordered'
  BY DEF Coherent, Ordered, Kept, ExportPoints
<1>3. Derived'
  BY DEF Coherent, Derived, Kept, ExportPoints
<1>4. QED BY <1>1, <1>2, <1>3 DEF Coherent

\* The commands preflight asks for, and what it has just seen.
LEMMA CoherentFollow == ASSUME FilesTyped, Coherent, Follow PROVE Coherent'
<1>1. At("idle") /\ disk' = disk /\ tools' = tools /\ job'.at = NextAction
  <2>1. At("idle") /\ Start(NextAction, Environment)
    BY DEF Follow
  <2>2. QED BY <2>1 DEF Start
<1>2. Chain' /\ Derived'
  <2>1. job'.at \notin ExportPoints
    BY <1>1 DEF NextAction, ExportPoints
  <2>2. Chain'
    BY <1>1 DEF Coherent, Chain, Collected, Exported
  <2>3. Derived'
    BY <1>1, <2>1 DEF Coherent, Derived, ExportPoints
  <2>4. QED BY <2>2, <2>3
<1>3. Ordered'
  <2>1. job'.at \in {"payload build"} => disk.payload = Nothing
    BY <1>1 DEF NextAction
  <2>2. job'.at = "reference build" =>
          disk.image = Nothing /\ Present(disk.payload) /\ Tools \subseteq tools
    BY <1>1 DEF NextAction, StagesReady
  <2>3. job'.at = "inventory" =>
          disk.manifest = Nothing /\ Tools \subseteq tools /\ Present(disk.image)
    BY <1>1 DEF NextAction, StagesReady
  <2>4. job'.at = "export-oci" => ~Exported /\ Present(disk.manifest)
    BY <1>1 DEF NextAction
  <2>5. job'.at = "lock-realize" => Collected
    BY <1>1 DEF NextAction
  <2>6. ~Exported => disk.rootfs = Nothing /\ disk.realized = Nothing
    BY <1>1 DEF Coherent, Chain, Derived, Exported, Collected, ExportPoints
  <2>7. job'.at \in Command \cup {"none"}
    BY <1>1 DEF NextAction, Command
  <2>8. Collected' = Collected
    BY <1>1 DEF Collected, Exported
  <2>9. QED
    BY <1>1, <2>1, <2>2, <2>3, <2>4, <2>5, <2>6, <2>7, <2>8 DEF Ordered, Command, ExportPoints
<1>4. QED BY <1>2, <1>3 DEF Coherent

LEMMA KeptStay ==
    ASSUME Coherent, Kept, job' = job, tools' = tools
    PROVE  Coherent'
<1>1. Chain'
  BY DEF Coherent, Chain, Kept, Collected, Exported
<1>2. Ordered'
  BY DEF Coherent, Ordered, Kept, ExportPoints, Collected, Exported
<1>3. Derived'
  BY DEF Coherent, Derived, Kept, ExportPoints
<1>4. QED BY <1>1, <1>2, <1>3 DEF Coherent

\* The steps that write nothing the invariant speaks of.
LEMMA CoherentElsewhere ==
    ASSUME FilesTyped, Coherent,
           \/ LockSources \/ DockerBuild \/ RemoveIso \/ StageClear \/ StageCopy
           \/ StageManifest \/ FetchSums \/ FetchIso \/ CannotFetch \/ CheckSums \/ CheckIso
           \/ Trials \/ WriteCalibration \/ Edit \/ Done \/ UNCHANGED vars
    PROVE  Coherent'
<1>1. Kept
  <2> USE DEF FilesTyped, DiskType, Kept
  <2>1. CASE LockSources \/ RemoveIso \/ FetchSums \/ FetchIso
    BY <2>1 DEF LockSources, RemoveIso, FetchSums, FetchIso
  <2>2. CASE StageClear \/ StageCopy \/ StageManifest
    BY <2>2 DEF StageClear, StageCopy, StageManifest
  <2>3. CASE WriteCalibration
    BY <2>3 DEF WriteCalibration
  <2>4. CASE Edit
    BY <2>4 DEF Edit
  <2>5. CASE DockerBuild \/ CannotFetch \/ CheckSums \/ CheckIso \/ Trials \/ Done
               \/ UNCHANGED vars
    BY <2>5 DEF DockerBuild, CannotFetch, CheckSums, CheckIso, Trials, Done, vars
  <2>6. QED BY <2>1, <2>2, <2>3, <2>4, <2>5
<1>2. CASE LockSources \/ DockerBuild \/ RemoveIso \/ CannotFetch \/ WriteCalibration
  <2>1. Quiet /\ Exit
    BY <1>2 DEF LockSources, DockerBuild, RemoveIso, CannotFetch, WriteCalibration, Quiet
  <2>2. QED BY <1>1, <2>1, KeptExit
<1>3. CASE StageCopy \/ Edit \/ Done \/ UNCHANGED vars
  <2>1. job' = job /\ tools' = tools
    BY <1>3 DEF StageCopy, Edit, Done, vars
  <2>2. QED BY <1>1, <2>1, KeptStay
<1>4. CASE StageClear \/ StageManifest
  <2>1. job.at \in {"payload build", "stage"} /\ Quiet
    BY <1>4 DEF StageClear, StageManifest, Quiet
  <2>2. Exit \/ job'.at \in {"stage", "xorriso"}
    BY <1>4 DEF StageClear, StageManifest, FilesTyped, JobType
  <2>3. QED BY <1>1, <2>1, <2>2, KeptExit, KeptGo
<1>5. CASE FetchSums \/ FetchIso \/ CheckSums \/ CheckIso
  <2>1. /\ job.at \in {"reference build", "check sums", "fetch iso", "check iso"}
        /\ Exit \/ job'.at \in {"check sums", "fetch iso", "check iso", "create"}
        /\ tools' = tools
    BY <1>5 DEF FetchSums, FetchIso, CheckSums, CheckIso, FilesTyped, JobType
  <2>2. Quiet
    BY <2>1 DEF Quiet
  <2>3. QED BY <1>1, <2>1, <2>2, KeptExit, KeptGo
<1>6. CASE Trials
  <2>1. At("calibrate-unsynced") /\ (Exit \/ job'.at = "document")
    BY <1>6 DEF Trials, FilesTyped, JobType
  <2>2. Quiet
    BY <2>1 DEF Quiet
  <2>3. QED BY <1>1, <2>1, <2>2, KeptExit, KeptGo
<1>7. QED BY <1>2, <1>3, <1>4, <1>5, <1>6

\* The payload and the image are written while nothing was derived from them.
LEMMA CoherentImages ==
    ASSUME FilesTyped, Coherent,
           XorrisoStarts \/ XorrisoEnds \/ CreateImage \/ Install \/ BootByHand
    PROVE  Coherent'
<1> USE NothingAssumption
<1>1. CASE XorrisoStarts
  <2> DEFINE new == [build |-> disk.builds + 1, whole |-> FALSE]
  <2>1. /\ disk' = [disk EXCEPT !.payload = new, !.builds = disk.builds + 1]
        /\ At("xorriso") /\ job'.at = "xorriso ends"
    BY <1>1 DEF XorrisoStarts, FilesTyped, JobType
  <2> HIDE DEF new
  <2>2. /\ disk'.image = disk.image
        /\ disk'.packages = disk.packages /\ disk'.manifest = disk.manifest
        /\ disk'.rootfs = disk.rootfs /\ disk'.layers = disk.layers
        /\ disk'.archive = disk.archive /\ disk'.realized = disk.realized
    BY <2>1 DEF FilesTyped, DiskType
  <2>3. /\ disk.payload = Nothing /\ disk.image = Nothing /\ disk.manifest = Nothing
        /\ disk.rootfs = Nothing /\ disk.archive = Nothing /\ disk.layers = {}
        /\ disk.realized = Nothing
    BY <2>1 DEF Coherent, Ordered, Chain, Collected
  <2>4. QED BY <2>1, <2>2, <2>3 DEF Coherent, Chain, Ordered, Derived, ExportPoints
<1>2. CASE XorrisoEnds
  <2>1. disk' = [disk EXCEPT !.payload.whole = TRUE] /\ At("xorriso ends") /\ job'.at = "idle"
    BY <1>2 DEF XorrisoEnds
  <2>2. /\ disk'.payload = [disk.payload EXCEPT !.whole = TRUE] /\ disk'.image = disk.image
        /\ disk'.packages = disk.packages /\ disk'.manifest = disk.manifest
        /\ disk'.rootfs = disk.rootfs /\ disk'.layers = disk.layers
        /\ disk'.archive = disk.archive /\ disk'.realized = disk.realized
    BY <2>1 DEF FilesTyped, DiskType
  <2>3. /\ disk.image = Nothing /\ disk.manifest = Nothing
        /\ disk.rootfs = Nothing /\ disk.archive = Nothing /\ disk.layers = {}
        /\ disk.realized = Nothing
    BY <2>1 DEF Coherent, Ordered, Chain, Collected
  <2>4. disk'.payload.whole
    BY <2>1, <2>2 DEF FilesTyped, JobInv, PayloadType
  <2>5. QED BY <2>1, <2>2, <2>3, <2>4 DEF Coherent, Chain, Ordered, Derived, ExportPoints
<1>3. CASE CreateImage
  <2>1. At("create") /\ job'.at \in {"install", "idle"}
    BY <1>3 DEF CreateImage, FilesTyped, JobType
  <2>2. /\ disk.image = Nothing /\ disk.manifest = Nothing /\ Present(disk.payload)
        /\ disk.rootfs = Nothing /\ disk.archive = Nothing /\ disk.layers = {}
        /\ disk.realized = Nothing
    BY <2>1 DEF Coherent, Ordered, Chain, Collected
  <2>3. /\ disk'.payload = disk.payload
        /\ disk'.packages = disk.packages /\ disk'.manifest = disk.manifest
        /\ disk'.rootfs = disk.rootfs /\ disk'.layers = disk.layers
        /\ disk'.archive = disk.archive /\ disk'.realized = disk.realized
    BY <1>3 DEF CreateImage, FilesTyped, DiskType
  <2>4. job'.at = "install"
    <3>1. {"qemu-img", "emulator"} \subseteq tools
      BY <2>1 DEF Coherent, Ordered, Tools
    <3>2. QED BY <1>3, <3>1 DEF CreateImage, FilesTyped, JobType
  <2>5. disk.payload.whole
    BY <2>1, <2>2 DEF Coherent, Derived
  <2>6. QED BY <2>1, <2>2, <2>3, <2>4, <2>5 DEF Coherent, Chain, Ordered, Derived, ExportPoints
<1>4. CASE Install \/ BootByHand
  <2>1. disk.image \in ImageType /\ Present(disk.image)
    BY <1>4 DEF Install, BootByHand, CanBoot, BootedImage, FilesTyped, JobInv, DiskType
  <2>2. disk.manifest = Nothing
    BY <1>4 DEF Install, BootByHand, NextAction, Coherent, Ordered
  <2>3. /\ disk.rootfs = Nothing /\ disk.archive = Nothing /\ disk.layers = {}
        /\ disk.realized = Nothing /\ Present(disk.payload)
    BY <2>1, <2>2 DEF Coherent, Chain, Collected
  <2>4. At("install") \/ At("idle")
    BY <1>4 DEF Install, BootByHand, CanBoot, BootedImage
  <2>5. job'.at = "idle"
    BY <1>4 DEF Install, BootByHand, CanBoot, BootedImage
  <2>6. \/ disk' = [disk EXCEPT !.image.installed = TRUE]
        \/ disk' = [disk EXCEPT !.image.boot = disk.image.boot + 1] /\ disk.image.installed
    BY <1>4 DEF Install, BootByHand, CanBoot, BootedImage
  <2>7. /\ disk'.payload = disk.payload
        /\ disk'.packages = disk.packages /\ disk'.manifest = disk.manifest
        /\ disk'.rootfs = disk.rootfs /\ disk'.layers = disk.layers
        /\ disk'.archive = disk.archive /\ disk'.realized = disk.realized
    BY <2>6 DEF FilesTyped, DiskType
  <2>8. disk'.image.installed
    BY <2>1, <2>6 DEF FilesTyped, DiskType, ImageType
  <2>9. disk.payload.whole
    BY <2>3, <2>4 DEF Coherent, Derived
  <2>10. QED
    BY <2>2, <2>3, <2>5, <2>7, <2>8, <2>9 DEF Coherent, Chain, Ordered, Derived, ExportPoints
<1>5. QED BY <1>1, <1>2, <1>3, <1>4

\* The inventory is taken from the image, while there is no export.
LEMMA CoherentInventory ==
    ASSUME FilesTyped, Coherent, InventoryClear \/ CopyOut \/ HostPackages \/ HostManifest
    PROVE  Coherent'
<1> DEFINE Before ==
      /\ disk.manifest = Nothing /\ disk.rootfs = Nothing /\ disk.archive = Nothing
      /\ disk.layers = {} /\ disk.realized = Nothing
<1>1. ASSUME At("inventory") \/ At("copy out") PROVE Before
  BY <1>1 DEF Coherent, Ordered, Chain, Collected
<1>2. CASE HostPackages \/ HostManifest
  BY <1>2 DEF HostPackages, HostManifest, FromImage, Coherent, Ordered, Tools
<1>3. CASE InventoryClear
  <2>1. At("inventory") /\ job'.at = "copy out" /\ Present(disk.image)
    BY <1>3 DEF InventoryClear, FromImage, FilesTyped, JobType
  <2>2. /\ disk'.payload = disk.payload /\ disk'.image = disk.image
        /\ disk'.manifest = Nothing
        /\ disk'.rootfs = disk.rootfs /\ disk'.layers = disk.layers
        /\ disk'.archive = disk.archive /\ disk'.realized = disk.realized
    BY <1>3 DEF InventoryClear, FilesTyped, DiskType
  <2>3. Before
    BY <2>1, <1>1
  <2>4. QED BY <2>1, <2>2, <2>3 DEF Coherent, Chain, Ordered, Derived, ExportPoints
<1>4. CASE CopyOut
  <2>1. At("copy out") /\ job'.at = "idle"
    BY <1>4 DEF CopyOut
  <2>2. Before
    BY <2>1, <1>1
  <2>3. disk.image \in ImageType /\ Present(disk.image)
    BY <2>1, NothingAssumption DEF FilesTyped, JobInv
  <2>4. /\ disk'.payload = disk.payload /\ disk'.image = disk.image
        /\ disk'.rootfs = disk.rootfs /\ disk'.layers = disk.layers
        /\ disk'.archive = disk.archive /\ disk'.realized = disk.realized
        /\ \/ disk'.manifest = disk.manifest
           \/ disk'.manifest = disk.image /\ disk'.packages = disk.image
    BY <1>4 DEF CopyOut, FilesTyped, DiskType
  <2>5. QED BY <2>1, <2>2, <2>3, <2>4 DEF Coherent, Chain, Ordered, Derived, ExportPoints
<1>5. QED BY <1>2, <1>3, <1>4

\* The export goes from the image to the archive in one command.
LEMMA CoherentRootfs ==
    ASSUME FilesTyped, Coherent, RootfsStarts \/ RootfsEnds
    PROVE  Coherent'
<1> USE NothingAssumption
<1>1. CASE RootfsStarts
  <2>1. /\ At("export-oci") /\ disk.rootfs = Nothing /\ Present(disk.manifest)
        /\ disk.realized = Nothing
    BY <1>1 DEF RootfsStarts, Coherent, Ordered
  <2>2. disk.archive = Nothing /\ disk.layers = {} /\ Present(disk.image) /\ Present(disk.payload)
    BY <2>1 DEF Coherent, Chain
  <2>3. CASE disk' = disk /\ Exit
    BY <2>1, <2>3, KeptExit DEF Kept, Quiet
  <2>4. CASE /\ disk' = [disk EXCEPT !.rootfs = [of |-> disk.image, whole |-> FALSE]]
             /\ Go("rootfs ends")
    <3>1. /\ disk'.payload = disk.payload /\ disk'.image = disk.image
          /\ disk'.packages = disk.packages /\ disk'.manifest = disk.manifest
          /\ disk'.layers = disk.layers
          /\ disk'.archive = disk.archive /\ disk'.realized = disk.realized
          /\ disk'.rootfs = [of |-> disk.image, whole |-> FALSE]
      BY <2>4 DEF FilesTyped, DiskType
    <3>2. job'.at = "rootfs ends"
      BY <2>4 DEF FilesTyped, JobType
    <3>5. disk'.rootfs.of = disk.image /\ disk.payload.whole /\ disk.image.installed
      BY <2>1, <2>2, <3>1 DEF Coherent, Derived
    <3>6. disk.manifest = disk.image /\ disk.packages = disk.image
      BY <2>1 DEF Coherent, Derived
    <3>3. Derived'
      BY <2>1, <2>2, <3>1, <3>2, <3>5, <3>6 DEF Derived, ExportPoints
    <3>4. QED BY <2>1, <2>2, <3>1, <3>2, <3>3 DEF Coherent, Chain, Ordered, ExportPoints
  <2>5. QED BY <1>1, <2>3, <2>4 DEF RootfsStarts
<1>2. CASE RootfsEnds
  <2>1. /\ At("rootfs ends") /\ disk.archive = Nothing /\ disk.layers = {}
        /\ Present(disk.manifest) /\ disk.realized = Nothing
    BY <1>2 DEF RootfsEnds, Coherent, Ordered, ExportPoints
  <2>2. disk.rootfs \in RootfsType /\ Present(disk.rootfs)
    BY <2>1 DEF FilesTyped, JobInv, ExportPoints
  <2>3. disk' = [disk EXCEPT !.rootfs.whole = TRUE] /\ job'.at = "layer"
    BY <1>2 DEF RootfsEnds, FilesTyped, JobType
  <2>4. /\ disk'.payload = disk.payload /\ disk'.image = disk.image
        /\ disk'.packages = disk.packages /\ disk'.manifest = disk.manifest
        /\ disk'.layers = disk.layers
        /\ disk'.archive = disk.archive /\ disk'.realized = disk.realized
        /\ disk'.rootfs = [disk.rootfs EXCEPT !.whole = TRUE]
    BY <2>3 DEF FilesTyped, DiskType
  <2>5. disk'.rootfs.whole /\ disk'.rootfs.of = disk.image
    BY <2>2, <2>4 DEF RootfsType, Coherent, Derived
  <2>6. Derived'
    BY <2>1, <2>3, <2>4, <2>5 DEF Coherent, Derived, ExportPoints
  <2>7. QED BY <2>1, <2>3, <2>4, <2>6 DEF Coherent, Chain, Ordered, ExportPoints
<1>3. QED BY <1>1, <1>2

LEMMA CoherentLayer ==
    ASSUME FilesTyped, Coherent, LayerStarts \/ LayerEnds
    PROVE  Coherent'
<1> USE NothingAssumption
<1>1. /\ job.at \in {"layer", "layer ends"} /\ disk.archive = Nothing
      /\ Present(disk.manifest) /\ disk.realized = Nothing
  BY DEF LayerStarts, LayerEnds, Coherent, Ordered, ExportPoints
<1>2. disk.rootfs \in RootfsType /\ Present(disk.rootfs)
  BY <1>1 DEF FilesTyped, JobInv, ExportPoints
<1>3. job'.at \in {"layer ends", "archive"}
  BY DEF LayerStarts, LayerEnds, FilesTyped, JobType
<1>4. /\ disk'.payload = disk.payload /\ disk'.image = disk.image
      /\ disk'.packages = disk.packages /\ disk'.manifest = disk.manifest
      /\ disk'.rootfs = disk.rootfs
      /\ disk'.archive = disk.archive /\ disk'.realized = disk.realized
  BY DEF LayerStarts, LayerEnds, FilesTyped, DiskType
<1>5. \A layer \in disk'.layers :
        layer.of = disk.rootfs /\ (layer.whole \/ job'.at = "layer ends")
  <2>1. \A layer \in disk.layers :
          layer.of = disk.rootfs /\ (layer.whole \/ At("layer ends"))
    BY DEF Coherent, Derived
  <2>2. CASE LayerStarts /\ LayerThere
    <3>1. disk' = disk /\ ~At("layer ends")
      BY <2>2 DEF LayerStarts
    <3>2. QED BY <2>1, <3>1
  <2>3. CASE LayerStarts /\ ~LayerThere
    <3> DEFINE torn == [of |-> disk.rootfs, whole |-> FALSE]
    <3>1. disk' = [disk EXCEPT !.layers = disk.layers \cup {torn}]
      BY <2>3 DEF LayerStarts
    <3>2. job'.at = "layer ends"
      BY <2>3 DEF LayerStarts, FilesTyped, JobType
    <3>3. disk'.layers = disk.layers \cup {torn}
      BY <3>1 DEF FilesTyped, DiskType
    <3>4. torn.of = disk.rootfs
      OBVIOUS
    <3> HIDE DEF torn
    <3>5. QED BY <2>1, <3>2, <3>3, <3>4
  <2>4. CASE LayerEnds
    <3> DEFINE torn == [of |-> disk.rootfs, whole |-> FALSE]
               whole == [of |-> disk.rootfs, whole |-> TRUE]
    <3>1. disk' = [disk EXCEPT !.layers = (disk.layers \ {torn}) \cup {whole}]
      BY <2>4 DEF LayerEnds
    <3>2. \A layer \in disk.layers \ {torn} : layer.whole
      <4>1. ASSUME NEW layer \in disk.layers, ~layer.whole PROVE layer = torn
        <5>1. layer \in LayerType /\ layer.of = disk.rootfs
          BY <2>1, <4>1 DEF FilesTyped, DiskType
        <5>2. QED BY <4>1, <5>1 DEF LayerType
      <4>2. QED BY <4>1
    <3>3. whole.of = disk.rootfs /\ whole.whole
      OBVIOUS
    <3> HIDE DEF torn, whole
    <3>4. disk'.layers = (disk.layers \ {torn}) \cup {whole}
      BY <3>1 DEF FilesTyped, DiskType
    <3>5. QED BY <2>1, <3>2, <3>3, <3>4
  <2>5. QED BY <2>2, <2>3, <2>4
<1>6. Chain'
  BY <1>1, <1>2, <1>4 DEF Coherent, Chain
<1>7. Ordered'
  BY <1>1, <1>3, <1>4 DEF Ordered, ExportPoints
<1>8. Derived'
  BY <1>1, <1>3, <1>4, <1>5 DEF Coherent, Derived, ExportPoints
<1>9. QED BY <1>6, <1>7, <1>8 DEF Coherent

LEMMA CoherentArchive ==
    ASSUME FilesTyped, Coherent, ArchiveStarts \/ ArchiveEnds
    PROVE  Coherent'
<1> USE NothingAssumption
<1>1. /\ job.at \in {"archive", "archive ends"}
      /\ Present(disk.manifest) /\ disk.realized = Nothing
  BY DEF ArchiveStarts, ArchiveEnds, Coherent, Ordered, ExportPoints
<1>2. disk.rootfs \in RootfsType /\ Present(disk.rootfs)
  BY <1>1 DEF FilesTyped, JobInv, ExportPoints
<1>3. /\ disk'.payload = disk.payload /\ disk'.image = disk.image
      /\ disk'.packages = disk.packages /\ disk'.manifest = disk.manifest
      /\ disk'.rootfs = disk.rootfs /\ disk'.layers = disk.layers
      /\ disk'.realized = disk.realized
  BY DEF ArchiveStarts, ArchiveEnds, FilesTyped, DiskType
<1>4. CASE ArchiveStarts
  <2> DEFINE layer == CHOOSE l \in disk.layers : l.of = disk.rootfs
             new == [layer |-> layer, whole |-> FALSE, copy |-> Other(disk.archive)]
  <2>1. LayerThere
    BY <1>4 DEF ArchiveStarts, FilesTyped, JobInv
  <2>2. layer \in disk.layers
    BY <2>1 DEF LayerThere
  <2>3. layer.of = disk.rootfs /\ layer.whole /\ layer \in LayerType
    BY <1>4, <2>2 DEF ArchiveStarts, Coherent, Derived, FilesTyped, DiskType
  <2>4. layer = [of |-> disk.rootfs, whole |-> TRUE]
    BY <2>3 DEF LayerType
  <2>5. disk' = [disk EXCEPT !.archive = new] /\ job'.at = "archive ends"
    BY <1>4 DEF ArchiveStarts, FilesTyped, JobType
  <2> HIDE DEF layer
  <2>6. disk'.archive.layer = [of |-> disk.rootfs, whole |-> TRUE]
    <3>1. new.layer = [of |-> disk.rootfs, whole |-> TRUE]
      BY <2>4
    <3> HIDE DEF new
    <3>2. QED BY <2>5, <3>1 DEF FilesTyped, DiskType
  <2>7. Chain'
    BY <1>1, <1>2, <1>3 DEF Coherent, Chain
  <2>8. Ordered'
    BY <1>1, <1>3, <2>5 DEF Ordered, ExportPoints
  <2>9. Derived'
    BY <1>1, <1>3, <1>4, <2>5, <2>6 DEF ArchiveStarts, Coherent, Derived, ExportPoints
  <2>10. QED BY <2>7, <2>8, <2>9 DEF Coherent
<1>5. CASE ArchiveEnds
  <2>1. disk.archive \in ArchiveType /\ Present(disk.archive)
    BY <1>5 DEF ArchiveEnds, FilesTyped, JobInv
  <2>2. disk' = [disk EXCEPT !.archive.whole = TRUE] /\ job'.at = "idle"
    BY <1>5 DEF ArchiveEnds
  <2>3. disk'.archive = [disk.archive EXCEPT !.whole = TRUE]
    BY <2>2 DEF FilesTyped, DiskType
  <2>4. /\ disk'.archive.layer = disk.archive.layer /\ disk'.archive.whole
        /\ disk'.archive \in ArchiveType
    BY <2>1, <2>3 DEF ArchiveType
  <2>5. Chain'
    BY <1>1, <1>2, <1>3 DEF Coherent, Chain
  <2>6. Ordered'
    BY <2>2 DEF Ordered, ExportPoints
  <2>7. Derived'
    BY <1>1, <1>3, <1>5, <2>1, <2>2, <2>4 DEF ArchiveEnds, Coherent, Derived, ExportPoints
  <2>8. QED BY <2>5, <2>6, <2>7 DEF Coherent
<1>6. QED BY <1>4, <1>5

\* lock-realize copies what is there.
LEMMA CoherentLock == ASSUME FilesTyped, Coherent, RealizeLock PROVE Coherent'
<1>1. At("lock-realize") /\ Collected /\ job'.at = "idle"
  BY DEF RealizeLock, Coherent, Ordered
<1>2. disk' = [disk EXCEPT !.realized = Realized]
  BY LockWritten
<1>3. /\ disk'.payload = disk.payload /\ disk'.image = disk.image
      /\ disk'.packages = disk.packages /\ disk'.manifest = disk.manifest
      /\ disk'.rootfs = disk.rootfs /\ disk'.layers = disk.layers
      /\ disk'.archive = disk.archive /\ disk'.realized = Realized
  BY <1>2 DEF FilesTyped, DiskType
<1>4. /\ Realized.image = disk.image
      /\ Realized.package = disk.manifest /\ Realized.versions = disk.packages
      /\ Realized.rootfs = disk.rootfs /\ Realized.archive = disk.archive
  BY DEF Realized
<1>5. Chain'
  BY <1>1, <1>3 DEF Coherent, Chain, Collected, Exported
<1>6. Ordered'
  BY <1>1 DEF Ordered, ExportPoints
<1>7. Derived'
  BY <1>1, <1>3, <1>4 DEF Coherent, Derived, ExportPoints
<1>8. QED BY <1>5, <1>6, <1>7 DEF Coherent

LEMMA CleanStaysCoherent ==
    ASSUME Typed, Clean => Coherent, [Next]_vars
    PROVE  (Clean => Coherent)'
<1> SUFFICES ASSUME Clean' PROVE Coherent'
  OBVIOUS
<1>1. ~Stop /\ ~FetchBad /\ ~RunUnasked /\ ~BootUnasked
  <2>1. CASE Stop \/ FetchBad
    <3>1. faults' = faults + 1 /\ faults \in Nat /\ faults' = 0
      BY <2>1 DEF Stop, FetchBad, Typed, CountTyped, Clean
    <3>2. QED BY <3>1
  <2>2. CASE RunUnasked \/ BootUnasked
    <3>1. unasked' = unasked + 1 /\ unasked \in Nat /\ unasked' = 0
      BY <2>2 DEF RunUnasked, BootUnasked, Typed, CountTyped, Clean
    <3>2. QED BY <3>1
  <2>3. QED BY <2>1, <2>2
<1>2. unasked' = unasked /\ faults' = faults
  BY <1>1 DEF Next, Operator, Follow, Step, Payload, Image, Inventory, Export, Calibrate,
       LockSources, DockerBuild, RemoveIso, StageClear, StageCopy, StageManifest,
       XorrisoStarts, XorrisoEnds, FetchSums, FetchIso, CannotFetch, CheckSums, CheckIso,
       CreateImage, Install,
       InventoryClear, CopyOut, HostPackages, HostManifest, RootfsStarts, RootfsEnds,
       LayerStarts, LayerEnds, ArchiveStarts, ArchiveEnds, Trials, WriteCalibration,
       RealizeLock, BootByHand, Edit, Done, Start, vars
<1>3. Coherent /\ FilesTyped
  BY <1>2 DEF Clean, Typed
<1>4. QED
  BY <1>1, <1>3, CoherentFollow, CoherentElsewhere, CoherentImages, CoherentInventory,
     CoherentRootfs, CoherentLayer, CoherentArchive, CoherentLock
     DEF Next, Operator, Step, Payload, Image, Inventory, Export, Calibrate

\* The order of preflight's checks (reference.py: preflight, next_action) is such
\* that following it derives nothing from an artifact that is still to change: if
\* every command was asked for and succeeded, what the lock records comes from
\* one image.  Preflight itself does not compare them.
THEOREM FollowingIsCoherent == Spec => []FollowedLockIsCoherent
<1>1. Init => (Clean => Coherent)
  BY DEF Init, Empty, Coherent, Chain, Ordered, Derived, ExportPoints
<1>2. Typed /\ (Clean => Coherent) /\ [Next]_vars => (Clean => Coherent)'
  BY CleanStaysCoherent
<1>3. Typed /\ (Clean => Coherent) => FollowedLockIsCoherent
  <2> SUFFICES ASSUME Typed, Clean, Coherent, At("idle"), LockReady
               PROVE  FollowedLockIsCoherent
    BY DEF Clean, FollowedLockIsCoherent
  <2>1. /\ Present(disk.realized) /\ Present(disk.payload) /\ Present(disk.image)
        /\ Present(disk.manifest) /\ Present(disk.rootfs) /\ Present(disk.archive)
    BY DEF LockReady, Collected, Exported
  <2>2. /\ disk.payload.whole /\ disk.image.installed
        /\ disk.rootfs.of = disk.image /\ disk.rootfs.whole
        /\ disk.archive.layer = [of |-> disk.rootfs, whole |-> TRUE] /\ disk.archive.whole
        /\ disk.manifest = disk.image /\ disk.packages = disk.image
    BY <2>1 DEF Coherent, Derived
  <2>3. disk.rootfs = [of |-> disk.image, whole |-> TRUE]
    <3>1. disk.rootfs \in RootfsType
      BY <2>1 DEF Typed, FilesTyped, DiskType
    <3>2. QED BY <2>2, <3>1 DEF RootfsType
  <2>4. /\ disk.realized.image = disk.image
        /\ disk.realized.package = disk.manifest /\ disk.realized.versions = disk.packages
        /\ disk.realized.rootfs = disk.rootfs /\ disk.realized.archive = disk.archive
    BY <2>1 DEF Coherent, Derived
  <2>5. QED BY <2>2, <2>3, <2>4 DEF FollowedLockIsCoherent
<1>4. QED BY <1>1, <1>2, <1>3, TypedAlways, PTL DEF Spec

=============================================================================
