------------------------------ MODULE Discovery ------------------------------
(***************************************************************************)
(* The list of backup jobs that Scout shows: DirectoryService              *)
(* (scout/internal/services/directories/directories.go).                   *)
(*                                                                         *)
(* A job is a folder with a marker file, and a job hides every marker      *)
(* below it.  Finding the jobs takes a walk over the whole tree, so the    *)
(* service keeps the result of the last walk and walks in the background.  *)
(* The walk reads one folder at a time while markers come and go: through  *)
(* SaveJob and DeleteJob, which announce the change to the service, and by *)
(* hand, which nobody announces.  A backup cycle walks for itself          *)
(* (DiscoverJobsContext, scout/internal/backup/discovery.go) and is more   *)
(* particular: it leaves out Scout's own folders and broken markers.       *)
(***************************************************************************)
EXTENDS Naturals, Sequences, FiniteSets

CONSTANTS
  Dirs,          \* folders below and including the scan root
  Root,          \* the scan root
  Parent,        \* the folder a folder lies in
  Depths,        \* the values of settings.MaxDepth
  Runtime,       \* folders with the file that marks Scout's own data
  NoList,        \* the nil list of a service whose first walk has not finished
  NoEdit,        \* no SaveJob or DeleteJob holds the cycle lock
  MaxEdits,      \* bound: saves and deletes through the user interface
  MaxOthers      \* bound: markers touched by hand, folders that cannot be read,
                 \* restarts of Scout and changes of its settings

ASSUME DirsAssumption ==
  /\ IsFiniteSet(Dirs)
  /\ Root \in Dirs
  /\ Parent \in [Dirs \ {Root} -> Dirs]
  /\ Runtime \subseteq Dirs
ASSUME BoundsAssumption ==
  /\ Depths \subseteq Nat /\ Depths # {}
  /\ {MaxEdits, MaxOthers} \subseteq Nat
ASSUME ValuesAssumption ==
  /\ \A S \in SUBSET Dirs : NoList # S
  /\ \A e \in [dir : Dirs, saved : BOOLEAN] : NoEdit # e
\* The folders are a tree: each of them is reached from the root, step by step.
ASSUME TreeAssumption ==
  \A S \in SUBSET Dirs :
    Root \in S /\ (\A d \in Dirs \ {Root} : Parent[d] \in S => d \in S) => S = Dirs

VARIABLES
  markers,       \* folders with a marker file, on the disk
  invalid,       \* those of them whose marker cannot be read as a job
  maxDepth,      \* settings.MaxDepth of the service
  jobDirs,       \* d.jobDirs
  walking,       \* d.walking
  discovering,   \* d.firstWalk is still open
  changed,       \* d.changed: folder -> saved or deleted during the walk
  todo,          \* folders the walk has still to read
  found,         \* folders the walk has found a marker in
  edit,          \* the SaveJob or DeleteJob that wrote its marker
  reader,        \* the request for the list: idle, waiting, reading
  answer,        \* paths and flag that request has read, and known at that time
  known,         \* history: folders saved, announced and in view ever since
  drifted,       \* history: since the walk began, a marker changed by hand or
                 \* a folder could not be read
  count          \* how often each bounded kind of event has happened

disk == <<markers, invalid, maxDepth>>
walk == <<todo, found>>
request == <<reader, answer>>
vars == <<disk, jobDirs, walking, discovering, changed, walk, edit, request,
          known, drifted, count>>

-----------------------------------------------------------------------------
(* The tree. *)

\* The folders that a folder lies in, from its parent up to the root.
Ancestors[d \in Dirs] == IF d = Root THEN {} ELSE Ancestors[Parent[d]] \cup {Parent[d]}

Below(d) == {e \in Dirs : d \in Ancestors[e]}
Depth(d) == Cardinality(Ancestors[d])
Children(d) == {e \in Dirs \ {Root} : Parent[e] = d}

\* IsRuntimePath: the folder or one above it holds Scout's own data.
IsRuntimePath(d) == (Ancestors[d] \cup {d}) \cap Runtime # {}

\* The folders whose marker no other one hides, and which lie within the depth.
InView(d) == Depth(d) <= maxDepth /\ Ancestors[d] \cap markers = {}

\* DiscoverJobs: what a backup cycle that starts now backs up.
DiscoverJobs == {d \in markers \ invalid : InView(d) /\ ~IsRuntimePath(d)}

\* withJob: the list with one folder added or removed.
withJob(dirs, d, saved) == IF saved THEN dirs \cup {d} ELSE dirs \ {d}

\* What a walk found, with the changes made during it. (Mutant: without them.)
MergedNothing(dirs) == dirs
Merged(dirs) == {d \in Dirs : IF d \in DOMAIN changed THEN changed[d]
                                                      ELSE d \in dirs}

\* The children of a folder are read in the order of their names.
Orders(S) == {s \in [1..Cardinality(S) -> S] :
                \A i, j \in DOMAIN s : i # j => s[i] # s[j]}
Sorted(S) == CHOOSE s \in Orders(S) : TRUE

EmptyChanges == [d \in {} |-> TRUE]
NoAnswer == [dirs |-> {}, discovering |-> TRUE, known |-> {}]

TypeOK ==
  /\ markers \subseteq Dirs /\ invalid \subseteq markers
  /\ maxDepth \in Depths
  /\ jobDirs = NoList \/ jobDirs \subseteq Dirs
  /\ walking \in BOOLEAN
  /\ discovering = (jobDirs = NoList)
  /\ changed \in UNION {[S -> BOOLEAN] : S \in SUBSET Dirs}
  /\ ~walking => changed = EmptyChanges
  /\ todo \in Seq(Dirs) /\ found \subseteq Dirs
  /\ edit \in [dir : Dirs, saved : BOOLEAN] \cup {NoEdit}
  /\ reader \in {"idle", "waiting", "reading"}
  /\ answer \in [dirs : SUBSET Dirs, discovering : BOOLEAN, known : SUBSET Dirs]
  /\ known \subseteq markers
  /\ drifted \in BOOLEAN
  /\ count \in [{"edit", "other"} -> Nat]

Within(kind, bound) == count[kind] < bound /\ count' = [count EXCEPT ![kind] = @ + 1]

-----------------------------------------------------------------------------
(* startWalkLocked and runWalks. *)

StartWalk ==
  IF walking
  THEN UNCHANGED <<walking, walk, drifted>>
  ELSE walking' = TRUE /\ todo' = <<Root>> /\ found' = {} /\ drifted' = FALSE

\* main: Scout starts, and StartDiscovery begins the first walk.
Init ==
  /\ markers \in {{}, {Root}, Dirs \ {Root}} /\ invalid = {}
  /\ maxDepth \in Depths
  /\ jobDirs = NoList /\ discovering = TRUE
  /\ walking = TRUE /\ todo = <<Root>> /\ found = {}
  /\ changed = EmptyChanges /\ edit = NoEdit
  /\ reader = "idle" /\ answer = NoAnswer
  /\ known = {} /\ drifted = FALSE
  /\ count = [kind \in {"edit", "other"} |-> 0]

\* walkJobDirectories reads the next folder, without the lock.
WalkFolder ==
  /\ walking /\ todo # <<>>
  /\ LET d == Head(todo) IN
       IF d \in markers
       THEN found' = found \cup {d} /\ todo' = Tail(todo)
       ELSE /\ found' = found
            /\ todo' = (IF Depth(d) >= maxDepth THEN <<>> ELSE Sorted(Children(d)))
                         \o Tail(todo)
  /\ UNCHANGED <<disk, jobDirs, walking, discovering, changed, edit, request,
                 known, drifted, count>>

\* A folder that cannot be read is passed over, with everything below it.
ReadDirFails ==
  /\ walking /\ todo # <<>>
  /\ todo' = Tail(todo) /\ drifted' = TRUE
  /\ known' = known \ (Below(Head(todo)) \cup {Head(todo)})
  /\ Within("other", MaxOthers)
  /\ UNCHANGED <<disk, jobDirs, walking, discovering, changed, found, edit, request>>

\* The end of a walk, under jobsMu: the changes made meanwhile are merged into
\* its result, and it starts over if there were any.
\* (Mutants: it never starts over; it keeps the changes it has merged.)
RepeatNever == FALSE
RepeatWalk == changed # EmptyChanges

FinishWalkKeeping ==
  /\ walking /\ todo = <<>>
  /\ jobDirs' = Merged(found) /\ discovering' = FALSE
  /\ walking' = RepeatWalk /\ todo' = (IF RepeatWalk THEN <<Root>> ELSE <<>>)
  /\ found' = {}
  /\ UNCHANGED <<disk, changed, edit, request, known, drifted, count>>

FinishWalk ==
  /\ walking /\ todo = <<>>
  /\ jobDirs' = Merged(found)
  /\ discovering' = FALSE
  /\ changed' = EmptyChanges
  /\ walking' = RepeatWalk
  /\ IF RepeatWalk
     THEN todo' = <<Root>> /\ found' = {} /\ drifted' = FALSE
     ELSE UNCHANGED <<walk, drifted>>
  /\ UNCHANGED <<disk, edit, request, known, count>>

-----------------------------------------------------------------------------
(* SaveJob and DeleteJob. The runner calls them under the cycle lock, so one *)
(* is under way at a time.                                                   *)

\* A new marker is refused below another one; an existing one may be rewritten.
\* Nobody asks whether the folder is within the depth.
SaveMarker(d) ==
  /\ edit = NoEdit
  /\ d \in markers \/ Ancestors[d] \cap markers = {}
  /\ markers' = markers \cup {d} /\ invalid' = invalid \ {d}
  /\ known' = known \ Below(d)
  /\ edit' = [dir |-> d, saved |-> TRUE]
  /\ Within("edit", MaxEdits)
  /\ UNCHANGED <<maxDepth, jobDirs, walking, discovering, changed, walk, request, drifted>>

\* Deleting a job that is not there succeeds too.
DeleteMarker(d) ==
  /\ edit = NoEdit
  /\ markers' = markers \ {d} /\ invalid' = invalid \ {d}
  /\ known' = known \ {d}
  /\ edit' = [dir |-> d, saved |-> FALSE]
  /\ Within("edit", MaxEdits)
  /\ UNCHANGED <<maxDepth, jobDirs, walking, discovering, changed, walk, request, drifted>>

\* jobChanged, under jobsMu: the list changes at once. A walk under way is told
\* what to merge; otherwise a new one starts, because nested jobs may appear.
Recorded(d, saved) ==
  IF walking
  THEN [e \in DOMAIN changed \cup {d} |-> IF e = d THEN saved ELSE changed[e]]
  ELSE EmptyChanges

jobChanged ==
  /\ edit # NoEdit
  /\ jobDirs' = IF jobDirs = NoList THEN NoList
                ELSE withJob(jobDirs, edit.dir, edit.saved)
  /\ changed' = Recorded(edit.dir, edit.saved)
  /\ StartWalk
  /\ known' = IF edit.saved /\ edit.dir \in markers /\ InView(edit.dir)
              THEN known \cup {edit.dir} ELSE known
  /\ edit' = NoEdit
  /\ UNCHANGED <<disk, discovering, request, count>>

-----------------------------------------------------------------------------
(* A request for the list: jobDirectories, then ListJobsWithState. *)

\* The list is missing or older than jobDiscoveryTTL: start a walk.
RequestList ==
  /\ reader = "idle"
  /\ \E expired \in BOOLEAN :
       IF jobDirs = NoList \/ expired THEN StartWalk
       ELSE UNCHANGED <<walking, walk, drifted>>
  /\ reader' = "waiting"
  /\ UNCHANGED <<disk, jobDirs, discovering, changed, edit, answer, known, count>>

\* The first walk has finished, or the wait for it is over: paths and flag are
\* read under one hold of the lock.
\* (Mutant: the flag is read later than the paths.)
ReadListFlagLater ==
  /\ reader = "waiting"
  /\ \E over \in {FALSE, discovering} :
       answer' = [dirs |-> IF jobDirs = NoList THEN {} ELSE jobDirs,
                  discovering |-> over, known |-> known]
  /\ reader' = "reading"
  /\ UNCHANGED <<disk, jobDirs, walking, discovering, changed, walk, edit, known,
                 drifted, count>>

ReadList ==
  /\ reader = "waiting"
  /\ answer' = [dirs |-> IF jobDirs = NoList THEN {} ELSE jobDirs,
                discovering |-> discovering, known |-> known]
  /\ reader' = "reading"
  /\ UNCHANGED <<disk, jobDirs, walking, discovering, changed, walk, edit, known,
                 drifted, count>>

\* The request is answered. (serializeDirectory reads each marker again, and a
\* folder that has lost it meanwhile drops out of the answer.)
AnswerList ==
  /\ reader = "reading"
  /\ answer' = NoAnswer
  /\ reader' = "idle"
  /\ UNCHANGED <<disk, jobDirs, walking, discovering, changed, walk, edit, known,
                 drifted, count>>

-----------------------------------------------------------------------------
(* The surroundings. *)

\* Somebody removes a marker by hand, or writes one that may be broken.
ChangeByHand(d) ==
  /\ \/ /\ markers' = markers \ {d} /\ invalid' = invalid \ {d}
        /\ known' = known \ {d}
     \/ /\ markers' = markers \cup {d} /\ invalid' \in {invalid \ {d}, invalid \cup {d}}
        /\ known' = known \ Below(d)
  /\ drifted' = TRUE
  /\ Within("other", MaxOthers)
  /\ UNCHANGED <<maxDepth, jobDirs, walking, discovering, changed, walk, edit, request>>

\* NewDirectoryService: an empty list, whose walk begins at once when Scout
\* starts and with the first request when applySettings replaced the service.
NewService(started) ==
  /\ Within("other", MaxOthers)
  /\ jobDirs' = NoList /\ discovering' = TRUE /\ changed' = EmptyChanges
  /\ walking' = started
  /\ todo' = IF started THEN <<Root>> ELSE <<>>
  /\ found' = {} /\ drifted' = FALSE
  /\ reader' = "idle" /\ answer' = NoAnswer
  /\ UNCHANGED <<markers, invalid>>

\* Scout may stop between the marker and its announcement.
Restart == NewService(TRUE) /\ edit' = NoEdit /\ UNCHANGED <<maxDepth, known>>

\* UpdateSettings needs the cycle lock too; the depth may be another one.
UpdateSettings ==
  /\ edit = NoEdit /\ edit' = NoEdit
  /\ NewService(FALSE)
  /\ maxDepth' \in Depths
  /\ known' = {d \in known : Depth(d) <= maxDepth'}

Walk == WalkFolder \/ ReadDirFails \/ FinishWalk
Request == RequestList \/ ReadList \/ AnswerList
Edit == jobChanged \/ \E d \in Dirs : SaveMarker(d) \/ DeleteMarker(d)

Next ==
  \/ Walk \/ Request \/ Edit
  \/ \E d \in Dirs : ChangeByHand(d)
  \/ Restart \/ UpdateSettings

Spec == Init /\ [][Next]_vars

\* The walk and an edit that has written its marker go on by themselves.
FairSpec == Spec /\ WF_vars(Walk) /\ WF_vars(jobChanged)

-----------------------------------------------------------------------------
(* Properties. *)

\* A job that the user saved stays in the list, as long as it is within the depth,
\* no marker above hides it and its folders can be read: the result of a walk that
\* passed its folder before the marker was written does not drop it
\* (runWalks: "The walk may have passed a job before it was saved or deleted.").
SavedStaysListed == jobDirs # NoList => known \subseteq jobDirs

\* When nothing is under way and the last walk was not disturbed, every job that the
\* next backup cycle backs up is in the list, nested ones included that a deletion
\* has revealed; and what is in the list beyond that has a broken marker, which the
\* list reports, or lies in Scout's own folders.
ListedIsBackedUp ==
  (~walking /\ edit = NoEdit /\ ~drifted /\ jobDirs # NoList)
    => /\ DiscoverJobs \subseteq jobDirs
       /\ \A d \in jobDirs \ DiscoverJobs : d \in invalid \/ IsRuntimePath(d)

\* An answer that does not say that the first walk is running holds every job that
\* was saved and is in view (ListJobsWithState: "so the two always agree").
AnswerIsComplete ==
  (reader = "reading" /\ ~answer.discovering) => answer.known \subseteq answer.dirs

\* Every walk comes to an end: changes make it start over, but only once each.
WalksEnd == walking ~> ~walking
=============================================================================
