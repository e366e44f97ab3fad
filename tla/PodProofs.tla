------------------------------ MODULE PodProofs ------------------------------
(***************************************************************************)
(* Machine-checked safety of PodLifecycle, for every number of pods,       *)
(* specifications, requests, failures and threads: a pod on which two      *)
(* threads have not met runs the image of its own specification, and no    *)
(* pod stays marked as being redeployed.                                   *)
(***************************************************************************)
EXTENDS PodLifecycle, FiniteSetTheorems, SequenceTheorems, TLAPS

TrialSteps == {"verify", "cut", "swap"}

\* On a pod whose threads have never met there is one thread at most.
OneWorks == \A p \in alone : \A t, u \in Working(p) : t = u

\* A rollout of updates visits pods it has a specification for.
UpdatesKnown == cycle.phase = "update" => \A p \in cycle.left : cycle.want[p] # NoSpec

\* The goroutine of a redeploy works on the head of its queue.
QueueKept == task["redeploy"] # Idle => queue # <<>>

\* The root directory of a container holds the image it was made from, stopped or not,
\* unless it was used as it was.
BoxHolds ==
  \A p \in alone :
    box[p] # NoBox /\ <<p, box[p].dir>> \notin kept => image[p][box[p].dir] = box[p].spec

\* From the trial of an image to the swap, the other root directory holds it.
TrialHolds ==
  \A t \in Threads :
    /\ task[t].step \in TrialSteps /\ task[t].pod \in alone
    /\ <<task[t].pod, Other(task[t].old)>> \notin kept
    => image[task[t].pod][Other(task[t].old)] = task[t].spec

PodInv == TypeOK /\ OneWorks /\ UpdatesKnown /\ QueueKept /\ BoxHolds /\ TrialHolds

Steps == CreateSteps \cup DeleteSteps \cup UpdateSteps
TaskTypes == [Threads -> Tasks \cup {Idle}]

LEMMA AtTask ==
  ASSUME TypeOK, NEW t \in Threads, task[t].step # "idle"
  PROVE  task[t] \in Tasks /\ task[t] # Idle
  BY DEF TypeOK, Idle

LEMMA TaskIsTask ==
  ASSUME NEW p \in Pods, NEW s \in Specs, NEW step \in Steps,
         NEW then \in {"end", "recreate", "anyway", "create", "unstore"}
  PROVE  /\ Task(p, s, step, then) \in Tasks /\ Task(p, s, step, then) # Idle
         /\ Task(p, s, step, then).pod = p /\ Task(p, s, step, then).step = step
  <1>1. Task(p, s, step, then) \in Tasks
    BY DEF Task, Tasks, Steps, Dirs
  <1>2. Task(p, s, step, then).step # "idle"
    BY DEF Task, Steps, CreateSteps, DeleteSteps, UpdateSteps
  <1> QED
    BY <1>1, <1>2 DEF Task, Idle

\* What every call of a thread does to its task and to what follows the end of it.
Continues(t) ==
  /\ task' = [task EXCEPT ![t] = task'[t]]
  /\ task'[t] = Idle \/ (task'[t] \in Tasks /\ task'[t].pod = task[t].pod)
  /\ failures' \in [Pods -> 0 .. 2] /\ redeploying' \subseteq Pods
  /\ \/ queue' = queue
     \/ t = "redeploy" /\ task'[t] = Idle /\ queue' \in {Tail(queue), <<>>}

LEMMA GoContinues ==
  ASSUME TypeOK, NEW t \in Threads, task[t] \in Tasks, NEW s \in Steps, Go(t, s)
  PROVE  /\ task' = [task EXCEPT ![t] = task'[t]]
         /\ task'[t] = [task[t] EXCEPT !.step = s]
         /\ task'[t] \in Tasks /\ task'[t].pod = task[t].pod /\ task'[t].step = s
         /\ task'[t].old = task[t].old /\ task'[t].spec = task[t].spec
  <1>1. task' = [task EXCEPT ![t] = [task[t] EXCEPT !.step = s]] /\ task \in TaskTypes
    BY DEF Go, TypeOK, TaskTypes
  <1>2. task'[t] = [task[t] EXCEPT !.step = s]
    BY <1>1 DEF TaskTypes
  <1> HIDE DEF Go
  <1>3. task'[t] \in Tasks /\ task'[t].pod = task[t].pod /\ task'[t].step = s
        /\ task'[t].old = task[t].old /\ task'[t].spec = task[t].spec
    BY <1>2 DEF Tasks, Steps
  <1> QED
    BY <1>1, <1>2, <1>3

LEMMA EndContinues ==
  ASSUME TypeOK, NEW t \in Threads, task[t] \in Tasks, NEW ok, NEW flagged \in SUBSET Pods,
         End(t, ok, flagged)
  PROVE  Continues(t) /\ task'[t] = Idle
  <1>1. task'[t] = Idle /\ task' = [task EXCEPT ![t] = task'[t]]
    BY DEF End, TypeOK
  <1>2. failures' \in [Pods -> 0 .. 2]
    BY DEF End, TypeOK, Tasks
  <1>3. redeploying' \subseteq Pods
    BY DEF End
  <1>4. queue' = queue \/ (t = "redeploy" /\ queue' \in {Tail(queue), <<>>})
    BY DEF End
  <1> QED
    BY <1>1, <1>2, <1>3, <1>4 DEF Continues

LEMMA FailsContinues ==
  ASSUME TypeOK, NEW t \in Threads, task[t] \in Tasks, Fails(t)
  PROVE  Continues(t) /\ (task'[t] = Idle \/ task'[t].step = "fallback")
  <1>1. CASE task[t].then = "recreate"
    <2>1. Go(t, "fallback") /\ "fallback" \in Steps
      BY <1>1 DEF Fails, Steps, UpdateSteps
    <2> QED
      BY <1>1, <2>1, GoContinues DEF Fails, Continues, TypeOK
  <1>2. CASE task[t].then # "recreate"
    BY <1>2, EndContinues DEF Fails, TypeOK
  <1> QED
    BY <1>1, <1>2

LEMMA GoesOn ==
  ASSUME TypeOK, NEW t \in Threads, task[t] \in Tasks, NEW s \in Steps, Go(t, s),
         redeploying' \subseteq Pods, UNCHANGED <<failures, queue>>
  PROVE  Continues(t)
  BY GoContinues DEF Continues, TypeOK

LEMMA ThreadContinues ==
  ASSUME TypeOK, NEW t \in Threads, ThreadNext(t)
  PROVE  task[t] \in Tasks /\ task[t] # Idle /\ Continues(t)
         /\ UNCHANGED <<cycle, alone>>
  <1> USE DEF Rest, OnDevice
  <1>0. task[t] \in Tasks /\ task[t] # Idle
    <2>1. task[t].step # "idle"
      BY DEF ThreadNext, CreateNext, DeleteNext, UpdateNext, At, Clean, Net, Make, StartBox,
             Track, Remove, Release, Untrack, Unstore, BeginUpdate, Stage, Verify, Cut, Swap,
             Fallback
    <2> QED
      BY <2>1, AtTask
  <1>u. UNCHANGED <<cycle, alone>>
    BY DEF ThreadNext, CreateNext, DeleteNext, UpdateNext, Clean, Net, Make, StartBox,
           Track, Remove, Release, Untrack, Unstore, BeginUpdate, Stage, Verify, Cut, Swap,
           Fallback
  <1> SUFFICES Continues(t)
    BY <1>0, <1>u
  <1>g. ASSUME NEW s \in Steps, Go(t, s), redeploying' = redeploying,
               UNCHANGED <<failures, queue>>
        PROVE  Continues(t)
    BY <1>g, <1>0, GoesOn DEF TypeOK
  <1>f. ASSUME Fails(t) PROVE Continues(t)
    BY <1>0, <1>f, FailsContinues
  <1>e. ASSUME NEW ok, End(t, ok, redeploying) PROVE Continues(t)
    BY <1>0, <1>e, EndContinues DEF TypeOK
  <1>s. /\ "net" \in Steps /\ "make" \in Steps /\ "start" \in Steps /\ "track" \in Steps
        /\ "release" \in Steps /\ "untrack" \in Steps /\ "unstore" \in Steps
        /\ "verify" \in Steps /\ "cut" \in Steps /\ "swap" \in Steps
    BY DEF Steps, CreateSteps, DeleteSteps, UpdateSteps
  <1>1. CASE Clean(t)
    BY <1>1, <1>g, <1>s DEF Clean
  <1>2. CASE Net(t)
    BY <1>2, <1>g, <1>f, <1>s DEF Net
  <1>3. CASE Make(t)
    BY <1>3, <1>g, <1>f, <1>s DEF Make
  <1>4. CASE StartBox(t)
    BY <1>4, <1>g, <1>f, <1>s DEF StartBox
  <1>5. CASE Track(t)
    <2>1. PICK flagged \in SUBSET Pods : End(t, TRUE, flagged)
      BY <1>5 DEF Track, TypeOK
    <2> QED
      BY <1>5, <1>0, <2>1, EndContinues DEF Track
  <1>6. CASE Remove(t)
    <2>1. CASE Go(t, "release")
      BY <1>6, <2>1, <1>g, <1>s DEF Remove
    <2>2. ASSUME NEW bad \in BOOLEAN,
                 task' = [task EXCEPT ![t].step = "release", ![t].bad = bad]
          PROVE  Continues(t)
      <3>1. task'[t] = [task[t] EXCEPT !.step = "release", !.bad = bad]
            /\ task' = [task EXCEPT ![t] = task'[t]]
        BY <2>2 DEF TypeOK
      <3>2. task'[t] \in Tasks /\ task'[t].pod = task[t].pod
        BY <3>1, <1>0 DEF Tasks, DeleteSteps
      <3> QED
        BY <3>1, <3>2, <1>6 DEF Continues, Remove, TypeOK
    <2> QED
      BY <1>6, <2>1, <2>2 DEF Remove
  <1>7. CASE Release(t)
    BY <1>7, <1>g, <1>s DEF Release
  <1>8. CASE Untrack(t)
    <2>1. ASSUME task' = [task EXCEPT ![t] = Task(task[t].pod, task[t].spec, "clean", "end")],
                 UNCHANGED <<redeploying, failures, queue>>
          PROVE  Continues(t)
      <3>1. task[t].pod \in Pods /\ task[t].spec \in Specs /\ "clean" \in Steps
        BY <1>0 DEF Tasks, Steps, CreateSteps
      <3>2. task'[t] = Task(task[t].pod, task[t].spec, "clean", "end")
        BY <2>1 DEF TypeOK
      <3>3. task'[t] \in Tasks /\ task'[t].pod = task[t].pod
        BY <3>1, <3>2, TaskIsTask
      <3> QED
        BY <2>1, <3>2, <3>3 DEF Continues, TypeOK
    <2> QED
      BY <1>8, <2>1, <1>g, <1>e, <1>s DEF Untrack
  <1>9. CASE Unstore(t)
    BY <1>9, <1>e DEF Unstore
  <1>10. CASE BeginUpdate(t)
    <2>1. ASSUME box[task[t].pod] # NoBox, redeploying' = redeploying \cup {task[t].pod},
                 task' = [task EXCEPT ![t].step = "stage", ![t].old = box[task[t].pod].dir],
                 UNCHANGED <<failures, queue>>
          PROVE  Continues(t)
      <3>1. task[t].pod \in Pods /\ box[task[t].pod].dir \in Dirs
        BY <1>0, <2>1 DEF Tasks, TypeOK, Boxes
      <3>2. task'[t] = [task[t] EXCEPT !.step = "stage", !.old = box[task[t].pod].dir]
            /\ task' = [task EXCEPT ![t] = task'[t]]
        BY <2>1 DEF TypeOK
      <3>3. task'[t] \in Tasks /\ task'[t].pod = task[t].pod
        BY <3>1, <3>2, <1>0 DEF Tasks, UpdateSteps
      <3> QED
        BY <2>1, <3>1, <3>2, <3>3 DEF Continues, TypeOK
    <2> QED
      BY <1>10, <2>1, <1>f DEF BeginUpdate
  <1>11. CASE Stage(t)
    BY <1>11, <1>g, <1>f, <1>s DEF Stage
  <1>12. CASE Verify(t)
    BY <1>12, <1>g, <1>f, <1>s DEF Verify
  <1>13. CASE Cut(t)
    BY <1>13, <1>g, <1>f, <1>s DEF Cut
  <1>14. CASE Swap(t)
    BY <1>14, <1>g, <1>f, <1>s DEF Swap
  <1>15. CASE Fallback(t)
    <2>1. task[t].pod \in Pods /\ task[t].spec \in Specs /\ "remove" \in Steps
      BY <1>0 DEF Tasks, Steps, DeleteSteps
    <2>2. task'[t] = Task(task[t].pod, task[t].spec, "remove", "anyway")
          /\ task' = [task EXCEPT ![t] = task'[t]]
      BY <1>15 DEF Fallback, TypeOK
    <2>3. task'[t] \in Tasks /\ task'[t].pod = task[t].pod
      BY <2>1, <2>2, TaskIsTask
    <2> QED
      BY <1>15, <2>2, <2>3 DEF Continues, Fallback, TypeOK
  <1> QED
    BY <1>0, <1>1, <1>2, <1>3, <1>4, <1>5, <1>6, <1>7, <1>8, <1>9, <1>10, <1>11, <1>12,
       <1>13, <1>14, <1>15 DEF ThreadNext, CreateNext, DeleteNext, UpdateNext

-----------------------------------------------------------------------------
(* What the calls of a thread do to the device and the records. *)

LEMMA ThreadRecords ==
  ASSUME TypeOK, NEW t \in Threads, ThreadNext(t)
  PROVE  /\ store' \in [Pods -> MaySpec] /\ tracked' \in [Pods -> MaySpec]
         /\ units' \subseteq Pods /\ ports' \subseteq Pods
         /\ staging' \in [Pods -> Dirs \cup {"none"}]
         /\ edits' = edits /\ faults' \in 0 .. MaxFaults
  <1>0. task[t].pod \in Pods /\ task[t].spec \in Specs /\ task[t].old \in Dirs
    BY ThreadContinues DEF Tasks
  <1>1. faults' \in 0 .. MaxFaults
    <2>1. faults' = faults \/ MayFault
      BY DEF ThreadNext, CreateNext, DeleteNext, UpdateNext, Clean, Net, Make, StartBox, device,
             Track, Remove, Release, Untrack, Unstore, BeginUpdate, Stage, Verify, Cut, Swap,
             Fallback, ExtractAnew
    <2> QED
      BY <2>1, BoundAssumption DEF MayFault, TypeOK
  <1>2. edits' = edits
    BY DEF ThreadNext, CreateNext, DeleteNext, UpdateNext, Clean, Net, Make, StartBox, Rest,
           OnDevice, Track, Remove, Release, Untrack, Unstore, BeginUpdate, Stage, Verify,
           Cut, Swap, Fallback
  <1>3. store' \in [Pods -> MaySpec]
    <2>1. store' = store \/ store' = [store EXCEPT ![task[t].pod] = NoSpec]
      BY DEF ThreadNext, CreateNext, DeleteNext, UpdateNext, Clean, Net, Make, StartBox, Rest,
             OnDevice, Track, Remove, Release, Untrack, Unstore, BeginUpdate, Stage, Verify,
             Cut, Swap, Fallback
    <2> QED
      BY <1>0, <2>1 DEF TypeOK, MaySpec
  <1>4. tracked' \in [Pods -> MaySpec]
    <2>1. \/ tracked' = tracked
          \/ \E s \in MaySpec : tracked' = [tracked EXCEPT ![task[t].pod] = s]
      BY <1>0 DEF ThreadNext, CreateNext, DeleteNext, UpdateNext, Clean, Net, Make, StartBox,
             MaySpec, OnDevice, Track, Remove, Release, Untrack, Unstore, BeginUpdate, Stage,
             Verify, Cut, Swap, Fallback
    <2> QED
      BY <1>0, <2>1 DEF TypeOK
  <1>5. units' \subseteq Pods
    <2>1. units' \subseteq units \cup {task[t].pod}
      BY DEF ThreadNext, CreateNext, DeleteNext, UpdateNext, Clean, Net, Make, StartBox,
             OnDevice, Track, Remove, Release, Untrack, Unstore, BeginUpdate, Stage,
             Verify, Cut, Swap, Fallback
    <2> QED
      BY <1>0, <2>1 DEF TypeOK
  <1>6. ports' \subseteq Pods
    <2>1. ports' \subseteq ports \cup {task[t].pod}
      BY DEF ThreadNext, CreateNext, DeleteNext, UpdateNext, Clean, Net, Make, StartBox,
             device, Track, Remove, Release, Untrack, Unstore, BeginUpdate, Stage,
             Verify, Cut, Swap, Fallback
    <2> QED
      BY <1>0, <2>1 DEF TypeOK
  <1>7. staging' \in [Pods -> Dirs \cup {"none"}]
    <2>1. \/ staging' = staging
          \/ \E d \in Dirs \cup {"none"} : staging' = [staging EXCEPT ![task[t].pod] = d]
      <3>1. CASE Stage(t)
        <4>1. Other(task[t].old) \in Dirs
          BY DEF Other, Dirs
        <4> QED
          BY <3>1, <4>1 DEF Stage
      <3>2. CASE ~Stage(t)
        BY <3>2 DEF ThreadNext, CreateNext, DeleteNext, UpdateNext, Clean, Net, Make,
               StartBox, device, Track, Remove, Release, Untrack, Unstore, BeginUpdate,
               Verify, Cut, Swap, Fallback
      <3> QED
        BY <3>1, <3>2
    <2> QED
      BY <1>0, <2>1 DEF TypeOK
  <1> QED
    BY <1>1, <1>2, <1>3, <1>4, <1>5, <1>6, <1>7

ImageTypes == [Pods -> [Dirs -> MaySpec]]
BoxTypes == [Pods -> Boxes \cup {NoBox}]

LEMMA BoxRuns ==
  ASSUME NEW b \in Boxes, NEW r \in BOOLEAN
  PROVE  [b EXCEPT !.runs = r] \in Boxes /\ [b EXCEPT !.runs = r] # NoBox
         /\ [b EXCEPT !.runs = r].dir = b.dir /\ [b EXCEPT !.runs = r].spec = b.spec
  BY SpecAssumption DEF Boxes, NoBox

\* A thread changes the directories and the container of its own pod only, one at a time.
LEMMA ThreadTouches ==
  ASSUME TypeOK, NEW t \in Threads, ThreadNext(t)
  PROVE  /\ \/ image' = image
            \/ \E d \in Dirs, s \in MaySpec : image' = [image EXCEPT ![task[t].pod][d] = s]
         /\ \/ box' = box
            \/ \E b \in Boxes \cup {NoBox} : box' = [box EXCEPT ![task[t].pod] = b]
         /\ \/ kept' = kept
            \/ \E d \in Dirs : \/ kept' = kept \ {<<task[t].pod, d>>}
                             \/ kept' = kept \cup {<<task[t].pod, d>>}
  <1>0. /\ task[t].pod \in Pods /\ task[t].spec \in Specs /\ task[t].old \in Dirs
        /\ Other(task[t].old) \in Dirs /\ "main" \in Dirs
        /\ task[t].spec \in MaySpec /\ NoSpec \in MaySpec
    BY ThreadContinues DEF Tasks, Other, Dirs, MaySpec
  <1>t. \A d \in Dirs : image[task[t].pod][d] \in MaySpec
    BY <1>0 DEF TypeOK
  <1>b. \A d \in Dirs, r \in BOOLEAN : [spec |-> task[t].spec, dir |-> d, runs |-> r] \in Boxes
    BY <1>0 DEF Boxes
  <1> DEFINE ImageGoal == \/ image' = image
                          \/ \E d \in Dirs, s \in MaySpec :
                               image' = [image EXCEPT ![task[t].pod][d] = s]
             BoxGoal == \/ box' = box
                        \/ \E b \in Boxes \cup {NoBox} : box' = [box EXCEPT ![task[t].pod] = b]
             KeptGoal == \/ kept' = kept
                         \/ \E d \in Dirs : \/ kept' = kept \ {<<task[t].pod, d>>}
                                          \/ kept' = kept \cup {<<task[t].pod, d>>}
  <1>k. KeptGoal
    <2>1. CASE Make(t) \/ Stage(t)
      BY <2>1, <1>0 DEF Make, Stage, ExtractAnew
    <2>2. CASE ~(Make(t) \/ Stage(t))
      BY <2>2 DEF ThreadNext, CreateNext, DeleteNext, UpdateNext, Clean, Net, StartBox, device,
             Track, Remove, Release, Untrack, Unstore, BeginUpdate, Verify, Cut, Swap, Fallback
    <2> QED
      BY <2>1, <2>2
  <1>1. CASE Clean(t) \/ Net(t) \/ Remove(t)
    BY <1>1 DEF Clean, Net, Remove
  <1>2. CASE Make(t)
    <2>1. ImageGoal
      BY <1>2, <1>0, <1>t DEF Make, ExtractAnew, Emptied
    <2>2. BoxGoal
      BY <1>2, <1>0, <1>b DEF Make
    <2> QED
      BY <2>1, <2>2, <1>k
  <1>3. CASE StartBox(t)
    <2>1. ASSUME box[task[t].pod] # NoBox, box' = [box EXCEPT ![task[t].pod].runs = TRUE]
          PROVE  BoxGoal
      <3>1. [box[task[t].pod] EXCEPT !.runs = TRUE] \in Boxes
        <4>1. box[task[t].pod] \in Boxes
          BY <1>0, <2>1 DEF TypeOK
        <4> QED
          BY <4>1, BoxRuns
      <3>2. box' = [box EXCEPT ![task[t].pod] = [box[task[t].pod] EXCEPT !.runs = TRUE]]
        BY <2>1
      <3> QED
        BY <3>1, <3>2
    <2> QED
      BY <1>3, <2>1 DEF StartBox
  <1>4. CASE Track(t) \/ Release(t) \/ Untrack(t) \/ Unstore(t) \/ BeginUpdate(t) \/ Verify(t)
             \/ Fallback(t)
    BY <1>4 DEF Track, Release, Untrack, Unstore, BeginUpdate, Verify, Fallback, device
  <1>5. CASE Stage(t)
    BY <1>5, <1>0, <1>t DEF Stage, ExtractAnew
  <1>6. CASE Cut(t)
    <2>1. ImageGoal
      BY <1>6, <1>0, <1>t DEF Cut
    <2>2. BoxGoal
      BY <1>6 DEF Cut
    <2> QED
      BY <2>1, <2>2, <1>k
  <1>7. CASE Swap(t)
    <2>1. Extracted(task[t].pod, Other(task[t].old), task[t].spec) \in MaySpec
      BY <1>0, <1>t DEF Extracted
    <2>2. ImageGoal
      BY <1>7, <1>0, <2>1 DEF Swap
    <2>3. BoxGoal
      BY <1>7, <1>0, <1>b DEF Swap
    <2> QED
      BY <2>2, <2>3, <1>k
  <1> QED
    BY <1>k, <1>1, <1>2, <1>3, <1>4, <1>5, <1>6, <1>7
       DEF ThreadNext, CreateNext, DeleteNext, UpdateNext

OwnBox(p) ==
  box[p] # NoBox /\ <<p, box[p].dir>> \notin kept => image[p][box[p].dir] = box[p].spec
OwnTrial(t) ==
  task[t].step \in TrialSteps /\ <<task[t].pod, Other(task[t].old)>> \notin kept
    => image[task[t].pod][Other(task[t].old)] = task[t].spec

LEMMA NoTrial ==
  ASSUME NEW t \in Threads, task'[t] = Idle \/ task'[t].step \notin TrialSteps
  PROVE  OwnTrial(t)'
  BY DEF OwnTrial, Idle, TrialSteps

\* Between its calls a thread alone on its pod keeps the directories in order: the image
\* that was tried stays, the directory of the container is never emptied.
LEMMA OwnPod ==
  ASSUME TypeOK, NEW t \in Threads, ThreadNext(t),
         NEW p \in Pods, p = task[t].pod, OwnBox(p), OwnTrial(t)
  PROVE  OwnBox(p)' /\ OwnTrial(t)'
  <1>p. p = task[t].pod
    OBVIOUS
  <1>0. /\ task[t] \in Tasks /\ task[t].spec \in Specs /\ task[t].old \in Dirs
        /\ Other(task[t].old) \in Dirs /\ "main" \in Dirs
        /\ Other(task[t].old) # task[t].old
    BY ThreadContinues DEF Tasks, Other, Dirs
  <1>1. /\ image \in ImageTypes /\ box \in BoxTypes
        /\ box[p] # NoBox => box[p] \in Boxes /\ box[p].dir \in Dirs /\ box[p].spec \in Specs
    <2>1. image \in ImageTypes /\ box \in BoxTypes
      BY DEF TypeOK, ImageTypes, BoxTypes
    <2>2. box[p] # NoBox => box[p] \in Boxes
      BY <2>1 DEF BoxTypes
    <2> QED
      BY <2>1, <2>2 DEF Boxes
  <1>b. box[p] # NoBox /\ <<p, box[p].dir>> \notin kept => image[p][box[p].dir] = box[p].spec
    BY <1>p DEF OwnBox
  <1> DEFINE Holds == box'[p] # NoBox /\ <<p, box'[p].dir>> \notin kept'
                        => image'[p][box'[p].dir] = box'[p].spec
  <1> SUFFICES Holds /\ OwnTrial(t)'
    BY <1>p DEF OwnBox
  <1>f. ASSUME Fails(t) PROVE OwnTrial(t)'
    BY <1>f, <1>0, FailsContinues, NoTrial DEF TrialSteps
  <1>e. ASSUME NEW ok, NEW flagged \in SUBSET Pods, End(t, ok, flagged) PROVE OwnTrial(t)'
    BY <1>e, <1>0, EndContinues, NoTrial
  <1>g. ASSUME NEW s \in Steps, s \notin TrialSteps, Go(t, s) PROVE OwnTrial(t)'
    BY <1>g, <1>0, GoContinues, NoTrial
  <1>h. ASSUME NEW s \in TrialSteps, Go(t, s),
               <<p, Other(task[t].old)>> \notin kept'
                 => image'[p][Other(task[t].old)] = task[t].spec
        PROVE  OwnTrial(t)'
    <2>1. s \in Steps
      BY DEF TrialSteps, Steps, UpdateSteps
    <2>2. task'[t].pod = task[t].pod /\ task'[t].old = task[t].old
          /\ task'[t].spec = task[t].spec
      BY <2>1, <1>h, <1>0, GoContinues
    <2>3. Other(task'[t].old) = Other(task[t].old)
      BY <2>2
    <2> QED
      BY <2>2, <2>3, <1>h, <1>p DEF OwnTrial
  <1>s. /\ "net" \in Steps \ TrialSteps /\ "make" \in Steps \ TrialSteps
        /\ "start" \in Steps \ TrialSteps /\ "track" \in Steps \ TrialSteps
        /\ "release" \in Steps \ TrialSteps /\ "untrack" \in Steps \ TrialSteps
        /\ "unstore" \in Steps \ TrialSteps
        /\ "verify" \in TrialSteps /\ "cut" \in TrialSteps /\ "swap" \in TrialSteps
    BY DEF Steps, CreateSteps, DeleteSteps, UpdateSteps, TrialSteps
  <1>t. redeploying \subseteq Pods /\ (redeploying \ {p}) \subseteq Pods
    BY DEF TypeOK
  <1>3. CASE Clean(t)
    <2>1. OwnTrial(t)'
      BY <1>3, <1>g, <1>s DEF Clean
    <2> QED
      BY <1>3, <2>1, <1>p, <1>1, <1>b DEF Clean, BoxTypes
  <1>4. CASE Net(t)
    <2>1. OwnTrial(t)'
      BY <1>4, <1>g, <1>f, <1>s DEF Net
    <2> QED
      BY <1>4, <2>1, <1>p, <1>1, <1>b DEF Net, BoxTypes
  <1>5. CASE Make(t)
    <2>1. OwnTrial(t)'
      BY <1>5, <1>g, <1>f, <1>s DEF Make
    <2>2. ASSUME ExtractAnew(p, "main", task[t].spec),
                 box' = [box EXCEPT ![p] = [spec |-> task[t].spec, dir |-> "main",
                                            runs |-> FALSE]]
          PROVE  Holds
      <3>1. box'[p] = [spec |-> task[t].spec, dir |-> "main", runs |-> FALSE]
        BY <2>2, <1>1 DEF BoxTypes
      <3>2. image' = [image EXCEPT ![p]["main"] = task[t].spec] \/ <<p, "main">> \in kept'
        BY <2>2 DEF ExtractAnew
      <3> QED
        BY <3>1, <3>2, <1>0, <1>1 DEF ImageTypes
    <2>3. ASSUME image' \in {image, Emptied(p, "main")}, UNCHANGED <<box, kept>>
          PROVE  Holds
      BY <2>3, <1>0, <1>1, <1>b DEF ImageTypes, Emptied
    <2> QED
      BY <1>5, <2>1, <2>2, <2>3, <1>p DEF Make
  <1>6. CASE StartBox(t)
    <2>1. OwnTrial(t)'
      BY <1>6, <1>g, <1>f, <1>s DEF StartBox
    <2>2. ASSUME box[p] # NoBox, box' = [box EXCEPT ![p].runs = TRUE]
          PROVE  box'[p].dir = box[p].dir /\ box'[p].spec = box[p].spec
      BY <2>2, <1>1, BoxRuns DEF BoxTypes
    <2> QED
      BY <1>6, <2>1, <2>2, <1>p, <1>b DEF StartBox
  <1>7. CASE Track(t)
    <2>1. OwnTrial(t)'
      BY <1>7, <1>e, <1>t, <1>p DEF Track
    <2> QED
      BY <1>7, <2>1, <1>b DEF Track, device
  <1>8. CASE Remove(t)
    <2>1. OwnTrial(t)'
      <3>1. ASSUME NEW bad \in BOOLEAN,
                   task' = [task EXCEPT ![t].step = "release", ![t].bad = bad]
            PROVE  task'[t].step = "release"
        BY <3>1, <1>0 DEF TypeOK, Tasks
      <3>2. CASE Go(t, "release")
        BY <3>2, <1>g, <1>s
      <3> QED
        BY <1>8, <3>1, <3>2, NoTrial DEF Remove, TrialSteps
    <2> QED
      BY <1>8, <2>1, <1>p, <1>1, <1>b DEF Remove, BoxTypes
  <1>9. CASE Release(t)
    <2>1. OwnTrial(t)'
      BY <1>9, <1>g, <1>s DEF Release
    <2> QED
      BY <1>9, <2>1, <1>b DEF Release
  <1>10. CASE Untrack(t)
    <2>1. ASSUME task' = [task EXCEPT ![t] = Task(task[t].pod, task[t].spec, "clean", "end")]
          PROVE  task'[t].step = "clean"
      BY <2>1 DEF TypeOK, Task
    <2>2. OwnTrial(t)'
      BY <1>10, <2>1, <1>g, <1>e, <1>s, <1>t, NoTrial DEF Untrack, TrialSteps
    <2> QED
      BY <1>10, <2>2, <1>b DEF Untrack, device
  <1>11. CASE Unstore(t)
    <2>1. OwnTrial(t)'
      BY <1>11, <1>e, <1>t DEF Unstore
    <2> QED
      BY <1>11, <2>1, <1>b DEF Unstore, device
  <1>12. CASE BeginUpdate(t)
    <2>1. ASSUME task' = [task EXCEPT ![t].step = "stage", ![t].old = box[task[t].pod].dir]
          PROVE  task'[t].step = "stage"
      BY <2>1, <1>0 DEF TypeOK, Tasks
    <2>2. OwnTrial(t)'
      BY <1>12, <2>1, <1>f, NoTrial DEF BeginUpdate, TrialSteps
    <2> QED
      BY <1>12, <2>2, <1>b DEF BeginUpdate, device
  <1>13. CASE Stage(t)
    <2>1. ASSUME ~(box[p] # NoBox /\ box[p].dir = Other(task[t].old)), box' = box,
                 ExtractAnew(p, Other(task[t].old), task[t].spec)
          PROVE  Holds /\ (<<p, Other(task[t].old)>> \notin kept'
                              => image'[p][Other(task[t].old)] = task[t].spec)
      <3>1. CASE /\ image' = [image EXCEPT ![p][Other(task[t].old)] = task[t].spec]
                 /\ kept' = kept \ {<<p, Other(task[t].old)>>}
        BY <2>1, <3>1, <1>0, <1>1, <1>b DEF ImageTypes
      <3>2. CASE image' = image /\ kept' = kept \cup {<<p, Other(task[t].old)>>}
        BY <2>1, <3>2, <1>0, <1>1, <1>b
      <3> QED
        BY <2>1, <3>1, <3>2 DEF ExtractAnew
    <2>2. ASSUME ~(box[p] # NoBox /\ box[p].dir = Other(task[t].old)), box' = box,
                 kept' = kept, NEW s \in MaySpec,
                 image' \in {image, [image EXCEPT ![p][Other(task[t].old)] = s]}
          PROVE  Holds
      BY <2>2, <1>0, <1>1, <1>b DEF ImageTypes
    <2>3. task[t].spec \in MaySpec /\ NoSpec \in MaySpec
      BY <1>0 DEF MaySpec
    <2>4. Holds
      BY <1>13, <2>1, <2>2, <2>3, <1>p, <1>b DEF Stage
    <2>5. OwnTrial(t)'
      BY <1>13, <2>1, <1>p, <1>f, <1>h, <1>s DEF Stage
    <2> QED
      BY <2>4, <2>5
  <1>14. CASE Verify(t)
    <2>1. /\ <<p, Other(task[t].old)>> \notin kept
               => image[p][Other(task[t].old)] = task[t].spec
          /\ UNCHANGED <<image, box, kept>>
      BY <1>14, <1>p DEF Verify, At, OwnTrial, TrialSteps
    <2> QED
      BY <1>14, <2>1, <1>b, <1>f, <1>h, <1>s DEF Verify
  <1>15. CASE Cut(t)
    <2>1. <<p, Other(task[t].old)>> \notin kept
            => image[p][Other(task[t].old)] = task[t].spec
      BY <1>15, <1>p DEF Cut, At, OwnTrial, TrialSteps
    <2> DEFINE gone == [image EXCEPT ![p][task[t].old] =
                          IF box'[p] # NoBox /\ box'[p].dir = task[t].old THEN @ ELSE NoSpec]
    <2>2. image' \in {image, gone} /\ box' \in {box, [box EXCEPT ![p] = NoBox]} /\ kept' = kept
      BY <1>15, <1>p DEF Cut
    <2>3. <<p, Other(task[t].old)>> \notin kept'
            => image'[p][Other(task[t].old)] = task[t].spec
      BY <2>1, <2>2, <1>0, <1>1 DEF ImageTypes
    <2>4. Holds
      <3>1. ASSUME box'[p] # NoBox PROVE box'[p] = box[p]
        BY <2>2, <3>1, <1>1 DEF BoxTypes
      <3> QED
        BY <2>2, <3>1, <1>0, <1>1, <1>b DEF ImageTypes
    <2> QED
      BY <1>15, <2>3, <2>4, <1>p, <1>f, <1>h, <1>s DEF Cut
  <1>16. CASE Swap(t)
    <2>1. kept' = kept
      BY <1>16 DEF Swap
    <2>2. <<p, Other(task[t].old)>> \notin kept
            => Extracted(p, Other(task[t].old), task[t].spec) = task[t].spec
      BY <1>16, <1>p DEF Swap, At, OwnTrial, TrialSteps, Extracted
    <2>3. ASSUME image' = [image EXCEPT ![p][Other(task[t].old)] =
                             Extracted(p, Other(task[t].old), task[t].spec)],
                 box' = [box EXCEPT ![p] = [spec |-> task[t].spec, dir |-> Other(task[t].old),
                                            runs |-> FALSE]]
          PROVE  Holds
      BY <2>1, <2>2, <2>3, <1>0, <1>1 DEF ImageTypes, BoxTypes
    <2>4. UNCHANGED <<image, box>> => Holds
      BY <2>1, <1>b
    <2>5. Holds
      BY <1>16, <2>3, <2>4, <1>p DEF Swap
    <2>6. OwnTrial(t)'
      BY <1>16, <1>f, <1>g, <1>s DEF Swap
    <2> QED
      BY <2>5, <2>6
  <1>17. CASE Fallback(t)
    <2>1. task'[t].step = "remove"
      BY <1>17 DEF Fallback, TypeOK, Task
    <2> QED
      BY <1>17, <2>1, <1>b, NoTrial DEF Fallback, TrialSteps
  <1> QED
    BY <1>3, <1>4, <1>5, <1>6, <1>7, <1>8, <1>9, <1>10, <1>11, <1>12, <1>13, <1>14, <1>15,
       <1>16, <1>17 DEF ThreadNext, CreateNext, DeleteNext, UpdateNext

-----------------------------------------------------------------------------
(* Threads meet only on pods that the history gives up. *)

LEMMA FewerWork ==
  ASSUME OneWorks, alone' \subseteq alone, NEW t,
         \A p \in alone' : Working(p)' \subseteq Working(p) \/ Working(p)' \subseteq {t}
  PROVE  OneWorks'
  BY DEF OneWorks

\* Steps of a thread, the end of a task and of a phase take nobody to a pod.
LEMMA SamePlaces ==
  ASSUME NEW p \in Pods, Queued' \subseteq Queued,
         \A t \in Threads : task'[t] = Idle
                            \/ (task[t] # Idle /\ task'[t].pod = task[t].pod),
         cycle'.phase = "idle" \/ cycle.phase # "idle"
  PROVE  Working(p)' \subseteq Working(p)
  BY DEF Working

LEMMA QueueShrinks ==
  ASSUME TypeOK, queue' = queue \/ (queue # <<>> /\ queue' = Tail(queue)) \/ queue' = <<>>
  PROVE  Queued' \subseteq Queued /\ queue' \in Seq([pod : Pods, spec : Specs])
  <1>0. queue \in Seq([pod : Pods, spec : Specs])
    BY DEF TypeOK
  <1>1. CASE queue' = queue
    BY <1>0, <1>1 DEF Queued
  <1>2. CASE queue # <<>> /\ queue' = Tail(queue)
    <2>1. queue' \in Seq([pod : Pods, spec : Specs]) /\ DOMAIN queue' = 1 .. Len(queue) - 1
          /\ \A i \in 1 .. Len(queue) - 1 : queue'[i] = queue[i + 1]
          /\ Len(queue) \in Nat /\ DOMAIN queue = 1 .. Len(queue)
      BY <1>0, <1>2
    <2>2. ASSUME NEW i \in DOMAIN queue' PROVE queue'[i].pod \in Queued
      <3>1. i + 1 \in DOMAIN queue /\ queue'[i] = queue[i + 1]
        BY <2>1
      <3> QED
        BY <3>1 DEF Queued
    <2> QED
      BY <2>1, <2>2 DEF Queued
  <1>3. CASE queue' = <<>>
    BY <1>3 DEF Queued
  <1> QED
    BY <1>1, <1>2, <1>3

LEMMA ThreadPlaces ==
  ASSUME PodInv, NEW t \in Threads, ThreadNext(t)
  PROVE  OneWorks' /\ QueueKept' /\ UpdatesKnown'
         /\ queue' \in Seq([pod : Pods, spec : Specs]) /\ task' \in TaskTypes
  <1>1. task[t] \in Tasks /\ task[t] # Idle /\ Continues(t) /\ UNCHANGED <<cycle, alone>>
    BY ThreadContinues DEF PodInv
  <1>2. task \in TaskTypes
    BY DEF PodInv, TypeOK, TaskTypes
  <1>3. task' \in TaskTypes
        /\ \A u \in Threads : u # t => task'[u] = task[u]
    BY <1>1, <1>2 DEF Continues, TaskTypes
  <1>4. queue' = queue \/ (queue # <<>> /\ queue' = Tail(queue)) \/ queue' = <<>>
    BY <1>1 DEF Continues, PodInv, QueueKept
  <1>5. Queued' \subseteq Queued /\ queue' \in Seq([pod : Pods, spec : Specs])
    BY <1>4, QueueShrinks DEF PodInv
  <1>6. ASSUME NEW p \in Pods PROVE Working(p)' \subseteq Working(p)
    BY <1>1, <1>3, <1>5, SamePlaces DEF Continues
  <1>7. OneWorks'
    BY <1>1, <1>6 DEF OneWorks, PodInv, TypeOK
  <1>8. QueueKept'
    BY <1>1, <1>3 DEF Continues, QueueKept, PodInv, Threads
  <1> QED
    BY <1>1, <1>3, <1>5, <1>7, <1>8 DEF UpdatesKnown, PodInv

\* A thread alone on its pod is the only one whose calls concern it.
LEMMA ThreadHolds ==
  ASSUME PodInv, NEW t \in Threads, ThreadNext(t)
  PROVE  /\ BoxHolds' /\ TrialHolds' /\ image' \in ImageTypes /\ box' \in BoxTypes
         /\ kept' \subseteq Pods \X Dirs
  <1>1. task[t] \in Tasks /\ task[t] # Idle /\ Continues(t) /\ UNCHANGED <<cycle, alone>>
    BY ThreadContinues DEF PodInv
  <1>p. PICK p \in Pods : p = task[t].pod
    BY <1>1 DEF Tasks
  <1>2. image \in ImageTypes /\ box \in BoxTypes /\ task \in TaskTypes
    BY DEF PodInv, TypeOK, TaskTypes, ImageTypes, BoxTypes
  <1>3. image' \in ImageTypes /\ \A q \in Pods : q # p => image'[q] = image[q]
    <2>1. image' = image
          \/ \E d \in Dirs, s \in MaySpec : image' = [image EXCEPT ![p][d] = s]
      <3>1. \/ image' = image
            \/ \E d \in Dirs, s \in MaySpec : image' = [image EXCEPT ![task[t].pod][d] = s]
        BY ThreadTouches DEF PodInv
      <3> QED
        BY <3>1, <1>p, Zenon
    <2> QED
      BY <2>1, <1>2 DEF ImageTypes
  <1>4. box' \in BoxTypes /\ \A q \in Pods : q # p => box'[q] = box[q]
    <2>1. box' = box \/ \E b \in Boxes \cup {NoBox} : box' = [box EXCEPT ![p] = b]
      BY <1>p, ThreadTouches DEF PodInv
    <2> QED
      BY <2>1, <1>2 DEF BoxTypes
  <1>k. /\ kept' \subseteq Pods \X Dirs
        /\ \A q \in Pods, d \in Dirs : q # p => (<<q, d>> \in kept' <=> <<q, d>> \in kept)
    <2>1. kept \subseteq Pods \X Dirs
      BY DEF PodInv, TypeOK
    <2>2. \/ kept' = kept
          \/ \E d \in Dirs : kept' = kept \ {<<p, d>>} \/ kept' = kept \cup {<<p, d>>}
      BY <1>p, ThreadTouches DEF PodInv
    <2> QED
      BY <2>1, <2>2
  <1>5. ASSUME p \in alone PROVE OwnBox(p)' /\ OwnTrial(t)'
    <2>1. OwnBox(p) /\ OwnTrial(t)
      BY <1>5, <1>p DEF PodInv, BoxHolds, TrialHolds, OwnBox, OwnTrial
    <2> QED
      BY <2>1, <1>p, OwnPod DEF PodInv
  <1>6. BoxHolds'
    <2> SUFFICES ASSUME NEW q \in alone' PROVE OwnBox(q)'
      BY DEF BoxHolds, OwnBox
    <2>1. q \in alone /\ q \in Pods
      BY <1>1 DEF PodInv, TypeOK
    <2>2. CASE q = p
      BY <2>1, <2>2, <1>5
    <2>3. CASE q # p
      <3>1. OwnBox(q)
        BY <2>1 DEF PodInv, BoxHolds, OwnBox
      <3>2. box[q] # NoBox => box[q].dir \in Dirs
        BY <2>1, <1>2 DEF BoxTypes, Boxes
      <3> QED
        BY <2>1, <2>3, <3>1, <3>2, <1>3, <1>4, <1>k DEF OwnBox
    <2> QED
      BY <2>2, <2>3
  <1>7. TrialHolds'
    <2> SUFFICES ASSUME NEW u \in Threads, task'[u].step \in TrialSteps,
                        task'[u].pod \in alone',
                        <<task'[u].pod, Other(task'[u].old)>> \notin kept'
                 PROVE  image'[task'[u].pod][Other(task'[u].old)] = task'[u].spec
      BY DEF TrialHolds
    <2>1. CASE u = t
      <3>1. task'[t].pod = p
        BY <2>1, <1>1, <1>p DEF Continues, Idle, TrialSteps
      <3> QED
        BY <2>1, <3>1, <1>1, <1>5 DEF OwnTrial
    <2>2. CASE u # t
      <3>1. task'[u] = task[u] /\ task[u].pod \in alone
        BY <2>2, <1>1, <1>2 DEF Continues, TaskTypes
      <3>2. task[u] # Idle
        BY <3>1 DEF Idle, TrialSteps
      <3>3. task[u].pod # p
        <4> SUFFICES ASSUME task[u].pod = p PROVE FALSE
          OBVIOUS
        <4>1. u \in Working(p) /\ t \in Working(p) /\ p \in alone
          BY <1>1, <1>p, <3>1, <3>2 DEF Working
        <4> QED
          BY <4>1, <2>2 DEF PodInv, OneWorks
      <3>5. task[u].pod \in Pods /\ Other(task[u].old) \in Dirs
        BY <3>1 DEF PodInv, TypeOK, Other, Dirs
      <3>4. image[task[u].pod][Other(task[u].old)] = task[u].spec
        BY <3>1, <3>3, <3>5, <1>k DEF PodInv, TrialHolds
      <3> QED
        BY <3>1, <3>3, <3>4, <3>5, <1>3
    <2> QED
      BY <2>1, <2>2
  <1> QED
    BY <1>3, <1>4, <1>6, <1>7, <1>k

LEMMA ThreadInv ==
  ASSUME PodInv, NEW t \in Threads, ThreadNext(t)
  PROVE  PodInv'
  <1>1. TypeOK'
    <2>1. failures' \in [Pods -> 0 .. 2] /\ redeploying' \subseteq Pods
          /\ UNCHANGED <<cycle, alone>>
      BY ThreadContinues DEF Continues, PodInv
    <2>2. /\ store' \in [Pods -> MaySpec] /\ tracked' \in [Pods -> MaySpec]
          /\ units' \subseteq Pods /\ ports' \subseteq Pods
          /\ staging' \in [Pods -> Dirs \cup {"none"}]
          /\ edits' = edits /\ faults' \in 0 .. MaxFaults
      BY ThreadRecords DEF PodInv
    <2>3. /\ image' \in ImageTypes /\ box' \in BoxTypes /\ task' \in TaskTypes
          /\ queue' \in Seq([pod : Pods, spec : Specs]) /\ kept' \subseteq Pods \X Dirs
      BY ThreadHolds, ThreadPlaces
    <2> QED
      BY <2>1, <2>2, <2>3 DEF TypeOK, PodInv, ImageTypes, BoxTypes, TaskTypes
  <1> QED
    BY <1>1, ThreadHolds, ThreadPlaces DEF PodInv

-----------------------------------------------------------------------------
(* The steps between tasks: requests, the reconcile cycle, the rest of the node. *)

\* Containers stop, start and go, but none is made or moved.
BoxesStay ==
  \A p \in Pods : box'[p] # NoBox
    => box[p] # NoBox /\ box'[p].dir = box[p].dir /\ box'[p].spec = box[p].spec

\* No directory changes, no container moves, and no task is beyond its first call.
Aside ==
  /\ UNCHANGED <<image, kept>> /\ box' \in BoxTypes /\ alone' \subseteq alone
  /\ BoxesStay
  /\ \A t \in Threads : task'[t] = task[t] \/ task'[t].step \notin TrialSteps

LEMMA AsideHolds ==
  ASSUME PodInv, Aside
  PROVE  BoxHolds' /\ TrialHolds'
  BY DEF PodInv, TypeOK, Aside, BoxesStay, BoxHolds, TrialHolds

LEMMA SameBoxes ==
  ASSUME PodInv, UNCHANGED box
  PROVE  box' \in BoxTypes /\ BoxesStay
  BY DEF PodInv, TypeOK, BoxTypes, BoxesStay

LEMMA OneBox ==
  ASSUME PodInv, NEW p \in Pods, NEW r \in BOOLEAN,
         \/ box' = box
         \/ box' = [box EXCEPT ![p] = NoBox]
         \/ box[p] # NoBox /\ box' = [box EXCEPT ![p].runs = r]
  PROVE  box' \in BoxTypes /\ BoxesStay
  <1>0. box \in BoxTypes
    BY DEF PodInv, TypeOK, BoxTypes
  <1>1. CASE box' = box
    BY <1>1, SameBoxes
  <1>2. CASE box' = [box EXCEPT ![p] = NoBox]
    <2>1. box' \in BoxTypes
      BY <1>0, <1>2 DEF BoxTypes
    <2>2. ASSUME NEW q \in Pods, box'[q] # NoBox
          PROVE  box[q] # NoBox /\ box'[q].dir = box[q].dir /\ box'[q].spec = box[q].spec
      <3>1. box'[q] = box[q]
        BY <1>0, <1>2, <2>2 DEF BoxTypes
      <3> QED
        BY <2>2, <3>1
    <2> QED
      BY <2>1, <2>2 DEF BoxesStay
  <1>3. CASE box[p] # NoBox /\ box' = [box EXCEPT ![p].runs = r]
    <2>1. box[p] \in Boxes
      BY <1>0, <1>3 DEF BoxTypes
    <2>2. PICK b \in Boxes : b = [box[p] EXCEPT !.runs = r]
      BY <2>1, BoxRuns
    <2>3. b.dir = box[p].dir /\ b.spec = box[p].spec
      BY <2>1, <2>2, BoxRuns
    <2>4. box' = [box EXCEPT ![p] = b]
      BY <1>3, <2>2
    <2> QED
      BY <1>0, <1>3, <2>3, <2>4 DEF BoxTypes, BoxesStay
  <1> QED
    BY <1>1, <1>2, <1>3

\* A thread that takes a task meets nobody on the pod, or the history gives the pod up.
LEMMA StartFacts ==
  ASSUME PodInv, NEW t \in Threads, NEW p \in Pods, NEW s \in Specs, NEW step \in Steps,
         NEW then \in {"end", "recreate", "anyway", "create", "unstore"},
         step \notin TrialSteps, Start(t, Task(p, s, step, then)),
         queue' = queue, t = "redeploy" => queue # <<>>,
         cycle'.phase = "idle" \/ cycle.phase # "idle"
  PROVE  /\ task' \in TaskTypes /\ alone' \subseteq alone /\ OneWorks' /\ QueueKept'
         /\ \A u \in Threads : task'[u] = task[u] \/ task'[u].step \notin TrialSteps
  <1>1. PICK tk \in Tasks : tk = Task(p, s, step, then)
    BY TaskIsTask
  <1>2. tk # Idle /\ tk.pod = p /\ tk.step = step
    BY <1>1, TaskIsTask
  <1>3. task \in TaskTypes
    BY DEF PodInv, TypeOK, TaskTypes
  <1>4. /\ task' = [task EXCEPT ![t] = tk]
        /\ alone' = IF Working(p) \subseteq {t} THEN alone ELSE alone \ {p}
    BY <1>1, <1>2 DEF Start
  <1>5. task' \in TaskTypes /\ alone' \subseteq alone
        /\ task'[t] = tk /\ \A u \in Threads : u # t => task'[u] = task[u]
    BY <1>3, <1>4 DEF TaskTypes
  <1>6. OneWorks'
    <2>1. ASSUME NEW q \in alone', q # p PROVE Working(q)' \subseteq Working(q)
      BY <2>1, <1>2, <1>5 DEF Working, Queued
    <2>2. ASSUME p \in alone' PROVE Working(p)' \subseteq {t}
      <3>1. Working(p) \subseteq {t}
        BY <2>2, <1>4
      <3> QED
        BY <3>1, <1>5 DEF Working, Queued
    <2> QED
      BY <2>1, <2>2, <1>5, FewerWork DEF PodInv
  <1>7. QueueKept'
    BY <1>5 DEF PodInv, QueueKept, Threads
  <1> QED
    BY <1>2, <1>5, <1>6, <1>7

\* A step after which the same threads work on the same pods.
LEMMA StayFacts ==
  ASSUME PodInv, UNCHANGED <<task, queue>>, alone' \subseteq alone,
         cycle'.phase = "idle" \/ cycle.phase # "idle"
  PROVE  /\ task' \in TaskTypes /\ OneWorks' /\ QueueKept'
         /\ \A u \in Threads : task'[u] = task[u] \/ task'[u].step \notin TrialSteps
  <1>1. \A p \in alone' : Working(p)' \subseteq Working(p)
    BY DEF Working, Queued
  <1>2. OneWorks'
    BY <1>1 DEF PodInv, OneWorks
  <1> QED
    BY <1>2 DEF PodInv, TypeOK, TaskTypes, QueueKept

CycleTypes ==
  [phase : {"idle", "list", "recover", "missing", "orphans", "stale", "update"},
   want : [Pods -> MaySpec], seen : [Pods -> {"none", "stopped", "running"}],
   left : SUBSET Pods]

LEMMA AsleepIsCycle == Asleep \in CycleTypes
  BY DEF Asleep, CycleTypes, MaySpec

\* Together they make the invariant.
LEMMA Gathered ==
  ASSUME PodInv, Aside, UpdatesKnown', OneWorks', QueueKept',
         store' \in [Pods -> MaySpec], tracked' \in [Pods -> MaySpec],
         redeploying' \subseteq Pods, units' \subseteq Pods, UNCHANGED failures,
         staging' \in [Pods -> Dirs \cup {"none"}], ports' \subseteq Pods,
         task' \in TaskTypes, cycle' \in CycleTypes,
         queue' \in Seq([pod : Pods, spec : Specs]),
         edits' \in 0 .. MaxEdits, faults' \in 0 .. MaxFaults
  PROVE  PodInv'
  <1>1. TypeOK'
    BY DEF PodInv, TypeOK, Aside, BoxTypes, TaskTypes, CycleTypes
  <1> QED
    BY <1>1, AsideHolds DEF PodInv

LEMMA PlainTypes ==
  ASSUME PodInv
  PROVE  /\ store \in [Pods -> MaySpec] /\ tracked \in [Pods -> MaySpec]
         /\ redeploying \subseteq Pods /\ units \subseteq Pods
         /\ staging \in [Pods -> Dirs \cup {"none"}] /\ ports \subseteq Pods
         /\ alone \subseteq Pods /\ cycle \in CycleTypes
         /\ queue \in Seq([pod : Pods, spec : Specs])
         /\ edits \in 0 .. MaxEdits /\ faults \in 0 .. MaxFaults
         /\ MayFault => faults' \in 0 .. MaxFaults
         /\ edits < MaxEdits /\ edits' = edits + 1 => edits' \in 0 .. MaxEdits
  <1>1. edits \in 0 .. MaxEdits /\ faults \in 0 .. MaxFaults
    BY DEF PodInv, TypeOK
  <1>2. MayFault => faults' \in 0 .. MaxFaults
    BY <1>1, BoundAssumption DEF MayFault
  <1>3. edits < MaxEdits /\ edits' = edits + 1 => edits' \in 0 .. MaxEdits
    BY <1>1, BoundAssumption
  <1> QED
    BY <1>1, <1>2, <1>3 DEF PodInv, TypeOK, CycleTypes

LEMMA CycleInv ==
  ASSUME PodInv, CycleNext
  PROVE  PodInv'
  <1>0. /\ store \in [Pods -> MaySpec] /\ tracked \in [Pods -> MaySpec]
        /\ redeploying \subseteq Pods /\ units \subseteq Pods
        /\ staging \in [Pods -> Dirs \cup {"none"}] /\ ports \subseteq Pods
        /\ alone \subseteq Pods /\ cycle \in CycleTypes
        /\ queue \in Seq([pod : Pods, spec : Specs])
        /\ edits \in 0 .. MaxEdits /\ faults \in 0 .. MaxFaults
        /\ MayFault => faults' \in 0 .. MaxFaults
        /\ edits < MaxEdits /\ edits' = edits + 1 => edits' \in 0 .. MaxEdits
    BY PlainTypes
  <1>l. \A p \in Pods : [cycle EXCEPT !.left = @ \ {p}] \in CycleTypes
    BY <1>0 DEF CycleTypes
  <1>s. /\ "clean" \in Steps \ TrialSteps /\ "begin" \in Steps \ TrialSteps
        /\ "reconcile" \in Threads /\ "reconcile" # "redeploy"
    BY DEF Steps, CreateSteps, UpdateSteps, TrialSteps, Threads
  <1>1. CASE Load
    <2>1. cycle' \in CycleTypes /\ cycle'.phase = "list"
      BY <1>1, <1>0 DEF Load, Asleep, CycleTypes
    <2>2. OneWorks'
      <3>1. alone' \subseteq alone
        BY <1>1 DEF Load
      <3>2. \A p \in alone' : Working(p)' \subseteq {"reconcile"}
        BY <1>1 DEF Load, Working, Queued
      <3> QED
        BY <3>1, <3>2, FewerWork DEF PodInv
    <2>3. Aside
      BY <1>1, SameBoxes DEF Load, Aside, device
    <2>4. QueueKept' /\ task' \in TaskTypes /\ UpdatesKnown'
      BY <1>1, <2>1 DEF Load, QueueKept, UpdatesKnown, PodInv, TypeOK, TaskTypes
    <2> QED
      BY <1>0, <1>1, <2>1, <2>2, <2>3, <2>4, Gathered DEF Load, memory, device
  <1>2. CASE List
    <2>1. cycle' \in CycleTypes /\ cycle'.phase = "recover"
      <3>1. [p \in Pods |-> Seen(p)] \in [Pods -> {"none", "stopped", "running"}]
        BY DEF Seen
      <3> QED
        BY <1>2, <1>0, <3>1 DEF List, CycleTypes
    <2>2. OneWorks' /\ QueueKept' /\ task' \in TaskTypes
      BY <1>2, StayFacts DEF List, Phase
    <2>3. Aside
      BY <1>2, SameBoxes DEF List, Aside, device
    <2>4. UpdatesKnown'
      BY <2>1 DEF UpdatesKnown
    <2> QED
      BY <1>0, <1>2, <2>1, <2>2, <2>3, <2>4, Gathered DEF List, memory, device
  <1>3. CASE NextPhase
    <2>1. cycle' \in CycleTypes /\ cycle'.phase # "update" /\ cycle.phase # "idle"
      <3>1. CASE cycle.phase = "recover" /\ cycle' = [cycle EXCEPT !.phase = "missing", !.left = Pods]
        BY <1>0, <3>1 DEF CycleTypes
      <3>2. CASE cycle.phase = "missing" /\ cycle' = [cycle EXCEPT !.phase = "orphans",
                                               !.left = Pods, !.want = Asleep.want]
        BY <1>0, <3>2 DEF CycleTypes, Asleep, MaySpec
      <3>3. CASE cycle.phase = "orphans" /\ cycle' = [Asleep EXCEPT !.phase = "stale"]
        BY <3>3 DEF CycleTypes, Asleep, MaySpec
      <3>4. CASE cycle.phase = "update" /\ cycle' = Asleep
        <4>1. Asleep.phase = "idle"
          BY DEF Asleep
        <4> QED
          BY <3>4, <4>1, AsleepIsCycle
      <3> QED
        BY <1>3, <3>1, <3>2, <3>3, <3>4 DEF NextPhase
    <2>2. OneWorks' /\ QueueKept' /\ task' \in TaskTypes
      BY <1>3, <2>1, StayFacts DEF NextPhase
    <2>3. Aside
      BY <1>3, SameBoxes DEF NextPhase, Aside, device
    <2>4. UpdatesKnown'
      BY <2>1 DEF UpdatesKnown
    <2> QED
      BY <1>0, <1>3, <2>1, <2>2, <2>3, <2>4, Gathered DEF NextPhase, memory, device
  <1>4. ASSUME NEW s \in SUBSET Pods, Stale(s) PROVE PodInv'
    <2>1. cycle' \in CycleTypes /\ UpdatesKnown'
      BY <1>4, <1>0 DEF Stale, CycleTypes, UpdatesKnown
    <2>2. OneWorks' /\ QueueKept' /\ task' \in TaskTypes
      BY <1>4, StayFacts DEF Stale, Phase
    <2>3. Aside
      BY <1>4, SameBoxes DEF Stale, Aside, device
    <2>4. edits' \in 0 .. MaxEdits
      BY <1>4, <1>0 DEF Stale
    <2> QED
      BY <1>0, <1>4, <2>1, <2>2, <2>3, <2>4, Gathered DEF Stale, memory, device
  <1>5. ASSUME NEW p \in Pods, Recover(p) PROVE PodInv'
    <2>1. cycle' \in CycleTypes /\ cycle'.phase = "recover"
      <3>1. \A x \in {"running", "none"} :
              [cycle EXCEPT !.left = @ \ {p}, !.seen[p] = x] \in CycleTypes
        BY <1>0 DEF CycleTypes
      <3>2. cycle' \in CycleTypes
        BY <1>5, <1>l, <3>1 DEF Recover
      <3>3. cycle'.phase = cycle.phase
        BY <1>5, <1>0 DEF Recover, CycleTypes
      <3> QED
        BY <1>5, <3>2, <3>3 DEF Recover, Phase
    <2>2. OneWorks' /\ QueueKept' /\ task' \in TaskTypes
      BY <1>5, StayFacts DEF Recover, Phase
    <2>3. box' \in BoxTypes /\ BoxesStay
      BY <1>5, OneBox DEF Recover
    <2>4. Aside
      BY <1>5, <2>3 DEF Recover, Aside
    <2>5. tracked' \in [Pods -> MaySpec] /\ faults' \in 0 .. MaxFaults
      BY <1>5, <1>0 DEF Recover, MaySpec
    <2>6. UpdatesKnown'
      BY <2>1 DEF UpdatesKnown
    <2> QED
      BY <1>0, <1>5, <2>1, <2>2, <2>4, <2>5, <2>6, Gathered DEF Recover
  <1>6. ASSUME NEW p \in Pods, Missing(p) PROVE PodInv'
    <2>1. cycle' \in CycleTypes /\ cycle'.phase = "missing" /\ cycle.phase # "idle"
      <3>1. cycle'.phase = cycle.phase
        BY <1>6, <1>0 DEF Missing, CycleTypes
      <3> QED
        BY <1>6, <1>l, <3>1 DEF Missing, Phase
    <2>2. /\ task' \in TaskTypes /\ alone' \subseteq alone /\ OneWorks' /\ QueueKept'
          /\ \A u \in Threads : task'[u] = task[u] \/ task'[u].step \notin TrialSteps
      <3>1. CASE UNCHANGED <<task, alone>>
        BY <1>6, <2>1, <3>1, StayFacts DEF Missing
      <3>2. CASE ~Skip3(p) /\ Start("reconcile", Task(p, cycle.want[p], "clean", "end"))
        <4>1. cycle.want[p] \in Specs
          BY <1>0, <3>2 DEF Skip3, CycleTypes, MaySpec
        <4> QED
          BY <1>6, <2>1, <3>2, <4>1, <1>s, StartFacts DEF Missing
      <3> QED
        BY <1>6, <3>1, <3>2 DEF Missing
    <2>3. Aside
      BY <1>6, <2>2, SameBoxes DEF Missing, Aside
    <2>4. tracked' \in [Pods -> MaySpec] /\ ports' \subseteq Pods
      BY <1>6, <1>0 DEF Missing, CycleTypes
    <2>5. UpdatesKnown'
      BY <2>1 DEF UpdatesKnown
    <2> QED
      BY <1>0, <1>6, <2>1, <2>2, <2>3, <2>4, <2>5, Gathered DEF Missing
  <1>7. ASSUME NEW p \in Pods, Orphan(p) PROVE PodInv'
    <2>1. cycle' \in CycleTypes /\ cycle'.phase = "orphans" /\ cycle.phase # "idle"
      <3>1. cycle'.phase = cycle.phase
        BY <1>7, <1>0 DEF Orphan, CycleTypes
      <3> QED
        BY <1>7, <1>l, <3>1 DEF Orphan, Phase
    <2>2. /\ task' \in TaskTypes /\ alone' \subseteq alone /\ OneWorks' /\ QueueKept'
          /\ \A u \in Threads : task'[u] = task[u] \/ task'[u].step \notin TrialSteps
      <3>1. CASE UNCHANGED <<task, alone>>
        BY <1>7, <2>1, <3>1, StayFacts DEF Orphan
      <3>2. CASE Orphaned(p) /\ Start("reconcile", Task(p, tracked[p], "clean", "end"))
        <4>1. tracked[p] \in Specs
          BY <1>0, <3>2 DEF Orphaned, MaySpec
        <4> QED
          BY <1>7, <2>1, <3>2, <4>1, <1>s, StartFacts DEF Orphan
      <3> QED
        BY <1>7, <3>1, <3>2 DEF Orphan
    <2>3. Aside
      BY <1>7, <2>2, SameBoxes DEF Orphan, Aside, device
    <2>4. tracked' \in [Pods -> MaySpec]
      BY <1>7, <1>0 DEF Orphan, MaySpec
    <2>5. UpdatesKnown'
      BY <2>1 DEF UpdatesKnown
    <2> QED
      BY <1>0, <1>7, <2>1, <2>2, <2>3, <2>4, <2>5, Gathered DEF Orphan, device
  <1>8. ASSUME NEW p \in Pods, UpdateStale(p) PROVE PodInv'
    <2>1. cycle' \in CycleTypes /\ cycle.phase # "idle" /\ UpdatesKnown'
          /\ cycle.want[p] \in Specs
      <3>1. cycle.phase = "update" /\ p \in cycle.left
        BY <1>8 DEF UpdateStale, Phase, Visit
      <3>2. PICK left \in {{}, cycle.left \ {p}} : cycle' = [cycle EXCEPT !.left = left]
        BY <1>8 DEF UpdateStale
      <3>3. cycle' \in CycleTypes /\ cycle'.want = cycle.want /\ cycle'.left \subseteq cycle.left
        BY <1>0, <3>2 DEF CycleTypes
      <3>4. \A q \in cycle.left : cycle.want[q] # NoSpec
        BY <3>1 DEF PodInv, UpdatesKnown
      <3>5. cycle.want[p] \in Specs
        BY <1>0, <3>1, <3>4 DEF CycleTypes, MaySpec
      <3> QED
        BY <3>1, <3>3, <3>4, <3>5 DEF UpdatesKnown
    <2>2. /\ task' \in TaskTypes /\ alone' \subseteq alone /\ OneWorks' /\ QueueKept'
          /\ \A u \in Threads : task'[u] = task[u] \/ task'[u].step \notin TrialSteps
      BY <1>8, <2>1, <1>s, StartFacts DEF UpdateStale
    <2>3. Aside
      BY <1>8, <2>2, SameBoxes DEF UpdateStale, Aside, device
    <2> QED
      BY <1>0, <1>8, <2>1, <2>2, <2>3, Gathered DEF UpdateStale, memory, device
  <1> QED
    BY <1>1, <1>2, <1>3, <1>4, <1>5, <1>6, <1>7, <1>8 DEF CycleNext

LEMMA RedeployImageInv ==
  ASSUME PodInv, RedeployImage
  PROVE  PodInv'
  <1> DEFINE targets == {p \in Pods : tracked[p] # NoSpec}
  <1>0. /\ tracked \in [Pods -> MaySpec] /\ redeploying \subseteq Pods
        /\ edits < MaxEdits /\ edits' = edits + 1 => edits' \in 0 .. MaxEdits
    BY PlainTypes
  <1>1. PICK q \in Orders(targets) :
          queue' = [i \in DOMAIN q |-> [pod |-> q[i], spec |-> tracked[q[i]]]]
    BY DEF RedeployImage
  <1>2. Cardinality(targets) \in Nat
    BY PodsAssumption, FS_Subset, FS_CardinalityType
  <1>3. q \in [1 .. Cardinality(targets) -> targets]
    BY DEF Orders
  <1>4. \A x \in targets : x \in Pods /\ tracked[x] \in Specs
    BY <1>0 DEF MaySpec
  <1>5. redeploying' = redeploying \cup targets
        /\ alone' = {p \in alone : p \in targets => Working(p) = {}}
    BY DEF RedeployImage
  <1> HIDE DEF targets
  <1>6. queue' \in Seq([pod : Pods, spec : Specs])
    <2>1. DOMAIN q = 1 .. Cardinality(targets)
      BY <1>3
    <2>2. \A i \in 1 .. Cardinality(targets) :
            [pod |-> q[i], spec |-> tracked[q[i]]] \in [pod : Pods, spec : Specs]
      BY <1>3, <1>4
    <2>3. queue' = [i \in 1 .. Cardinality(targets) |-> [pod |-> q[i], spec |-> tracked[q[i]]]]
      BY <1>1, <2>1
    <2>4. queue' \in [1 .. Cardinality(targets) -> [pod : Pods, spec : Specs]]
      BY <2>2, <2>3
    <2> QED
      BY <1>2, <2>4, SeqDef
  <1>7. Queued' \subseteq targets
    <2>1. \A i \in DOMAIN queue' : queue'[i].pod \in targets
      BY <1>1, <1>3
    <2> QED
      BY <2>1 DEF Queued
  <1>8. OneWorks'
    <2>1. ASSUME NEW p \in alone', p \in targets PROVE Working(p)' \subseteq {"redeploy"}
      <3>1. Working(p) = {}
        BY <1>5, <2>1
      <3> QED
        BY <3>1 DEF Working, RedeployImage
    <2>2. ASSUME NEW p \in alone', p \notin targets PROVE Working(p)' \subseteq Working(p)
      <3>1. p \notin Queued'
        BY <1>7, <2>2
      <3> QED
        BY <3>1 DEF Working, RedeployImage
    <2> QED
      BY <2>1, <2>2, <1>5, FewerWork DEF PodInv
  <1>9. QueueKept' /\ UpdatesKnown' /\ task' \in TaskTypes
    BY DEF RedeployImage, QueueKept, UpdatesKnown, PodInv, TypeOK, TaskTypes
  <1>10. Aside
    BY <1>5, SameBoxes DEF RedeployImage, Aside, device
  <1>11. redeploying' \subseteq Pods
    BY <1>0, <1>4, <1>5
  <1>12. edits' \in 0 .. MaxEdits
    BY <1>0 DEF RedeployImage, Request
  <1> QED
    BY <1>6, <1>8, <1>9, <1>10, <1>11, <1>12, PlainTypes, Gathered
       DEF RedeployImage, memory, device

LEMMA HeadIsElement ==
  ASSUME NEW T, NEW q \in Seq(T), q # <<>>
  PROVE  Head(q) \in T
  OBVIOUS

LEMMA RequestInv ==
  ASSUME PodInv, UserNext \/ RedeployNext
  PROVE  PodInv'
  <1>0. /\ store \in [Pods -> MaySpec] /\ tracked \in [Pods -> MaySpec]
        /\ redeploying \subseteq Pods /\ units \subseteq Pods
        /\ staging \in [Pods -> Dirs \cup {"none"}] /\ ports \subseteq Pods
        /\ alone \subseteq Pods /\ cycle \in CycleTypes
        /\ queue \in Seq([pod : Pods, spec : Specs])
        /\ edits \in 0 .. MaxEdits /\ faults \in 0 .. MaxFaults
        /\ MayFault => faults' \in 0 .. MaxFaults
        /\ edits < MaxEdits /\ edits' = edits + 1 => edits' \in 0 .. MaxEdits
    BY PlainTypes
  <1>s. /\ "clean" \in Steps \ TrialSteps /\ "begin" \in Steps \ TrialSteps
        /\ "remove" \in Steps \ TrialSteps
        /\ "http" \in Threads /\ "http" # "redeploy" /\ "redeploy" \in Threads
    BY DEF Steps, CreateSteps, DeleteSteps, UpdateSteps, TrialSteps, Threads
  <1>a. ASSUME NEW p \in Pods, NEW s \in Specs,
               NEW step \in Steps \ TrialSteps,
               NEW then \in {"end", "recreate", "anyway", "create", "unstore"},
               NEW t \in Threads, t = "redeploy" => queue # <<>>,
               Start(t, Task(p, s, step, then)), UNCHANGED <<device, cycle, queue>>,
               store' \in [Pods -> MaySpec], UNCHANGED <<tracked, redeploying, failures>>,
               units' \subseteq Pods, edits' \in 0 .. MaxEdits, UNCHANGED faults
        PROVE  PodInv'
    <2>1. /\ task' \in TaskTypes /\ alone' \subseteq alone /\ OneWorks' /\ QueueKept'
          /\ \A u \in Threads : task'[u] = task[u] \/ task'[u].step \notin TrialSteps
      BY <1>a, StartFacts
    <2>2. Aside
      BY <1>a, <2>1, SameBoxes DEF Aside, device
    <2>3. UpdatesKnown'
      BY <1>a DEF PodInv, UpdatesKnown
    <2> QED
      BY <1>0, <1>a, <2>1, <2>2, <2>3, Gathered DEF device
  <1>1. ASSUME NEW p \in Pods, NEW s \in Specs, CreatePod(p, s) \/ UpdatePod(p, s)
        PROVE  PodInv'
    <2>1. store' \in [Pods -> MaySpec] /\ units' \subseteq Pods /\ edits' \in 0 .. MaxEdits
      BY <1>0, <1>1 DEF CreatePod, UpdatePod, Request, memory, MaySpec
    <2>2. CASE CreatePod(p, s)
      BY <2>1, <2>2, <1>a, <1>s DEF CreatePod, memory
    <2>3. CASE UpdatePod(p, s)
      BY <2>1, <2>3, <1>a, <1>s DEF UpdatePod, memory
    <2> QED
      BY <1>1, <2>2, <2>3
  <1>2. ASSUME NEW p \in Pods, DeletePod(p) PROVE PodInv'
    <2>1. Known(p) \in Specs
      BY <1>0, <1>2 DEF DeletePod, Known, MaySpec
    <2>2. units' \subseteq Pods /\ edits' \in 0 .. MaxEdits
      BY <1>0, <1>2 DEF DeletePod, Request
    <2> QED
      BY <2>1, <2>2, <1>0, <1>2, <1>a, <1>s DEF DeletePod
  <1>3. ASSUME NEW p \in Pods, PatchConfigMap(p) PROVE PodInv'
    <2>1. tracked[p] \in Specs
      BY <1>0, <1>3 DEF PatchConfigMap, MaySpec
    <2>2. units' \subseteq Pods /\ edits' \in 0 .. MaxEdits
      BY <1>0, <1>3 DEF PatchConfigMap, Request, memory
    <2> QED
      BY <2>1, <2>2, <1>0, <1>3, <1>a, <1>s DEF PatchConfigMap, memory
  <1>4. CASE RedeployNext
    <2>0. queue # <<>>
      BY <1>4 DEF RedeployNext
    <2>1. queue # <<>> /\ Head(queue) \in [pod : Pods, spec : Specs]
      BY <1>0, <2>0, HeadIsElement
    <2>2. Head(queue).pod \in Pods /\ Head(queue).spec \in Specs
      BY <2>1
    <2> QED
      BY <2>1, <2>2, <1>0, <1>4, <1>a, <1>s DEF RedeployNext, memory
  <1> QED
    BY <1>1, <1>2, <1>3, <1>4, RedeployImageInv DEF UserNext

LEMMA NodeInv ==
  ASSUME PodInv, CleanNext \/ \E p \in Pods : Stop(p) \/ KeepAlive(p) \/ GiveUp(p)
  PROVE  PodInv'
  <1>0. /\ store \in [Pods -> MaySpec] /\ tracked \in [Pods -> MaySpec]
        /\ redeploying \subseteq Pods /\ units \subseteq Pods
        /\ staging \in [Pods -> Dirs \cup {"none"}] /\ ports \subseteq Pods
        /\ alone \subseteq Pods /\ cycle \in CycleTypes
        /\ queue \in Seq([pod : Pods, spec : Specs])
        /\ edits \in 0 .. MaxEdits /\ faults \in 0 .. MaxFaults
        /\ MayFault => faults' \in 0 .. MaxFaults
    BY PlainTypes
  <1>c. ASSUME UNCHANGED <<store, tracked, redeploying, failures, units, image, kept, task,
                           cycle, queue, edits>>,
               alone' \subseteq alone, staging' \in [Pods -> Dirs \cup {"none"}],
               ports' \subseteq Pods, box' \in BoxTypes, BoxesStay, faults' \in 0 .. MaxFaults
        PROVE  PodInv'
    <2>1. /\ task' \in TaskTypes /\ OneWorks' /\ QueueKept'
          /\ \A u \in Threads : task'[u] = task[u] \/ task'[u].step \notin TrialSteps
      BY <1>c, StayFacts
    <2>2. Aside
      BY <1>c, <2>1 DEF Aside
    <2>3. UpdatesKnown'
      BY <1>c DEF PodInv, UpdatesKnown
    <2> QED
      BY <1>0, <1>c, <2>1, <2>2, <2>3, Gathered
  <1>1. ASSUME NEW p \in Pods, CleanContainer(p) PROVE PodInv'
    <2>1. box' \in BoxTypes /\ BoxesStay
      BY <1>1, OneBox DEF CleanContainer
    <2>2. alone' \subseteq alone
      BY <1>1 DEF CleanContainer, Cleaned
    <2> QED
      BY <1>0, <1>1, <1>c, <2>1, <2>2 DEF CleanContainer, memory
  <1>2. ASSUME NEW p \in Pods, CleanStaging(p) \/ CleanPort(p) PROVE PodInv'
    <2>1. box' \in BoxTypes /\ BoxesStay
      BY <1>2, SameBoxes DEF CleanStaging, CleanPort
    <2>2. alone' \subseteq alone /\ staging' \in [Pods -> Dirs \cup {"none"}]
          /\ ports' \subseteq Pods
      BY <1>0, <1>2 DEF CleanStaging, CleanPort, Cleaned
    <2> QED
      BY <1>0, <1>2, <1>c, <2>1, <2>2 DEF CleanStaging, CleanPort, memory
  <1>3. ASSUME NEW p \in Pods, Stop(p) \/ KeepAlive(p) PROVE PodInv'
    <2>0. Stop(p) => box[p] # NoBox
      BY DEF Stop, NoBox
    <2>1. box' \in BoxTypes /\ BoxesStay
      BY <1>3, <2>0, OneBox DEF Stop, KeepAlive
    <2> QED
      BY <1>0, <1>3, <1>c, <2>1 DEF Stop, KeepAlive, memory
  <1>4. ASSUME NEW p \in Pods, GiveUp(p) PROVE PodInv'
    <2>1. tracked[p] \in Specs
      BY <1>0, <1>4 DEF GiveUp, MaySpec
    <2>2. "failed" \in Threads /\ "failed" # "redeploy" /\ "remove" \in Steps
          /\ "remove" \notin TrialSteps
      BY DEF Threads, Steps, DeleteSteps, TrialSteps
    <2>3. /\ task' \in TaskTypes /\ alone' \subseteq alone /\ OneWorks' /\ QueueKept'
          /\ \A u \in Threads : task'[u] = task[u] \/ task'[u].step \notin TrialSteps
      BY <1>4, <2>1, <2>2, StartFacts DEF GiveUp
    <2>4. Aside
      BY <1>4, <2>3, SameBoxes DEF GiveUp, Aside, device
    <2>5. UpdatesKnown' /\ units' \subseteq Pods
      BY <1>0, <1>4 DEF GiveUp, PodInv, UpdatesKnown
    <2> QED
      BY <1>0, <1>4, <2>3, <2>4, <2>5, Gathered DEF GiveUp, device
  <1> QED
    BY <1>1, <1>2, <1>3, <1>4 DEF CleanNext

LEMMA PodNextInv == PodInv /\ [Next]_vars => PodInv'
  <1> SUFFICES ASSUME PodInv, [Next]_vars PROVE PodInv'
    OBVIOUS
  <1>1. CASE \E t \in Threads : ThreadNext(t)
    BY <1>1, ThreadInv
  <1>2. CASE CycleNext
    BY <1>2, CycleInv
  <1>3. CASE UserNext \/ RedeployNext
    BY <1>3, RequestInv
  <1>4. CASE CleanNext \/ \E p \in Pods : Stop(p) \/ KeepAlive(p) \/ GiveUp(p)
    BY <1>4, NodeInv
  <1>5. CASE UNCHANGED vars
    <2>1. \A p \in Pods : Working(p)' = Working(p)
      BY <1>5 DEF vars, Working, Queued
    <2>2. OneWorks'
      BY <1>5, <2>1 DEF vars, OneWorks, PodInv, TypeOK
    <2> QED
      BY <1>5, <2>2 DEF vars, memory, device, PodInv, TypeOK, UpdatesKnown, QueueKept,
             BoxHolds, TrialHolds
  <1> QED
    BY <1>1, <1>2, <1>3, <1>4, <1>5 DEF Next

LEMMA PodInitInv == Init => PodInv
  <1> SUFFICES ASSUME Init PROVE PodInv
    OBVIOUS
  <1>1. image \in ImageTypes /\ BoxHolds
    <2>1. \A p \in Pods : box[p] # NoBox => box[p] \in Boxes
      BY DEF Init
    <2>2. \A p \in Pods : box[p] # NoBox => box[p].spec \in Specs /\ box[p].dir \in Dirs
      BY <2>1 DEF Boxes
    <2>3. image \in ImageTypes
      BY <2>2 DEF Init, ImageTypes, MaySpec
    <2> QED
      BY <2>2, <2>3 DEF Init, BoxHolds
  <1>2. ASSUME NEW p \in Pods PROVE Working(p) = {}
    BY DEF Init, Working, Queued, Asleep
  <1>3. OneWorks /\ UpdatesKnown /\ QueueKept /\ TrialHolds
    BY <1>2 DEF Init, OneWorks, UpdatesKnown, QueueKept, TrialHolds, Asleep, Idle, TrialSteps,
           Threads
  <1>4. cycle \in CycleTypes /\ queue \in Seq([pod : Pods, spec : Specs])
    BY AsleepIsCycle DEF Init
  <1>5. /\ tracked \in [Pods -> MaySpec] /\ failures \in [Pods -> 0 .. 2]
        /\ task \in [Threads -> Tasks \cup {Idle}]
        /\ staging \in [Pods -> Dirs \cup {"none"}]
    BY DEF Init, MaySpec
  <1>6. edits \in 0 .. MaxEdits /\ faults \in 0 .. MaxFaults
    BY BoundAssumption DEF Init
  <1> QED
    BY <1>1, <1>3, <1>4, <1>5, <1>6 DEF Init, PodInv, TypeOK, ImageTypes, CycleTypes

\* The records of the provider, the device and the threads' tasks are well typed.
THEOREM PodsTypeCorrect == Spec => []TypeOK
  <1>1. PodInv => TypeOK
    BY DEF PodInv
  <1> QED
    BY <1>1, PodInitInv, PodNextInv, PTL DEF Spec

\* Through creations, deletions and staged updates that fail at any call, in any number and
\* on any number of pods: where two threads have never met on a pod, its container runs from
\* the image of its own specification, or in a directory that could not be removed before.
THEOREM RunsItsImageTheorem == Spec => []RunsItsImage
  <1>1. PodInv => RunsItsImage
    BY DEF PodInv, TypeOK, BoxHolds, RunsItsImage, NoBox
  <1> QED
    BY <1>1, PodInitInv, PodNextInv, PTL DEF Spec

-----------------------------------------------------------------------------
(* No pod stays marked as being redeployed. *)

\* The calls between the mark of an update and its removal.
Updating == {"stage", "verify", "cut", "swap", "start", "track"}
Updates(t, p) == task[t].step \in Updating /\ task[t].pod = p /\ task[t].then = "recreate"

\* The reconcile loop, the rollouts and the lifecycle callback pass over marked pods, so a
\* mark that nobody is to remove would leave its pod alone for good.
MarkedIsWorked == \A p \in redeploying : p \in Queued \/ \E t \in Threads : Updates(t, p)

\* Every update falls back to a deletion and a creation.
UpdatesRecreate == \A t \in Threads : task[t].step \in UpdateSteps => task[t].then = "recreate"

MarkInv == MarkedIsWorked /\ UpdatesRecreate

\* A thread that changes its own task only, and does not leave a mark behind.
LEMMA MarksStay ==
  ASSUME MarkInv, TypeOK, NEW t \in Threads, task' = [task EXCEPT ![t] = task'[t]],
         redeploying \in SUBSET Pods,
         \A p \in redeploying' : Updates(t, p)' \/ (p \in redeploying /\ ~Updates(t, p)),
         \A p \in redeploying' : p \in Queued => p \in Queued',
         task'[t].step \in UpdateSteps => task'[t].then = "recreate"
  PROVE  MarkInv'
  <1>1. \A u \in Threads : u # t => task'[u] = task[u]
    BY DEF TypeOK
  <1>2. UpdatesRecreate'
    BY <1>1 DEF MarkInv, UpdatesRecreate
  <1>3. ASSUME NEW p \in redeploying' PROVE p \in Queued' \/ \E u \in Threads : Updates(u, p)'
    <2>1. CASE Updates(t, p)'
      BY <2>1
    <2>2. CASE p \in redeploying /\ ~Updates(t, p)
      <3>1. CASE p \in Queued
        BY <1>3, <3>1
      <3>2. CASE p \notin Queued
        <4>1. PICK u \in Threads : Updates(u, p)
          BY <2>2, <3>2 DEF MarkInv, MarkedIsWorked
        <4>2. task'[u] = task[u]
          BY <1>1, <2>2, <4>1
        <4>3. Updates(u, p)'
          BY <4>1, <4>2 DEF Updates
        <4> QED
          BY <4>3
      <3> QED
        BY <3>1, <3>2
    <2> QED
      BY <1>3, <2>1, <2>2
  <1> QED
    BY <1>2, <1>3 DEF MarkInv, MarkedIsWorked

\* The next call of a task.
LEMMA GoMarks ==
  ASSUME MarkInv, TypeOK, NEW t \in Threads, task[t] \in Tasks, NEW s \in Steps, Go(t, s),
         redeploying' \subseteq redeploying \cup {task[t].pod}, queue' = queue,
         s \in UpdateSteps => task[t].then = "recreate",
         \/ redeploying' = redeploying /\ (task[t].step \in Updating => s \in Updating)
         \/ task[t].pod \notin redeploying'
  PROVE  MarkInv'
  <1>1. /\ task' = [task EXCEPT ![t] = task'[t]] /\ task'[t].pod = task[t].pod
        /\ task'[t].step = s /\ task'[t].then = task[t].then
    <2>1. task'[t] = [task[t] EXCEPT !.step = s]
      BY GoContinues
    <2>2. task'[t].then = task[t].then
      BY <2>1 DEF Tasks
    <2> QED
      BY <2>2, GoContinues
  <1>2. task'[t].step \in UpdateSteps => task'[t].then = "recreate"
    BY <1>1
  <1>3. \A p \in redeploying' : p \in Queued => p \in Queued'
    BY DEF Queued
  <1>4. ASSUME NEW p \in redeploying' PROVE Updates(t, p)' \/ (p \in redeploying /\ ~Updates(t, p))
    BY <1>1, <1>4 DEF Updates
  <1>5. redeploying \in SUBSET Pods
    BY DEF TypeOK
  <1> QED
    BY <1>1, <1>2, <1>3, <1>4, <1>5, MarksStay

LEMMA TailQueued ==
  ASSUME TypeOK, queue # <<>>, queue' = Tail(queue), NEW p \in Queued, p # Head(queue).pod
  PROVE  p \in Queued'
  <1>1. queue \in Seq([pod : Pods, spec : Specs])
    BY DEF TypeOK
  <1>2. PICK i \in DOMAIN queue : queue[i].pod = p
    BY DEF Queued
  <1>3. Len(queue) \in Nat /\ DOMAIN queue = 1 .. Len(queue) /\ Head(queue) = queue[1]
    BY <1>1
  <1>4. DOMAIN queue' = 1 .. Len(queue) - 1 /\ \A j \in 1 .. Len(queue) - 1 : queue'[j] = queue[j + 1]
    BY <1>1
  <1>5. i # 1 /\ i - 1 \in 1 .. Len(queue) - 1 /\ (i - 1) + 1 = i
    BY <1>2, <1>3
  <1>6. queue'[i - 1] = queue[i]
    BY <1>4, <1>5
  <1> QED
    BY <1>2, <1>4, <1>5, <1>6 DEF Queued

\* The end of a task: an update has removed its mark by then.
LEMMA EndMarks ==
  ASSUME MarkInv, TypeOK, QueueKept, NEW t \in Threads, task[t] \in Tasks, task[t] # Idle, NEW ok,
         NEW flagged \in SUBSET redeploying, End(t, ok, flagged), \A p \in flagged : ~Updates(t, p)
  PROVE  MarkInv'
  <1>1. task'[t] = Idle /\ task' = [task EXCEPT ![t] = task'[t]] /\ redeploying \in SUBSET Pods
    BY DEF End, TypeOK
  <1>2. task'[t].step \notin UpdateSteps
    BY <1>1 DEF Idle, UpdateSteps
  <1>3. redeploying' \subseteq flagged
    BY DEF End
  <1>4. ASSUME NEW p \in redeploying', p \in Queued PROVE p \in Queued'
    <2>1. CASE queue' = queue
      BY <1>4, <2>1 DEF Queued
    <2>2. CASE t = "redeploy" /\ queue' = Tail(queue) /\ p # Head(queue).pod
      BY <1>4, <2>2, TailQueued DEF QueueKept
    <2> QED
      BY <1>4, <2>1, <2>2 DEF End
  <1> QED
    BY <1>1, <1>2, <1>3, <1>4, MarksStay

LEMMA FailsMarks ==
  ASSUME MarkInv, TypeOK, QueueKept, NEW t \in Threads, task[t] \in Tasks, task[t] # Idle, Fails(t)
  PROVE  MarkInv'
  <1>1. CASE task[t].then # "recreate"
    BY <1>1, EndMarks DEF Fails, Updates
  <1>2. CASE task[t].then = "recreate"
    <2>1. Go(t, "fallback") /\ redeploying' = redeploying \ {task[t].pod} /\ queue' = queue
      BY <1>2 DEF Fails
    <2>2. "fallback" \in Steps
      BY DEF Steps, UpdateSteps
    <2> QED
      BY <1>2, <2>1, <2>2, GoMarks
  <1> QED
    BY <1>1, <1>2

LEMMA ThreadMarks ==
  ASSUME PodInv, MarkInv, NEW t \in Threads, ThreadNext(t)
  PROVE  MarkInv'
  <1> USE DEF Rest, OnDevice
  <1>0. /\ TypeOK /\ QueueKept /\ task[t] \in Tasks /\ task[t] # Idle
        /\ task' = [task EXCEPT ![t] = task'[t]] /\ redeploying \in SUBSET Pods
    BY ThreadContinues DEF PodInv, Continues, TypeOK
  <1>u. task[t].step \in UpdateSteps => task[t].then = "recreate"
    BY DEF MarkInv, UpdatesRecreate
  <1>g. ASSUME NEW s \in Steps, Go(t, s), redeploying' = redeploying, queue' = queue,
               s \in UpdateSteps => task[t].step \in UpdateSteps,
               task[t].step \in Updating => s \in Updating
        PROVE  MarkInv'
    BY <1>g, <1>u, <1>0, GoMarks
  <1>f. ASSUME Fails(t) PROVE MarkInv'
    BY <1>f, <1>0, FailsMarks
  <1>e. ASSUME NEW ok, End(t, ok, redeploying), task[t].step \notin Updating PROVE MarkInv'
    BY <1>e, <1>0, EndMarks DEF Updates
  <1>n. ASSUME NEW tk, task' = [task EXCEPT ![t] = tk], task[t].step \notin Updating,
               tk.step \notin UpdateSteps, redeploying' = redeploying, queue' = queue
        PROVE  MarkInv'
    <2>1. task'[t] = tk
      BY <1>n DEF TypeOK, PodInv
    <2>2. \A p \in redeploying' : (p \in redeploying /\ ~Updates(t, p)) /\ (p \in Queued => p \in Queued')
      BY <1>n DEF Updates, Queued
    <2> QED
      BY <1>0, <1>n, <2>1, <2>2, MarksStay
  <1>s. /\ "net" \in Steps /\ "make" \in Steps /\ "start" \in Steps /\ "track" \in Steps
        /\ "release" \in Steps /\ "untrack" \in Steps /\ "unstore" \in Steps
        /\ "verify" \in Steps /\ "cut" \in Steps /\ "swap" \in Steps
    BY DEF Steps, CreateSteps, DeleteSteps, UpdateSteps
  <1>1. CASE Clean(t)
    BY <1>1, <1>g, <1>s DEF Clean, At, Updating, UpdateSteps
  <1>2. CASE Net(t)
    BY <1>2, <1>g, <1>f, <1>s DEF Net, At, Updating, UpdateSteps
  <1>3. CASE Make(t)
    BY <1>3, <1>g, <1>f, <1>s DEF Make, At, Updating, UpdateSteps
  <1>4. CASE StartBox(t)
    BY <1>4, <1>g, <1>f, <1>s DEF StartBox, At, Updating, UpdateSteps
  <1>5. CASE Track(t)
    <2>1. CASE task[t].then = "recreate"
      <3>1. End(t, TRUE, redeploying \ {task[t].pod})
        BY <1>5, <2>1 DEF Track
      <3>2. \A p \in redeploying \ {task[t].pod} : ~Updates(t, p)
        BY DEF Updates
      <3> QED
        BY <1>0, <3>1, <3>2, EndMarks
    <2>2. CASE task[t].then # "recreate"
      <3>1. End(t, TRUE, redeploying)
        BY <1>5, <2>2 DEF Track
      <3>2. \A p \in redeploying : ~Updates(t, p)
        BY <2>2 DEF Updates
      <3> QED
        BY <1>0, <3>1, <3>2, EndMarks
    <2> QED
      BY <2>1, <2>2
  <1>6. CASE Remove(t)
    <2>1. CASE Go(t, "release")
      BY <1>6, <2>1, <1>g, <1>s DEF Remove, At, Updating, UpdateSteps
    <2>2. ASSUME NEW bad \in BOOLEAN,
                 task' = [task EXCEPT ![t].step = "release", ![t].bad = bad]
          PROVE  MarkInv'
      <3>1. PICK tk : tk = [task[t] EXCEPT !.step = "release", !.bad = bad]
        OBVIOUS
      <3>2. tk.step = "release"
        BY <3>1, <1>0 DEF Tasks
      <3>3. task' = [task EXCEPT ![t] = tk]
        BY <2>2, <3>1
      <3> QED
        BY <1>6, <3>2, <3>3, <1>n DEF Remove, At, Updating, UpdateSteps
    <2> QED
      BY <1>6, <2>1, <2>2 DEF Remove
  <1>7. CASE Release(t)
    BY <1>7, <1>g, <1>s DEF Release, At, Updating, UpdateSteps
  <1>8. CASE Untrack(t)
    <2>1. ASSUME task' = [task EXCEPT ![t] = Task(task[t].pod, task[t].spec, "clean", "end")],
                 UNCHANGED <<redeploying, failures, queue>>
          PROVE  MarkInv'
      <3>1. Task(task[t].pod, task[t].spec, "clean", "end").step = "clean"
        BY DEF Task
      <3> QED
        BY <1>8, <2>1, <3>1, <1>n DEF Untrack, At, Updating, UpdateSteps
    <2>2. task[t].step \notin Updating /\ task[t].step \notin UpdateSteps
      BY <1>8 DEF Untrack, At, Updating, UpdateSteps
    <2>3. CASE Go(t, "unstore") /\ UNCHANGED <<redeploying, failures, queue>>
      BY <2>2, <2>3, <1>g, <1>s DEF UpdateSteps
    <2> QED
      BY <1>8, <2>1, <2>2, <2>3, <1>e DEF Untrack
  <1>9. CASE Unstore(t)
    BY <1>9, <1>e DEF Unstore, At, Updating
  <1>10. CASE BeginUpdate(t)
    <2>1. ASSUME box[task[t].pod] # NoBox, redeploying' = redeploying \cup {task[t].pod},
                 task' = [task EXCEPT ![t].step = "stage", ![t].old = box[task[t].pod].dir],
                 UNCHANGED <<failures, queue>>
          PROVE  MarkInv'
      <3>1. task[t].step = "begin" /\ task[t].then = "recreate"
        BY <1>10, <1>u DEF BeginUpdate, At, UpdateSteps
      <3>2. task'[t] = [task[t] EXCEPT !.step = "stage", !.old = box[task[t].pod].dir]
        BY <2>1 DEF PodInv, TypeOK
      <3>3. task'[t].step = "stage" /\ task'[t].pod = task[t].pod /\ task'[t].then = "recreate"
        BY <3>1, <3>2, <1>0 DEF Tasks
      <3>4. ASSUME NEW p \in redeploying' PROVE Updates(t, p)' \/ (p \in redeploying /\ ~Updates(t, p))
        BY <2>1, <3>1, <3>3, <3>4 DEF Updates, Updating
      <3>5. \A p \in redeploying' : p \in Queued => p \in Queued'
        BY <2>1 DEF Queued
      <3> QED
        BY <1>0, <3>3, <3>4, <3>5, MarksStay
    <2> QED
      BY <1>10, <2>1, <1>f DEF BeginUpdate
  <1>11. CASE Stage(t)
    BY <1>11, <1>g, <1>f, <1>s DEF Stage, At, Updating, UpdateSteps
  <1>12. CASE Verify(t)
    BY <1>12, <1>g, <1>f, <1>s DEF Verify, At, Updating, UpdateSteps
  <1>13. CASE Cut(t)
    BY <1>13, <1>g, <1>f, <1>s DEF Cut, At, Updating, UpdateSteps
  <1>14. CASE Swap(t)
    BY <1>14, <1>g, <1>f, <1>s DEF Swap, At, Updating, UpdateSteps
  <1>15. CASE Fallback(t)
    <2>1. Task(task[t].pod, task[t].spec, "remove", "anyway").step = "remove"
      BY DEF Task
    <2> QED
      BY <1>15, <2>1, <1>n DEF Fallback, At, Updating, UpdateSteps
  <1> QED
    BY <1>1, <1>2, <1>3, <1>4, <1>5, <1>6, <1>7, <1>8, <1>9, <1>10, <1>11, <1>12,
       <1>13, <1>14, <1>15 DEF ThreadNext, CreateNext, DeleteNext, UpdateNext

\* A thread that was idle takes a task.
LEMMA StartMarks ==
  ASSUME MarkInv, TypeOK, NEW t \in Threads, task[t] = Idle, NEW tk, Start(t, tk),
         tk.step \in UpdateSteps => tk.then = "recreate", UNCHANGED <<redeploying, queue>>
  PROVE  MarkInv'
  <1>1. task'[t] = tk /\ task' = [task EXCEPT ![t] = task'[t]] /\ redeploying \in SUBSET Pods
    BY DEF Start, TypeOK
  <1>2. \A p \in redeploying' : (p \in redeploying /\ ~Updates(t, p)) /\ (p \in Queued => p \in Queued')
    BY DEF Updates, Updating, Idle, Queued
  <1> QED
    BY <1>1, <1>2, MarksStay

\* Steps that no thread takes.
LEMMA SameMarks ==
  ASSUME MarkInv, UNCHANGED <<task, redeploying, queue>>
  PROVE  MarkInv'
  BY DEF MarkInv, MarkedIsWorked, UpdatesRecreate, Updates, Queued

\* A redeploy marks its pods and queues every one of them.
LEMMA RedeployMarks ==
  ASSUME PodInv, MarkInv, RedeployImage
  PROVE  MarkInv'
  <1> DEFINE targets == {p \in Pods : tracked[p] # NoSpec}
  <1>1. PICK q \in Orders(targets) :
          queue' = [i \in DOMAIN q |-> [pod |-> q[i], spec |-> tracked[q[i]]]]
    BY DEF RedeployImage
  <1>2. IsFiniteSet(targets) /\ Cardinality(targets) \in Nat
    BY PodsAssumption, FS_Subset, FS_CardinalityType
  <1>3. redeploying' = redeploying \cup targets /\ task' = task /\ queue = <<>>
    BY DEF RedeployImage
  <1> HIDE DEF targets
  <1>4. q \in [1 .. Cardinality(targets) -> targets]
        /\ \A i, j \in DOMAIN q : q[i] = q[j] => i = j
    BY DEF Orders
  <1>5. ASSUME NEW p \in targets PROVE p \in Queued'
    <2>1. q \in Injection(1 .. Cardinality(targets), targets)
      BY <1>4 DEF Injection, IsInjective
    <2>2. Cardinality(1 .. Cardinality(targets)) = Cardinality(targets)
      BY <1>2, FS_Interval
    <2>3. q \in Surjection(1 .. Cardinality(targets), targets)
      BY <1>2, <2>1, <2>2, FS_Injection
    <2>4. PICK i \in 1 .. Cardinality(targets) : q[i] = p
      BY <2>3 DEF Surjection
    <2>5. i \in DOMAIN queue' /\ queue'[i].pod = p
      BY <1>1, <1>4, <2>4
    <2> QED
      BY <2>5 DEF Queued
  <1>6. \A p \in redeploying : \E t \in Threads : Updates(t, p)
    BY <1>3 DEF MarkInv, MarkedIsWorked, Queued
  <1> QED
    BY <1>3, <1>5, <1>6 DEF MarkInv, MarkedIsWorked, UpdatesRecreate, Updates

LEMMA MarkNextInv == PodInv /\ MarkInv /\ [Next]_vars => MarkInv'
  <1> SUFFICES ASSUME PodInv, MarkInv, [Next]_vars PROVE MarkInv'
    OBVIOUS
  <1>0. TypeOK /\ "reconcile" \in Threads /\ "http" \in Threads /\ "redeploy" \in Threads
        /\ "failed" \in Threads
    BY DEF PodInv, Threads
  <1>t. \A p, s, step, then : /\ Task(p, s, step, then).step = step
                              /\ Task(p, s, step, then).then = then
    BY DEF Task
  <1>s. ASSUME NEW t \in Threads, task[t] = Idle, NEW p, NEW s, UNCHANGED <<redeploying, queue>>,
               \/ Start(t, Task(p, s, "begin", "recreate"))
               \/ Start(t, Task(p, s, "clean", "end"))
               \/ \E then : Start(t, Task(p, s, "remove", then))
        PROVE  MarkInv'
    BY <1>0, <1>t, <1>s, StartMarks DEF UpdateSteps
  <1>1. CASE \E t \in Threads : ThreadNext(t)
    BY <1>1, ThreadMarks
  <1>2. CASE CycleNext
    <2>1. ASSUME NEW p \in Pods, Missing(p) \/ Orphan(p) \/ UpdateStale(p) PROVE MarkInv'
      <3>1. task["reconcile"] = Idle /\ UNCHANGED <<redeploying, queue>>
        BY <2>1 DEF Missing, Orphan, UpdateStale, Phase, Free, memory
      <3>2. CASE task' = task
        BY <3>1, <3>2, SameMarks
      <3>3. CASE task' # task
        BY <1>0, <2>1, <3>1, <3>3, <1>s DEF Missing, Orphan, UpdateStale
      <3> QED
        BY <3>2, <3>3
    <2>2. CASE UNCHANGED <<task, redeploying, queue>>
      BY <2>2, SameMarks
    <2> QED
      BY <1>2, <2>1, <2>2 DEF CycleNext, Load, List, NextPhase, Stale, Recover, memory
  <1>3. CASE RedeployNext
    BY <1>0, <1>3, <1>s DEF RedeployNext, memory
  <1>4. CASE UserNext
    <2>1. CASE RedeployImage
      BY <2>1, RedeployMarks
    <2>2. ASSUME NEW p \in Pods, DeletePod(p) \/ PatchConfigMap(p)
          PROVE  MarkInv'
      BY <1>0, <2>2, <1>s DEF DeletePod, PatchConfigMap, Request, memory
    <2>3. ASSUME NEW p \in Pods, NEW s \in Specs, CreatePod(p, s) \/ UpdatePod(p, s)
          PROVE  MarkInv'
      BY <1>0, <2>3, <1>s DEF CreatePod, UpdatePod, Request, memory
    <2> QED
      BY <1>4, <2>1, <2>2, <2>3 DEF UserNext
  <1>5. ASSUME NEW p \in Pods, GiveUp(p) PROVE MarkInv'
    BY <1>0, <1>5, <1>s DEF GiveUp
  <1>6. CASE CleanNext \/ \E p \in Pods : Stop(p) \/ KeepAlive(p)
    BY <1>6, SameMarks DEF CleanNext, CleanContainer, CleanStaging, CleanPort, Stop, KeepAlive, memory
  <1>7. CASE UNCHANGED vars
    BY <1>7, SameMarks DEF vars, memory
  <1> QED
    BY <1>1, <1>2, <1>3, <1>4, <1>5, <1>6, <1>7 DEF Next

\* Through updates that fail at any call, rollouts that halt and redeploys of many pods at
\* once: a pod is marked as being redeployed only while the redeploy has still to come to it
\* or a thread works on its update.  No mark is left behind for good.
THEOREM MarkedIsWorkedTheorem == Spec => []MarkedIsWorked
  <1>1. Init => MarkInv
    BY DEF Init, MarkInv, MarkedIsWorked, UpdatesRecreate, Idle, UpdateSteps
  <1>2. MarkInv => MarkedIsWorked
    BY DEF MarkInv
  <1> QED
    BY <1>1, <1>2, PodInitInv, PodNextInv, MarkNextInv, PTL DEF Spec
-----------------------------------------------------------------------------
(* A pod that has converged stays so. *)

\* The pod is stored, tracked and runs, no thread works on it or is to come to it, and the
\* cycle, where it still looks at its listing, has seen the container run.
PodSettled(p) ==
  /\ store[p] # NoSpec /\ tracked[p] # NoSpec /\ box[p].runs
  /\ \A t \in Threads : task[t] # Idle => task[t].pod # p
  /\ p \notin Queued
  /\ cycle.phase \in {"recover", "missing", "orphans"} => cycle.seen[p] = "running"
  /\ cycle.phase = "update" => p \notin cycle.left

\* A step that leaves the records and the container of p, and takes nobody to it.
LEMMA StaysSettled ==
  ASSUME NEW p \in Pods, PodSettled(p),
         store'[p] = store[p], tracked'[p] = tracked[p], box'[p] = box[p],
         \A t \in Threads : task'[t] # Idle => task'[t].pod # p,
         Queued' \subseteq Queued,
         cycle'.phase \in {"recover", "missing", "orphans"} => cycle'.seen[p] = "running",
         cycle'.phase = "update" => p \notin cycle'.left
  PROVE  PodSettled(p)'
  BY DEF PodSettled

\* The calls of a thread change the records and the container of its own pod only.
LEMMA ThreadElsewhere ==
  ASSUME TypeOK, NEW t \in Threads, ThreadNext(t), NEW p \in Pods, p # task[t].pod
  PROVE  store'[p] = store[p] /\ tracked'[p] = tracked[p] /\ box'[p] = box[p]
  <1>1. store' = store \/ store' = [store EXCEPT ![task[t].pod] = NoSpec]
    BY DEF ThreadNext, CreateNext, DeleteNext, UpdateNext, Rest, OnDevice, Clean, Net, Make,
           StartBox, Track, Remove, Release, Untrack, Unstore, BeginUpdate, Stage, Verify, Cut,
           Swap, Fallback
  <1>2. tracked' = tracked \/ \E s : tracked' = [tracked EXCEPT ![task[t].pod] = s]
    BY DEF ThreadNext, CreateNext, DeleteNext, UpdateNext, Rest, OnDevice, Clean, Net, Make,
           StartBox, Track, Remove, Release, Untrack, Unstore, BeginUpdate, Stage, Verify, Cut,
           Swap, Fallback
  <1>3. box' = box \/ \E b : box' = [box EXCEPT ![task[t].pod] = b]
    BY ThreadTouches
  <1>4. store \in [Pods -> MaySpec] /\ tracked \in [Pods -> MaySpec]
        /\ box \in [Pods -> Boxes \cup {NoBox}]
    BY DEF TypeOK
  <1> QED
    BY <1>1, <1>2, <1>3, <1>4

LEMMA ThreadStays ==
  ASSUME PodInv, NEW t \in Threads, ThreadNext(t), NEW p \in Pods, PodSettled(p)
  PROVE  PodSettled(p)'
  <1>0. TypeOK /\ QueueKept
    BY DEF PodInv
  <1>1. task[t] # Idle /\ Continues(t) /\ UNCHANGED <<cycle, alone>>
    BY <1>0, ThreadContinues
  <1>2. task[t].pod # p
    BY <1>1 DEF PodSettled
  <1>3. store'[p] = store[p] /\ tracked'[p] = tracked[p] /\ box'[p] = box[p]
    BY <1>0, <1>2, ThreadElsewhere
  <1>4. \A u \in Threads : task'[u] # Idle => task'[u].pod # p
    BY <1>0, <1>1, <1>2 DEF Continues, PodSettled, TypeOK
  <1>5. queue' = queue \/ (queue # <<>> /\ queue' = Tail(queue)) \/ queue' = <<>>
    BY <1>0, <1>1 DEF Continues, QueueKept
  <1>6. Queued' \subseteq Queued
    BY <1>0, <1>5, QueueShrinks
  <1> QED
    BY <1>1, <1>3, <1>4, <1>6, StaysSettled DEF PodSettled

\* A thread that starts on another pod.
LEMMA StartStays ==
  ASSUME TypeOK, NEW t \in Threads, NEW p \in Pods, PodSettled(p), NEW q \in Pods, q # p,
         NEW s, NEW step, NEW then, Start(t, Task(q, s, step, then))
  PROVE  \A u \in Threads : task'[u] # Idle => task'[u].pod # p
  <1>1. Task(q, s, step, then).pod = q
    BY DEF Task
  <1>2. task' = [task EXCEPT ![t] = Task(q, s, step, then)]
    BY DEF Start
  <1> QED
    BY <1>1, <1>2 DEF TypeOK, PodSettled

LEMMA SettledStep ==
  ASSUME PodInv, [Next]_vars, UNCHANGED <<edits, faults>>, NEW p \in Pods, PodSettled(p)
  PROVE  PodSettled(p)'
  <1>0. /\ TypeOK /\ cycle \in CycleTypes /\ box \in [Pods -> Boxes \cup {NoBox}]
        /\ tracked \in [Pods -> MaySpec]
        /\ "reconcile" \in Threads /\ "redeploy" \in Threads /\ "failed" \in Threads
    BY DEF PodInv, TypeOK, CycleTypes, Threads
  <1>1. edits' # edits + 1 /\ ~MayFault
    BY <1>0 DEF TypeOK, MayFault
  <1>2. box[p] # NoBox
    BY DEF PodSettled, NoBox
  <1>q. \A q \in Pods : q # p => box[q] \in Boxes \cup {NoBox}
    BY <1>0
  <1>same. ASSUME UNCHANGED <<task, queue>>
           PROVE  Queued' = Queued /\ \A t \in Threads : task'[t] # Idle => task'[t].pod # p
    BY <1>same DEF Queued, PodSettled
  <1>3. CASE \E t \in Threads : ThreadNext(t)
    BY <1>3, ThreadStays
  <1>4. CASE Load \/ NextPhase \/ \E s \in SUBSET Pods : Stale(s)
    <2>1. UNCHANGED <<store, tracked, box, task, queue>>
      BY <1>4 DEF Load, NextPhase, Stale, memory, device
    <2> DEFINE Looks == /\ cycle'.phase \in {"recover", "missing", "orphans"}
                          => cycle'.seen[p] = "running"
                        /\ cycle'.phase = "update" => p \notin cycle'.left
    <2>2. ASSUME Load PROVE Looks
      <3>1. cycle'.phase = "list"
        BY <2>2 DEF Load, Asleep
      <3> QED
        BY <3>1
    <2>3. ASSUME NextPhase PROVE Looks
      <3>1. CASE cycle.phase \in {"recover", "missing"}
        <4>1. cycle'.phase \in {"missing", "orphans"} /\ cycle'.seen = cycle.seen
          BY <1>0, <2>3, <3>1 DEF NextPhase, CycleTypes
        <4> QED
          BY <3>1, <4>1 DEF PodSettled
      <3>2. CASE cycle.phase \notin {"recover", "missing"}
        <4>1. cycle'.phase \in {"stale", "idle"}
          BY <2>3, <3>2 DEF NextPhase, Asleep
        <4> QED
          BY <4>1
      <3> QED
        BY <3>1, <3>2
    <2>4. ASSUME NEW s \in SUBSET Pods, Stale(s) PROVE Looks
      <3>1. cycle'.phase = "update" /\ cycle'.left = s /\ s = {}
        BY <1>0, <1>1, <2>4 DEF Stale, CycleTypes
      <3> QED
        BY <3>1
    <2>5. Looks
      BY <1>4, <2>2, <2>3, <2>4
    <2> QED
      BY <1>same, <2>1, <2>5, StaysSettled
  <1>5. CASE List
    <2>1. UNCHANGED <<store, tracked, box, task, queue>>
      BY <1>5 DEF List, memory, device
    <2>2. cycle'.phase = "recover" /\ cycle'.seen[p] = "running"
      BY <1>0, <1>2, <1>5 DEF List, CycleTypes, Seen, PodSettled
    <2> QED
      BY <1>same, <2>1, <2>2, StaysSettled
  <1>6. ASSUME NEW q \in Pods, Recover(q) PROVE PodSettled(p)'
    <2>1. UNCHANGED <<store, task, queue>> /\ cycle.phase = "recover" /\ cycle'.phase = "recover"
      BY <1>0, <1>6 DEF Recover, Phase, CycleTypes
    <2>2. cycle.seen[p] = "running" /\ cycle.seen \in [Pods -> {"none", "stopped", "running"}]
      BY <1>0, <2>1 DEF PodSettled, CycleTypes
    <2>3. cycle'.seen[p] = "running" /\ tracked'[p] = tracked[p] /\ box'[p] = box[p]
      <3>1. CASE q = p
        BY <1>0, <1>6, <2>2, <3>1 DEF Recover, CycleTypes
      <3>2. CASE q # p
        <4>1. tracked'[p] = tracked[p]
          BY <1>0, <1>6, <3>2 DEF Recover
        <4>2. box'[p] = box[p]
          BY <1>0, <1>6, <3>2 DEF Recover
        <4>3. cycle'.seen[p] = cycle.seen[p]
          <5>1. cycle'.seen = cycle.seen
                \/ \E x : cycle'.seen = [cycle.seen EXCEPT ![q] = x]
            BY <1>0, <1>6 DEF Recover, CycleTypes
          <5> QED
            BY <2>2, <3>2, <5>1
        <4> QED
          BY <2>2, <4>1, <4>2, <4>3
      <3> QED
        BY <3>1, <3>2
    <2> QED
      BY <1>same, <2>1, <2>3, StaysSettled
  <1>7. ASSUME NEW q \in Pods, Missing(q) \/ Orphan(q) PROVE PodSettled(p)'
    <2>1. /\ UNCHANGED <<store, box, queue>> /\ cycle.phase \in {"missing", "orphans"}
          /\ cycle'.phase = cycle.phase /\ cycle'.seen = cycle.seen
      BY <1>0, <1>7 DEF Missing, Orphan, Phase, CycleTypes, device
    <2>2. cycle.seen[p] = "running"
      BY <2>1 DEF PodSettled
    <2>3. /\ tracked'[p] = tracked[p]
          /\ \A t \in Threads : task'[t] # Idle => task'[t].pod # p
      <3>1. CASE q = p
        BY <1>7, <1>same, <2>1, <2>2, <3>1 DEF Missing, Orphan, Skip3, Orphaned, PodSettled
      <3>2. CASE q # p
        <4>1. tracked'[p] = tracked[p]
          BY <1>0, <1>7, <3>2 DEF Missing, Orphan
        <4>2. CASE task' = task
          BY <4>1, <4>2 DEF PodSettled
        <4>3. CASE task' # task
          <5>1. PICK s : Start("reconcile", Task(q, s, "clean", "end"))
            BY <1>7, <4>3 DEF Missing, Orphan
          <5> QED
            BY <1>0, <3>2, <4>1, <5>1, StartStays
        <4> QED
          BY <4>1, <4>2, <4>3
      <3> QED
        BY <3>1, <3>2
    <2>4. Queued' = Queued
      BY <2>1 DEF Queued
    <2> QED
      BY <2>1, <2>2, <2>3, <2>4, StaysSettled
  <1>8. ASSUME NEW q \in Pods, UpdateStale(q) PROVE PodSettled(p)'
    <2>1. /\ UNCHANGED <<store, tracked, box, queue>> /\ cycle.phase = "update"
          /\ q \in cycle.left /\ cycle'.phase = "update" /\ cycle'.left \subseteq cycle.left
      BY <1>0, <1>8 DEF UpdateStale, Phase, Visit, CycleTypes, memory, device
    <2>2. q # p /\ p \notin cycle'.left
      BY <2>1 DEF PodSettled
    <2>3. \A t \in Threads : task'[t] # Idle => task'[t].pod # p
      BY <1>0, <1>8, <2>2, StartStays DEF UpdateStale
    <2>4. Queued' = Queued
      BY <2>1 DEF Queued
    <2> QED
      BY <2>1, <2>2, <2>3, <2>4, StaysSettled
  <1>9. CASE RedeployNext
    <2>1. UNCHANGED <<store, tracked, box, queue, cycle>> /\ queue # <<>>
      BY <1>9 DEF RedeployNext, memory, device
    <2>2. Head(queue) \in [pod : Pods, spec : Specs] /\ Head(queue).pod \in Queued
      <3>1. queue \in Seq([pod : Pods, spec : Specs])
        BY <1>0 DEF TypeOK
      <3>2. Head(queue) \in [pod : Pods, spec : Specs]
        BY <2>1, <3>1, HeadIsElement
      <3>3. 1 \in DOMAIN queue /\ Head(queue) = queue[1]
        BY <2>1, <3>1
      <3> QED
        BY <3>2, <3>3 DEF Queued
    <2>3. PICK q \in Pods : q = Head(queue).pod /\ q # p
      BY <2>2 DEF PodSettled
    <2>4. PICK s : Start("redeploy", Task(q, s, "begin", "recreate"))
      BY <1>9, <2>3 DEF RedeployNext
    <2>5. \A t \in Threads : task'[t] # Idle => task'[t].pod # p
      BY <1>0, <2>3, <2>4, StartStays
    <2>6. Queued' = Queued
      BY <2>1 DEF Queued
    <2> QED
      BY <2>1, <2>5, <2>6, StaysSettled DEF PodSettled
  <1>10. CASE CleanNext \/ \E q \in Pods : KeepAlive(q)
    <2>1. UNCHANGED <<store, tracked, task, queue, cycle>>
      BY <1>10 DEF CleanNext, CleanContainer, CleanStaging, CleanPort, KeepAlive, memory
    <2>2. box'[p] = box[p]
      BY <1>0, <1>10 DEF CleanNext, CleanContainer, CleanStaging, CleanPort, KeepAlive, Unwanted,
                         PodSettled
    <2> QED
      BY <1>same, <2>1, <2>2, StaysSettled DEF PodSettled
  <1>11. ~UserNext /\ \A q \in Pods : ~Stop(q) /\ ~GiveUp(q)
    BY <1>1 DEF UserNext, RedeployImage, DeletePod, PatchConfigMap, CreatePod, UpdatePod, Request,
                Stop, GiveUp
  <1>12. CASE UNCHANGED vars
    <2>1. UNCHANGED <<store, tracked, box, task, queue, cycle>>
      BY <1>12 DEF vars, memory, device
    <2> QED
      BY <1>same, <2>1, StaysSettled DEF PodSettled
  <1> QED
    BY <1>3, <1>4, <1>5, <1>6, <1>7, <1>8, <1>9, <1>10, <1>11, <1>12 DEF Next, CycleNext

\* A pod that runs, is tracked and stored, and that nobody is at work on, stays so until a
\* user asks for something or a call fails: neither the reconcile cycle, whatever it listed
\* before, nor the cleaners, nor an update or a redeploy of other pods disturbs it.  That
\* every stored pod comes there is the other half of PodsConverge, which TLC checks.
PodStays ==
  [][\A p \in Pods : UNCHANGED <<edits, faults>> /\ PodSettled(p) => PodSettled(p)']_vars
THEOREM PodStaysTheorem == Spec => PodStays
  <1>1. PodInv /\ [Next]_vars =>
          \A p \in Pods : UNCHANGED <<edits, faults>> /\ PodSettled(p) => PodSettled(p)'
    BY SettledStep
  <1> QED
    BY <1>1, PodInitInv, PodNextInv, PTL DEF Spec, PodStays
=============================================================================
