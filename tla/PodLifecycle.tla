---------------------------- MODULE PodLifecycle ----------------------------
(***************************************************************************)
(* Pods and their containers (pkg/provider/provider.go, the pod handlers   *)
(* of api.go and the orphan cleaners of consistency.go).                   *)
(*                                                                         *)
(* Four threads create, replace and delete the container of a pod: the     *)
(* HTTP handler that holds the provider's mutex, the reconcile loop, the   *)
(* goroutine of an image redeploy and the callback of the lifecycle        *)
(* manager.  Only the first takes the mutex, so any two of them may work   *)
(* on one pod.  Each runs a task, a list of calls to the device; between   *)
(* two calls the other threads move.                                       *)
(*                                                                         *)
(* A pod has one container.  A specification stands for its image.         *)
(***************************************************************************)
EXTENDS Naturals, FiniteSets, Sequences

CONSTANTS
  Pods, Specs, NoSpec,
  MaxEdits,      \* requests of users
  MaxFaults,     \* calls that fail and containers that stop
  MaxThreads     \* threads that may work at the same time

ASSUME SpecAssumption == NoSpec \notin Specs
ASSUME PodsAssumption == IsFiniteSet(Pods)
ASSUME BoundAssumption == MaxEdits \in Nat /\ MaxFaults \in Nat /\ MaxThreads \in Nat

Threads == {"http", "reconcile", "redeploy", "failed"}
Dirs == {"main", "staging"}
Other(d) == IF d = "staging" THEN "main" ELSE "staging"
MaySpec == Specs \cup {NoSpec}

VARIABLES
  store,        \* the specification stored for each pod, or NoSpec
  tracked,      \* the one the provider tracks (p.pods), or NoSpec
  redeploying,  \* pods the reconcile loop must leave alone
  failures,     \* consecutive failed creations, up to two
  units,        \* pods whose container the lifecycle manager watches
  box,          \* container of the pod on the device, or NoBox
  staging,      \* root directory of the staging container of each pod, or "none"
  image,        \* image[p][d]: image extracted in the root directory d of p
  kept,         \* history: directories that could not be removed and were used as they were
  ports,        \* pods whose veth is on the device
  task,         \* what each thread does
  cycle,        \* the reconcile cycle: phase, pods stored and listed, pods left to visit
  queue,        \* pods the redeploy goroutine has left
  edits, faults,
  alone         \* history: pods on which two threads have never worked at once

device == <<box, staging, image, kept, ports>>
memory == <<tracked, redeploying, failures, units>>
vars == <<store, memory, device, task, cycle, queue, edits, faults, alone>>

NoBox == [spec |-> NoSpec, dir |-> "main", runs |-> FALSE]
Boxes == [spec : Specs, dir : Dirs, runs : BOOLEAN]

(* A task: the call to make next, the specification to install, the directory *)
(* being replaced, what follows a deletion, and whether removal has failed.   *)
Idle == [step |-> "idle"]
Task(p, s, step, then) ==
  [step |-> step, pod |-> p, spec |-> s, old |-> "main", then |-> then, bad |-> FALSE]
Asleep == [phase |-> "idle", want |-> [p \in Pods |-> NoSpec],
           seen |-> [p \in Pods |-> "none"], left |-> {}]

CreateSteps == {"clean", "net", "make", "start", "track"}
DeleteSteps == {"remove", "release", "untrack", "unstore"}
UpdateSteps == {"begin", "stage", "verify", "cut", "swap", "fallback"}
Tasks == [step : CreateSteps \cup DeleteSteps \cup UpdateSteps, pod : Pods, spec : Specs,
          old : Dirs, then : {"end", "recreate", "anyway", "create", "unstore"}, bad : BOOLEAN]

TypeOK ==
  /\ store \in [Pods -> MaySpec] /\ tracked \in [Pods -> MaySpec]
  /\ redeploying \subseteq Pods /\ units \subseteq Pods
  /\ failures \in [Pods -> 0 .. 2]
  /\ box \in [Pods -> Boxes \cup {NoBox}]
  /\ staging \in [Pods -> Dirs \cup {"none"}] /\ ports \subseteq Pods /\ alone \subseteq Pods
  /\ image \in [Pods -> [Dirs -> MaySpec]] /\ kept \subseteq Pods \X Dirs
  /\ task \in [Threads -> Tasks \cup {Idle}]
  /\ cycle \in [phase : {"idle", "list", "recover", "missing", "orphans", "stale", "update"},
                want : [Pods -> MaySpec],
                seen : [Pods -> {"none", "stopped", "running"}], left : SUBSET Pods]
  /\ queue \in Seq([pod : Pods, spec : Specs])
  /\ edits \in 0 .. MaxEdits /\ faults \in 0 .. MaxFaults

-----------------------------------------------------------------------------
(* Threads. *)

Queued == {queue[i].pod : i \in DOMAIN queue}
\* The threads that hold a copy of what they know of p.
Working(p) == {t \in Threads : task[t] # Idle /\ task[t].pod = p}
              \cup (IF cycle.phase = "idle" THEN {} ELSE {"reconcile"})
              \cup (IF p \in Queued THEN {"redeploy"} ELSE {})
Busy == {t \in Threads : task[t] # Idle}
        \cup (IF cycle.phase = "idle" THEN {} ELSE {"reconcile"})
        \cup (IF queue = <<>> THEN {} ELSE {"redeploy"})
MayStart(t) == t \in Busy \/ (task[t] = Idle /\ Cardinality(Busy) < MaxThreads)
At(t, s) == task[t].step = s
Go(t, s) == task' = [task EXCEPT ![t].step = s]
Start(t, tk) == /\ task' = [task EXCEPT ![t] = tk]
                /\ alone' = IF Working(tk.pod) \subseteq {t} THEN alone ELSE alone \ {tk.pod}
MayFault == faults < MaxFaults /\ faults' = faults + 1

\* The end of a task: what its thread does with the outcome.  flagged: the pods marked as
\* being redeployed when the task returns.
End(t, ok, flagged) ==
  /\ task' = [task EXCEPT ![t] = Idle]
  /\ failures' = IF t # "reconcile" \/ cycle.phase # "missing" THEN failures
                 ELSE [failures EXCEPT ![task[t].pod] =
                         IF ok THEN 0 ELSE IF @ < 2 THEN @ + 1 ELSE 2]
  /\ \/ t # "redeploy" /\ redeploying' = flagged /\ UNCHANGED queue
     \/ t = "redeploy" /\ redeploying' = flagged \ {Head(queue).pod} /\ queue' = Tail(queue)
     \* waitForPodLiveness gives up: the rollout halts (behind the last pod nothing changes)
     \/ t = "redeploy" /\ ok /\ redeploying' = flagged \ Queued /\ queue' = <<>>

\* A call failed: an update falls back to a deletion and a creation.
Fails(t) ==
  IF task[t].then = "recreate"
    THEN /\ Go(t, "fallback")
         /\ redeploying' = redeploying \ {task[t].pod}
         /\ UNCHANGED <<failures, queue>>
    ELSE End(t, FALSE, redeploying)

Rest == UNCHANGED <<store, cycle, edits, alone>>
OnDevice == Rest /\ UNCHANGED <<tracked, units, redeploying, failures, queue>>

-----------------------------------------------------------------------------
(* CreatePod. *)

Clean(t) ==
  LET p == task[t].pod IN
  /\ At(t, "clean") /\ Go(t, "net") /\ OnDevice
  /\ \/ box' = [box EXCEPT ![p] = NoBox] /\ UNCHANGED faults
     \/ box[p] # NoBox /\ MayFault /\ UNCHANGED box
  /\ UNCHANGED <<staging, image, kept, ports>>

Net(t) ==
  LET p == task[t].pod IN
  /\ At(t, "net")
  /\ \/ /\ Go(t, "make") /\ ports' = ports \cup {p}
        \* an address held by another veth: this one is released, by force if it is in use
        /\ box' \in {box, [box EXCEPT ![p] = NoBox]}
        /\ UNCHANGED <<redeploying, failures, queue, faults>>
     \/ MayFault /\ Fails(t) /\ UNCHANGED <<box, ports>>
  /\ Rest /\ UNCHANGED <<tracked, units, staging, image, kept>>

\* The device refuses a second container of the name, a root directory in use and an
\* interface that is not there; it extracts the image only into an empty directory.
CanMake(p, d) == box[p] = NoBox /\ staging[p] # d /\ p \in ports
Extracted(p, d, s) == IF image[p][d] = NoSpec THEN s ELSE image[p][d]
\* That a directory cannot be removed is logged, and its container is made over what is
\* left.  A fault stands for all that fails in one step.
ExtractAnew(p, d, s) ==
  \/ image' = [image EXCEPT ![p][d] = s] /\ kept' = kept \ {<<p, d>>} /\ UNCHANGED faults
  \/ image[p][d] # NoSpec /\ MayFault /\ kept' = kept \cup {<<p, d>>} /\ UNCHANGED image
Emptied(p, d) ==
  [image EXCEPT ![p][d] = IF staging[p] = d \/ (box'[p] # NoBox /\ box'[p].dir = d)
                            THEN @ ELSE NoSpec]

\* Mutant of Make: the root directory of the last container is left in place.
MakeOver(t) ==
  LET p == task[t].pod IN
  /\ At(t, "make")
  /\ \/ /\ CanMake(p, "main") /\ Go(t, "start")
        /\ image' = [image EXCEPT ![p]["main"] = Extracted(p, "main", task[t].spec)]
        /\ box' = [box EXCEPT ![p] = [spec |-> task[t].spec, dir |-> "main", runs |-> FALSE]]
        /\ UNCHANGED <<redeploying, failures, queue, faults>>
     \/ (~CanMake(p, "main") /\ Fails(t) /\ UNCHANGED <<box, image, faults>>)
     \/ MayFault /\ Fails(t) /\ UNCHANGED <<box, image>>
  /\ Rest /\ UNCHANGED <<tracked, units, staging, kept, ports>>
Make(t) ==
  LET p == task[t].pod IN
  /\ At(t, "make")
  /\ \/ /\ CanMake(p, "main") /\ Go(t, "start") /\ ExtractAnew(p, "main", task[t].spec)
        /\ box' = [box EXCEPT ![p] = [spec |-> task[t].spec, dir |-> "main", runs |-> FALSE]]
        /\ UNCHANGED <<redeploying, failures, queue>>
     \/ /\ ~CanMake(p, "main") /\ Fails(t) /\ UNCHANGED <<box, kept, faults>>
        /\ image' = Emptied(p, "main")
     \/ /\ MayFault /\ Fails(t) /\ UNCHANGED <<box, kept>>
        /\ image' \in {image, Emptied(p, "main")}
  /\ Rest /\ UNCHANGED <<tracked, units, staging, ports>>

\* Also the end of a cutover.  waitForStopped fails when the container is gone, and gives
\* up when another thread has started it.
StartBox(t) ==
  LET p == task[t].pod IN
  /\ At(t, "start")
  /\ \/ /\ box[p] # NoBox /\ ~box[p].runs /\ Go(t, "track")
        /\ box' = [box EXCEPT ![p].runs = TRUE]
        /\ units' = units \cup {p}
        /\ UNCHANGED <<redeploying, failures, queue, faults>>
     \/ (box[p] = NoBox \/ box[p].runs) /\ Fails(t) /\ UNCHANGED <<box, units, faults>>
     \/ MayFault /\ Fails(t) /\ UNCHANGED <<box, units>>
  /\ Rest /\ UNCHANGED <<tracked, staging, image, kept, ports>>

Track(t) ==
  LET p == task[t].pod IN
  /\ At(t, "track")
  /\ tracked' = [tracked EXCEPT ![p] = task[t].spec]
  /\ End(t, TRUE, IF task[t].then = "recreate" THEN redeploying \ {p} ELSE redeploying)
  /\ Rest /\ UNCHANGED <<units, device, faults>>

-----------------------------------------------------------------------------
(* DeletePod.  Its first call, Unregister, is part of the step that starts it. *)

Remove(t) ==
  LET p == task[t].pod IN
  /\ At(t, "remove") /\ OnDevice
  /\ \/ box' = [box EXCEPT ![p] = NoBox] /\ Go(t, "release") /\ UNCHANGED faults
     \* the container is not found, which is no error, or cannot be removed
     \/ /\ box[p] # NoBox /\ MayFault /\ UNCHANGED box
        /\ \E bad \in BOOLEAN :
             task' = [task EXCEPT ![t].step = "release", ![t].bad = bad]
  /\ UNCHANGED <<staging, image, kept, ports>>

Release(t) ==
  LET p == task[t].pod IN
  /\ At(t, "release") /\ Go(t, "untrack") /\ OnDevice
  /\ \/ ports' = (IF box[p] = NoBox THEN ports \ {p} ELSE ports) /\ UNCHANGED faults
     \/ p \in ports /\ MayFault /\ UNCHANGED ports
  /\ UNCHANGED <<box, staging, image, kept>>

Untrack(t) ==
  LET p == task[t].pod
      tk == task[t] IN
  /\ At(t, "untrack")
  /\ tracked' = [tracked EXCEPT ![p] = NoSpec]
  /\ \/ /\ tk.then = "unstore" /\ ~tk.bad
        /\ Go(t, "unstore") /\ UNCHANGED <<redeploying, failures, queue>>
     \/ /\ tk.then = "anyway" \/ (tk.then = "create" /\ ~tk.bad)
        /\ task' = [task EXCEPT ![t] = Task(p, tk.spec, "clean", "end")]
        /\ UNCHANGED <<redeploying, failures, queue>>
     \/ tk.then \in {"unstore", "create"} /\ tk.bad /\ End(t, FALSE, redeploying)
  /\ Rest /\ UNCHANGED <<units, device, faults>>

Unstore(t) ==
  /\ At(t, "unstore")
  /\ \/ store' = [store EXCEPT ![task[t].pod] = NoSpec] /\ UNCHANGED faults
     \/ MayFault /\ UNCHANGED store
  /\ End(t, TRUE, redeploying)
  /\ UNCHANGED <<cycle, edits, alone, tracked, units, device>>

-----------------------------------------------------------------------------
(* UpdatePod: the new image is extracted and tried in a staging container    *)
(* before the old container is replaced.                                     *)

BeginUpdate(t) ==
  LET p == task[t].pod IN
  /\ At(t, "begin")
  /\ \/ /\ box[p] # NoBox /\ p \in ports
        /\ redeploying' = redeploying \cup {p}
        /\ task' = [task EXCEPT ![t].step = "stage", ![t].old = box[p].dir]
        /\ UNCHANGED <<failures, queue, faults>>
     \/ (box[p] = NoBox \/ p \notin ports) /\ Fails(t) /\ UNCHANGED faults
     \/ MayFault /\ Fails(t)
  /\ Rest /\ UNCHANGED <<tracked, units, device>>

Stage(t) ==
  LET p == task[t].pod
      d == Other(task[t].old)
      used == box[p] # NoBox /\ box[p].dir = d IN
  /\ At(t, "stage")
  /\ \/ /\ ~used /\ Go(t, "verify") /\ ExtractAnew(p, d, task[t].spec)
        /\ staging' = [staging EXCEPT ![p] = d]
        /\ UNCHANGED <<redeploying, failures, queue>>
     \/ /\ used /\ Fails(t)
        /\ staging' = [staging EXCEPT ![p] = "none"] /\ UNCHANGED <<image, kept, faults>>
     \* the extraction or the start fails
     \/ /\ ~used /\ MayFault /\ Fails(t) /\ UNCHANGED kept
        /\ staging' \in {[staging EXCEPT ![p] = x] : x \in {"none", d}}
        /\ image' \in {image, [image EXCEPT ![p][d] =
                                 IF staging'[p] = "none" THEN NoSpec ELSE task[t].spec]}
  /\ Rest /\ UNCHANGED <<tracked, units, box, ports>>

\* The staging container runs: it goes, its directory stays.
Verify(t) ==
  LET p == task[t].pod IN
  /\ At(t, "verify")
  /\ \/ /\ staging[p] # "none" /\ Go(t, "cut")
        /\ \/ staging' = [staging EXCEPT ![p] = "none"] /\ UNCHANGED faults
           \/ MayFault /\ UNCHANGED staging
        /\ UNCHANGED <<redeploying, failures, queue>>
     \/ staging[p] = "none" /\ Fails(t) /\ UNCHANGED <<staging, faults>>
     \/ MayFault /\ Fails(t) /\ UNCHANGED staging
  /\ Rest /\ UNCHANGED <<tracked, units, box, image, kept, ports>>

\* The old container, its veth and its directory go; the veth is made anew.
Cut(t) ==
  LET p == task[t].pod
      gone == [image EXCEPT ![p][task[t].old] =
                 IF box'[p] # NoBox /\ box'[p].dir = task[t].old THEN @ ELSE NoSpec] IN
  /\ At(t, "cut")
  /\ units' = units \ {p}
  /\ \/ /\ box' = [box EXCEPT ![p] = NoBox] /\ image' = gone
        /\ ports' = ports \cup {p} /\ Go(t, "swap")
        /\ UNCHANGED <<redeploying, failures, queue, faults>>
     \* the container or the directory stays
     \/ /\ MayFault /\ box' \in {box, [box EXCEPT ![p] = NoBox]} /\ image' \in {image, gone}
        /\ ports' = ports \cup {p} /\ Go(t, "swap")
        /\ UNCHANGED <<redeploying, failures, queue>>
     \/ /\ MayFault /\ box' = [box EXCEPT ![p] = NoBox] /\ image' \in {image, gone}
        /\ ports' = ports \ {p} /\ Fails(t)
  /\ Rest /\ UNCHANGED <<tracked, staging, kept>>

Swap(t) ==
  LET p == task[t].pod
      d == Other(task[t].old) IN
  /\ At(t, "swap")
  /\ \/ /\ CanMake(p, d) /\ Go(t, "start")
        /\ box' = [box EXCEPT ![p] = [spec |-> task[t].spec, dir |-> d, runs |-> FALSE]]
        /\ image' = [image EXCEPT ![p][d] = Extracted(p, d, task[t].spec)]
        /\ UNCHANGED <<redeploying, failures, queue, faults>>
     \/ ~CanMake(p, d) /\ Fails(t) /\ UNCHANGED <<box, image, faults>>
     \/ MayFault /\ Fails(t) /\ UNCHANGED <<box, image>>
  /\ Rest /\ UNCHANGED <<tracked, units, staging, kept, ports>>

Fallback(t) ==
  LET p == task[t].pod IN
  /\ At(t, "fallback")
  /\ staging' = [staging EXCEPT ![p] = "none"]
  /\ units' = units \ {p}
  /\ task' = [task EXCEPT ![t] = Task(p, task[t].spec, "remove", "anyway")]
  /\ Rest /\ UNCHANGED <<tracked, redeploying, failures, queue, box, image, kept, ports, faults>>

-----------------------------------------------------------------------------
(* The reconcile loop. *)

Free == task["reconcile"] = Idle
Phase(s) == cycle.phase = s /\ Free
Visit(p) == p \in cycle.left

Load ==
  /\ cycle = Asleep /\ MayStart("reconcile")
  /\ cycle' = [Asleep EXCEPT !.phase = "list", !.want = store]
  /\ alone' = {p \in alone : Working(p) = {}}
  /\ UNCHANGED <<store, memory, device, task, queue, edits, faults>>

Seen(p) == IF box[p] = NoBox THEN "none" ELSE IF box[p].runs THEN "running" ELSE "stopped"
List ==
  /\ Phase("list")
  /\ cycle' = [cycle EXCEPT !.phase = "recover", !.seen = [p \in Pods |-> Seen(p)],
                            !.left = Pods]
  /\ UNCHANGED <<store, memory, device, task, queue, edits, faults, alone>>

\* Step 2c: a container listed as stopped is started, or removed to be created again.
Recover(p) ==
  /\ Phase("recover") /\ Visit(p)
  /\ \/ /\ cycle.seen[p] # "stopped" \/ cycle.want[p] = NoSpec
        /\ cycle' = [cycle EXCEPT !.left = @ \ {p}]
        /\ UNCHANGED <<tracked, box, faults>>
     \/ /\ cycle.seen[p] = "stopped" /\ cycle.want[p] # NoSpec /\ box[p] # NoBox
        /\ cycle' = [cycle EXCEPT !.left = @ \ {p}, !.seen[p] = "running"]
        /\ box' = [box EXCEPT ![p].runs = TRUE]
        /\ UNCHANGED <<tracked, faults>>
     \/ /\ cycle.seen[p] = "stopped" /\ cycle.want[p] # NoSpec
        /\ cycle' = [cycle EXCEPT !.left = @ \ {p}, !.seen[p] = "none"]
        /\ \/ box[p] = NoBox /\ UNCHANGED faults
           \/ MayFault
        /\ box' = [box EXCEPT ![p] = NoBox]
        /\ tracked' = [tracked EXCEPT ![p] = NoSpec]
  /\ UNCHANGED <<store, redeploying, failures, units, staging, image, kept, ports, task, queue,
                 edits, alone>>

\* Step 3: create the missing pods, track the others.
Skip3(p) == cycle.want[p] = NoSpec \/ tracked[p] # NoSpec \/ p \in redeploying
Missing(p) ==
  /\ Phase("missing") /\ Visit(p)
  /\ cycle' = [cycle EXCEPT !.left = @ \ {p}]
  /\ \/ Skip3(p) /\ UNCHANGED <<tracked, ports, task, alone>>
     \/ /\ ~Skip3(p) /\ cycle.seen[p] = "none"
        /\ ports' = IF failures[p] = 2 /\ box[p] = NoBox THEN ports \ {p} ELSE ports
        /\ Start("reconcile", Task(p, cycle.want[p], "clean", "end"))
        /\ UNCHANGED tracked
     \/ /\ ~Skip3(p) /\ cycle.seen[p] # "none"
        /\ tracked' = [tracked EXCEPT ![p] = cycle.want[p]]
        /\ UNCHANGED <<ports, task, alone>>
  /\ UNCHANGED <<store, redeploying, failures, units, box, staging, image, kept, queue, edits,
                 faults>>

\* Step 3b: tracked pods whose container was not in the listing are created again.
\* Mutant of Orphaned: only pods that some update owns are looked at.
OrphanedMarked(p) == tracked[p] # NoSpec /\ p \in redeploying /\ cycle.seen[p] = "none"
Orphaned(p) == tracked[p] # NoSpec /\ p \notin redeploying /\ cycle.seen[p] = "none"
Orphan(p) ==
  /\ Phase("orphans") /\ Visit(p)
  /\ cycle' = [cycle EXCEPT !.left = @ \ {p}]
  /\ \/ ~Orphaned(p) /\ UNCHANGED <<tracked, task, alone>>
     \/ /\ Orphaned(p)
        /\ tracked' = [tracked EXCEPT ![p] = NoSpec]
        /\ Start("reconcile", Task(p, tracked[p], "clean", "end"))
  /\ UNCHANGED <<store, redeploying, failures, units, device, queue, edits, faults>>

\* Steps 3a, 3c and 5: pods whose image or config map has changed are updated, from a copy
\* taken now; a rollout may halt.
Stale(s) ==
  /\ Phase("stale")
  /\ s \subseteq {p \in Pods : tracked[p] # NoSpec /\ p \notin redeploying}
  /\ \/ s = {} /\ UNCHANGED edits
     \/ s # {} /\ edits < MaxEdits /\ edits' = edits + 1
  /\ cycle' = [cycle EXCEPT !.phase = "update", !.want = tracked, !.left = s]
  /\ UNCHANGED <<store, memory, device, task, queue, faults, alone>>

UpdateStale(p) ==
  /\ Phase("update") /\ Visit(p)
  /\ \E left \in {{}, cycle.left \ {p}} : cycle' = [cycle EXCEPT !.left = left]
  /\ Start("reconcile", Task(p, cycle.want[p], "begin", "recreate"))
  /\ UNCHANGED <<store, memory, device, queue, edits, faults>>

NextPhase ==
  /\ Free /\ cycle.left = {}
  /\ \/ cycle.phase = "recover" /\ cycle' = [cycle EXCEPT !.phase = "missing", !.left = Pods]
     \/ cycle.phase = "missing" /\ cycle' = [cycle EXCEPT !.phase = "orphans", !.left = Pods,
                                                             !.want = Asleep.want]
     \/ cycle.phase = "orphans" /\ cycle' = [Asleep EXCEPT !.phase = "stale"]
     \/ cycle.phase = "update" /\ cycle' = Asleep
  /\ UNCHANGED <<store, memory, device, task, queue, edits, faults, alone>>

-----------------------------------------------------------------------------
(* Requests.  Handlers hold the mutex to their end, so one runs at a time. *)

Request == MayStart("http") /\ task["http"] = Idle /\ edits < MaxEdits /\ edits' = edits + 1
Known(p) == IF tracked[p] # NoSpec THEN tracked[p] ELSE store[p]     \* GetPod

CreatePod(p, s) ==
  /\ Request /\ Known(p) = NoSpec
  /\ store' = [store EXCEPT ![p] = s]
  /\ Start("http", Task(p, s, "clean", "end"))
  /\ UNCHANGED <<memory, device, cycle, queue, faults>>

UpdatePod(p, s) ==
  /\ Request /\ Known(p) # NoSpec
  /\ store' = [store EXCEPT ![p] = s]
  /\ Start("http", Task(p, s, "begin", "recreate"))
  /\ UNCHANGED <<memory, device, cycle, queue, faults>>

DeletePod(p) ==
  /\ Request /\ Known(p) # NoSpec
  /\ units' = units \ {p}
  /\ Start("http", Task(p, Known(p), "remove", "unstore"))
  /\ UNCHANGED <<store, tracked, redeploying, failures, device, cycle, queue, faults>>

\* A patched config map updates its pods within the request.
PatchConfigMap(p) ==
  /\ Request /\ tracked[p] # NoSpec
  /\ Start("http", Task(p, tracked[p], "begin", "recreate"))
  /\ UNCHANGED <<store, memory, device, cycle, queue, faults>>

\* A redeploy marks all its pods and hands them to a goroutine.
Orders(s) == {q \in [1 .. Cardinality(s) -> s] : \A i, j \in DOMAIN q : q[i] = q[j] => i = j}
RedeployImage ==
  /\ Request /\ queue = <<>> /\ Cardinality(Busy) < MaxThreads
  /\ LET targets == {p \in Pods : tracked[p] # NoSpec} IN
     /\ targets # {}
     /\ \E q \in Orders(targets) :
          queue' = [i \in DOMAIN q |-> [pod |-> q[i], spec |-> tracked[q[i]]]]
     /\ redeploying' = redeploying \cup targets
     /\ alone' = {p \in alone : p \in targets => Working(p) = {}}
  /\ UNCHANGED <<store, tracked, failures, units, device, task, cycle, faults>>

\* It works on the copies the request took.
RedeployNext ==
  /\ queue # <<>> /\ task["redeploy"] = Idle
  /\ Start("redeploy", Task(Head(queue).pod, Head(queue).spec, "begin", "recreate"))
  /\ UNCHANGED <<store, memory, device, cycle, queue, edits, faults>>

-----------------------------------------------------------------------------
(* The rest of the node. *)

\* A container stops; the watchdog starts those it knows.
Stop(p) ==
  /\ box[p].runs /\ MayFault
  /\ box' = [box EXCEPT ![p].runs = FALSE]
  /\ UNCHANGED <<store, memory, staging, image, kept, ports, task, cycle, queue, edits, alone>>
KeepAlive(p) ==
  /\ p \in units /\ box[p] # NoBox /\ ~box[p].runs
  /\ box' = [box EXCEPT ![p].runs = TRUE]
  /\ UNCHANGED <<store, memory, staging, image, kept, ports, task, cycle, queue, edits, faults,
                 alone>>

\* It gives up on one: handleLifecycleFailed deletes the pod and creates it again.
GiveUp(p) ==
  /\ p \in units /\ tracked[p] # NoSpec /\ p \notin redeploying
  /\ task["failed"] = Idle /\ MayStart("failed") /\ MayFault
  /\ units' = units \ {p}
  /\ Start("failed", Task(p, tracked[p], "remove", "create"))
  /\ UNCHANGED <<store, tracked, redeploying, failures, device, cycle, queue, edits>>

\* The consistency checker removes what no tracked or stored pod accounts for.  The names
\* it expects are those of production containers and veths.
Unwanted(p) == tracked[p] = NoSpec /\ store[p] = NoSpec
Cleaned(p) == alone' = IF Working(p) = {} THEN alone ELSE alone \ {p}
CleanContainer(p) ==
  /\ Unwanted(p) /\ box[p] # NoBox
  /\ box' = [box EXCEPT ![p] = NoBox] /\ Cleaned(p)
  /\ UNCHANGED <<store, memory, staging, image, kept, ports, task, cycle, queue, edits, faults>>
CleanStaging(p) ==
  /\ staging[p] # "none"
  /\ staging' = [staging EXCEPT ![p] = "none"] /\ Cleaned(p)
  /\ UNCHANGED <<store, memory, box, image, kept, ports, task, cycle, queue, edits, faults>>
CleanPort(p) ==
  /\ Unwanted(p) /\ p \in ports /\ box[p] = NoBox
  /\ ports' = ports \ {p} /\ Cleaned(p)
  /\ UNCHANGED <<store, memory, box, staging, image, kept, task, cycle, queue, edits, faults>>

-----------------------------------------------------------------------------
(* mkube starts: the device and the store are as the last run left them, *)
(* with the containers of stored pods in either root directory, or gone. *)
Init ==
  /\ store \in [Pods -> MaySpec]
  /\ box \in [Pods -> Boxes \cup {NoBox}]
  /\ \A p \in Pods : box[p] # NoBox => box[p].spec = store[p] /\ box[p].runs
  /\ image = [p \in Pods |-> [d \in Dirs |->
               IF box[p] # NoBox /\ box[p].dir = d THEN box[p].spec ELSE NoSpec]]
  /\ ports = {p \in Pods : box[p] # NoBox}
  /\ tracked = [p \in Pods |-> NoSpec] /\ failures = [p \in Pods |-> 0]
  /\ redeploying = {} /\ units = {} /\ alone = Pods
  /\ staging = [p \in Pods |-> "none"] /\ kept = {}
  /\ task = [t \in Threads |-> Idle] /\ cycle = Asleep /\ queue = <<>>
  /\ edits = 0 /\ faults = 0

CreateNext(t) == Clean(t) \/ Net(t) \/ Make(t) \/ StartBox(t) \/ Track(t)
DeleteNext(t) == Remove(t) \/ Release(t) \/ Untrack(t) \/ Unstore(t)
UpdateNext(t) == BeginUpdate(t) \/ Stage(t) \/ Verify(t) \/ Cut(t) \/ Swap(t) \/ Fallback(t)
ThreadNext(t) == CreateNext(t) \/ DeleteNext(t) \/ UpdateNext(t)
CycleNext ==
  \/ Load \/ List \/ NextPhase \/ \E s \in SUBSET Pods : Stale(s)
  \/ \E p \in Pods : Recover(p) \/ Missing(p) \/ Orphan(p) \/ UpdateStale(p)
CleanNext == \E p \in Pods : CleanContainer(p) \/ CleanStaging(p) \/ CleanPort(p)
UserNext ==
  \/ RedeployImage
  \/ \E p \in Pods : DeletePod(p) \/ PatchConfigMap(p)
                   \/ \E s \in Specs : CreatePod(p, s) \/ UpdatePod(p, s)
Next ==
  \/ \E t \in Threads : ThreadNext(t)
  \/ CycleNext \/ RedeployNext \/ CleanNext \/ UserNext
  \/ \E p \in Pods : Stop(p) \/ KeepAlive(p) \/ GiveUp(p)

Fairness ==
  /\ \A t \in Threads : WF_vars(ThreadNext(t))
  /\ WF_vars(CycleNext) /\ WF_vars(RedeployNext)
  /\ \A p \in Pods : WF_vars(CleanContainer(p))
Spec == Init /\ [][Next]_vars

-----------------------------------------------------------------------------
(* Properties. *)

\* Where threads have not met on a pod, its container runs from the image of its own
\* specification, through updates that alternate between the two root directories, failed
\* updates and deletions, unless the directory it runs in could not be removed before it was
\* made: a failing RemoveDirectory is only logged (provider.go:384, 743, 841).
RunsItsImage ==
  \A p \in alone :
    box[p].runs /\ <<p, box[p].dir>> \notin kept => image[p][box[p].dir] = box[p].spec

\* When users and failures are done, every stored pod comes to run, and keeps running,
\* whatever order the threads met in.
PodsConverge == <>[](\A p \in Pods : store[p] # NoSpec => tracked[p] # NoSpec /\ box[p].runs)
=============================================================================
