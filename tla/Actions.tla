-------------------------------- MODULE Actions --------------------------------
(***************************************************************************)
(* A request on its way: a browser's detail panel (NodeDetailPanel.tsx)    *)
(* sends it, the hub filters, audits and forwards it (server.go), the      *)
(* agent handles it in a goroutine of its own (ws_agent.go), an executor   *)
(* of pkg/actions makes its calls one after the other, and the answer goes *)
(* to the browsers.  Requests run concurrently: nothing serialises two     *)
(* that have one target.                                                   *)
(*                                                                         *)
(* Docker, the Kubernetes API and its deployment controller, and the file  *)
(* system are modelled as far as the executors use them.  A call that      *)
(* fails, or never returns, has had no effect.                             *)
(***************************************************************************)
EXTENDS ActionTypes, FiniteSetsExt

CONSTANTS
  Requests,       \* requests, each sent at most once
  Browsers,       \* open detail panels
  Menus,          \* what the requests may ask for together: a pair of a kind and a type each
  Blocks,         \* pieces of a downloaded binary
  Items,          \* objects of a manifest, or pods of a drained node
  FirstRevision,  \* number of the older of the deployment's two past revisions
  MaxFaults,      \* bound on the calls that fail or hang
  None

ASSUME ActionsAssumption ==
  /\ Menus \subseteq [Requests -> Asks] /\ None \notin Requests \cup Browsers \cup {"success", "failed"}
  /\ Blocks \in Nat \ {0} /\ Items \in Nat /\ FirstRevision \in Nat /\ MaxFaults \in Nat

VARIABLES
  req,         \* req[r]: a request, see Init
  panels,      \* panels[b]: the request a panel sent last, what it shows and whose answer it is
  timers,      \* the requests whose 60-second timer is armed
  readOnly,    \* the session is read-only
  online,      \* the session has an agent connection
  audited,     \* the requests in the audit log
  touched,     \* history: the requests an executor made a call for, logs apart
  box,         \* Docker's containers
  ports,       \* the containers publish a port: only one of them can run
  crossed,     \* history: two updates of one container, or of the agent, overlapped
  objects,     \* objects[k]: version and fields of the Kubernetes object of kind k
  lastPut,     \* history: lastPut[k][f]: the request that last wrote a field
  rollout,     \* the deployment controller's side of the deployment
  forwards,    \* live port-forwards, and the one registered under the key
  files,       \* the agent's binary and its temporary file
  restarting,  \* a new binary was installed: the service is about to be restarted
  faults       \* calls that have failed or hang

docker == <<box, ports, crossed>>
kube == <<objects, lastPut, rollout>>
host == <<files, restarting>>
browser == <<panels, timers>>
hub == <<readOnly, online, audited>>
vars == <<req, browser, hub, touched, docker, kube, forwards, host, faults>>

Type(r) == req[r].type
Stage(r) == req[r].stage
At(r, s) == Stage(r) = "agent" /\ req[r].step = s

NumberedKinds == {EditedKind[t] : t \in DOMAIN EditedKind}
FieldsOf(kind) ==
  CASE kind = "deployment" -> {"image", "restartedAt", "replicas"}
    [] kind = "statefulset" -> {"replicas"}
    [] kind = "node" -> {"unschedulable"}
    [] OTHER -> {"data"}
Template(fields) == <<fields.image, fields.restartedAt>>

\* Three revisions of the deployment; the last is rolled out.
Past(i) == [image |-> None, restartedAt |-> i]
Current == FirstRevision + 2

Init ==
  /\ \E asks \in Menus, from \in [Requests -> Browsers] :
       req = [r \in Requests |->
         [kind |-> asks[r][1], type |-> asks[r][2], from |-> from[r], stage |-> "unsent",
          step |-> "arrived", verdict |-> None, target |-> None, seen |-> None, left |-> 0,
          to |-> {}]]
  /\ panels = [b \in Browsers |-> [own |-> None, shows |-> "idle", of |-> None]]
  /\ timers = {}
  /\ readOnly \in BOOLEAN
  /\ online \in BOOLEAN
  /\ audited = {}
  /\ touched = {}
  /\ box = {[id |-> None, name |-> 0, image |-> None, up |-> TRUE]}
  /\ ports \in BOOLEAN
  /\ crossed = FALSE
  /\ objects = [k \in NumberedKinds |->
       [version |-> 0, fields |-> [f \in FieldsOf(k) |-> IF f = "restartedAt" THEN 2 ELSE None]]]
  /\ lastPut = [k \in NumberedKinds |-> objects[k].fields]
  /\ rollout = [generation |-> 0, observed |-> 0, done |-> TRUE, revision |-> Current,
                sets |-> [v \in FirstRevision..Current |-> Template(Past(v - FirstRevision))],
                pods |-> Template(Past(2))]
  /\ forwards = [live |-> {}, key |-> None]
  /\ files = [exe |-> None, tmp |-> None,
              body |-> [i \in Requests \cup {None} |-> [n \in 1..Blocks |-> "good"]]]
  /\ restarting = FALSE
  /\ faults = 0

Goto(r, s) == req' = [req EXCEPT ![r].step = s]
GotoWith(r, s, seen) == req' = [req EXCEPT ![r].step = s, ![r].seen = seen]
\* sendActionResult: the hub broadcasts the answer.
Answer(r, ok) ==
  req' = [req EXCEPT ![r].stage = "answered", ![r].verdict = IF ok THEN "success" ELSE "failed",
                     ![r].to = Browsers]
Fault == faults < MaxFaults /\ faults' = faults + 1

-----------------------------------------------------------------------------
\* The panel.

\* handleSubmit, or openAction for a request that only reads; armTimeout.
Send(r) ==
  /\ Stage(r) = "unsent"
  /\ \E c \in box :
       req' = [req EXCEPT ![r].stage = "hub", ![r].target = c.id]
  /\ panels' = [panels EXCEPT ![req[r].from] = [own |-> r, shows |-> "running", of |-> None]]
  /\ timers' = timers \cup {r}
  /\ UNCHANGED <<hub, touched, docker, kube, forwards, host, faults>>

\* subscribeActionResult: every panel takes every answer that reaches its
\* browser for its own.  Log lines alone are looked up by their request.
Deliver(r) ==
  LET shown == IF Type(r) \in readOnlySafeActions
                 THEN {b \in Browsers : panels[b].own = r} ELSE req[r].to
  IN /\ Stage(r) = "answered"
     /\ req' = [req EXCEPT ![r].stage = "shown"]
     /\ panels' = [b \in Browsers |->
          IF b \in shown THEN [panels[b] EXCEPT !.shows = req[r].verdict, !.of = r] ELSE panels[b]]
     /\ timers' = timers \ {panels[b].own : b \in shown}
     /\ UNCHANGED <<hub, touched, docker, kube, forwards, host, faults>>

\* "No response from agent": only the timer armed last was ever cleared.
TimesOut(r) ==
  /\ r \in timers
  /\ timers' = timers \ {r}
  /\ panels' = [panels EXCEPT ![req[r].from].shows = "timeout", ![req[r].from].of = None]
  /\ UNCHANGED <<req, hub, touched, docker, kube, forwards, host, faults>>

-----------------------------------------------------------------------------
\* The hub: handleBrowserMessage.

HubRejects(r) ==
  /\ Stage(r) = "hub" /\ readOnly /\ Type(r) \notin readOnlySafeActions
  /\ req' = [req EXCEPT ![r].stage = "answered", ![r].verdict = "failed", ![r].to = {req[r].from}]
  /\ UNCHANGED <<browser, hub, touched, docker, kube, forwards, host, faults>>

\* Mutant: read-only mode lets every request of the Kubernetes layer through.
HubForwardsMore(r) ==
  /\ Stage(r) = "hub" /\ (readOnly => Type(r) \in readOnlySafeActions \cup DOMAIN EditedKind)
  /\ audited' = IF Type(r) \in readOnlySafeActions THEN audited ELSE audited \cup {r}
  /\ req' = [req EXCEPT ![r].stage = IF online THEN "agent" ELSE "dropped"]
  /\ UNCHANGED <<browser, readOnly, online, touched, docker, kube, forwards, host, faults>>

\* Without an agent connection the request is dropped, and nobody is told.
HubForwards(r) ==
  /\ Stage(r) = "hub" /\ (readOnly => Type(r) \in readOnlySafeActions)
  /\ audited' = IF Type(r) \in readOnlySafeActions THEN audited ELSE audited \cup {r}
  /\ req' = [req EXCEPT ![r].stage = IF online THEN "agent" ELSE "dropped"]
  /\ UNCHANGED <<browser, readOnly, online, touched, docker, kube, forwards, host, faults>>

-----------------------------------------------------------------------------
\* handleActionRequest, ExecuteAction and ValidateAction.

Operation(kind, type) ==
  LET t == mapFrontendActionType(type)
  IN  IF type \in readOnlySafeActions THEN "logs"
      ELSE IF type = "k8s_port_forward" THEN "forward"
      ELSE IF type = "k8s_stop_port_forward" THEN "unforward"
      ELSE IF ~Known(kind, type) THEN "refused"
      ELSE CASE t = "docker_update_image" -> "inspect"
             [] t = "update_agent" -> "sums"
             [] t = "k8s_apply_manifest" -> "batch"
             [] t \in Edits -> "read"
             [] OTHER -> "calls"

Operating(r) == Stage(r) = "agent" /\ req[r].step # "arrived"
Replaces(r) == Type(r) \in {"docker_update_container_image", "update_agent"}

Dispatch(r) ==
  LET op == Operation(req[r].kind, Type(r)) IN
  /\ At(r, "arrived")
  /\ IF op = "refused" THEN Answer(r, FALSE)
     ELSE req' = [req EXCEPT ![r].step = op,
                    ![r].left = CASE op = "calls" -> Calls(Type(r))
                                  [] op \in {"batch", "logs"} -> Items
                                  [] OTHER -> 0]
  /\ touched' = IF op \in {"refused", "logs"} THEN touched ELSE touched \cup {r}
  /\ crossed' = (crossed \/ (Replaces(r) /\ \E q \in Requests \ {r} :
                               Operating(q) /\ Type(q) = Type(r)))
  /\ UNCHANGED <<browser, hub, box, ports, kube, forwards, host, faults>>

\* A call of these steps fails, or its executor is missing: the action ends.
EndingSteps == {"calls", "inspect", "pull", "read", "list", "put", "wait", "forward", "sums", "logs"}
CallFails(r) ==
  /\ Operating(r)
  /\ req[r].step \in EndingSteps \/ (req[r].step = "batch" /\ req[r].left = Items)
  /\ Fault
  /\ Answer(r, FALSE)
  /\ UNCHANGED <<browser, hub, touched, docker, kube, forwards, host>>

\* Most calls have no time-out: the context is the agent's own.  One that never
\* returns keeps its request where it is until the agent is restarted.
UntimedSteps == {"calls", "batch", "inspect", "stop", "rename", "create", "start", "removeOld",
  "removeNew", "renameBack", "startBack", "read", "list", "put", "forward"}
CallHangs(r) ==
  /\ Operating(r) /\ req[r].step \in UntimedSteps
  /\ Fault
  /\ Goto(r, "hung")
  /\ UNCHANGED <<browser, hub, touched, docker, kube, forwards, host>>

Old(r) == {c \in box : c.id = req[r].target}
Setting(cs, up) == (box \ cs) \cup {[c EXCEPT !.up = up] : c \in cs}
CannotStart(cs) == cs = {} \/ (ports /\ \E c \in box \ cs : c.up)

\* Whether a container is to run after one of these; starting what runs, and
\* stopping what does not, is no error.
Switches ==
  [t \in {"docker_start_container", "docker_restart_container", "docker_stop_container"} |->
     t # "docker_stop_container"]

\* The calls of a plain action: one call switches a container.
SwitchReturns(r) ==
  LET up == Switches[Type(r)]
      refused == IF up THEN CannotStart(Old(r)) ELSE Old(r) = {}
  IN  /\ At(r, "calls") /\ Type(r) \in DOMAIN Switches
      /\ Answer(r, ~refused)
      /\ box' = IF refused THEN box ELSE Setting(Old(r), up)
      /\ UNCHANGED <<browser, hub, touched, ports, crossed, kube, forwards, host, faults>>
CallReturns(r) ==
  /\ At(r, "calls") /\ Type(r) \notin DOMAIN Switches
  /\ IF req[r].left = 1 THEN Answer(r, TRUE) ELSE req' = [req EXCEPT ![r].left = @ - 1]
  /\ UNCHANGED <<browser, hub, touched, docker, kube, forwards, host, faults>>

\* applyManifest, and drainNode once the node is cordoned: a pod is evicted, an
\* object stays as it was or is not one of these; one that fails is passed over.
\* A manifest fails when nothing of it was applied, a drain of listed pods never does.
BatchItem(r) ==
  /\ At(r, "batch") /\ req[r].left > 0
  /\ \/ req' = [req EXCEPT ![r].left = @ - 1, ![r].seen = "applied"] /\ UNCHANGED faults
     \/ req' = [req EXCEPT ![r].left = @ - 1] /\ Fault
  /\ UNCHANGED <<browser, hub, touched, docker, kube, forwards, host>>

\* An object of the manifest that exists: its fields are set whatever its version,
\* by a forced server-side apply.
Applies(r) ==
  /\ At(r, "batch") /\ req[r].left > 0 /\ Type(r) = "k8s_apply_manifest"
  /\ \E k \in NumberedKinds : \E fs \in SUBSET FieldsOf(k) :
       LET Set(fields) == [f \in FieldsOf(k) |-> IF f \in fs THEN r ELSE fields[f]]
       IN  /\ Set(objects[k].fields) # objects[k].fields
           /\ objects' = [objects EXCEPT ![k] = [version |-> @.version + 1, fields |-> Set(@.fields)]]
           /\ lastPut' = [lastPut EXCEPT ![k] = Set(@)]
           /\ rollout' = IF k = "deployment" THEN [rollout EXCEPT !.generation = @ + 1] ELSE rollout
  /\ req' = [req EXCEPT ![r].left = @ - 1, ![r].seen = "applied"]
  /\ UNCHANGED <<browser, hub, touched, docker, forwards, host, faults>>

BatchEnds(r) ==
  /\ At(r, "batch") /\ req[r].left = 0
  /\ Answer(r, Type(r) = "k8s_drain_node" \/ req[r].seen = "applied" \/ Items = 0)
  /\ UNCHANGED <<browser, hub, touched, docker, kube, forwards, host, faults>>

\* Batches of log lines, then the last one, marked done.
LogBatch(r) ==
  /\ At(r, "logs")
  /\ IF req[r].left = 0 THEN Answer(r, TRUE) ELSE req' = [req EXCEPT ![r].left = @ - 1]
  /\ UNCHANGED <<browser, hub, touched, docker, kube, forwards, host, faults>>

\* A second forward of one port of one pod takes the key of the first.
ForwardStarts(r) ==
  /\ At(r, "forward")
  /\ forwards' = [live |-> forwards.live \cup {r}, key |-> r]
  /\ Answer(r, TRUE)
  /\ UNCHANGED <<browser, hub, touched, docker, kube, host, faults>>

\* Mutant: the key of a stopped forward is kept.
ForwardStopsKeeps(r) ==
  /\ At(r, "unforward")
  /\ forwards' = [forwards EXCEPT !.live = @ \ {forwards.key}]
  /\ Answer(r, forwards.key # None)
  /\ UNCHANGED <<browser, hub, touched, docker, kube, host, faults>>

ForwardStops(r) ==
  /\ At(r, "unforward")
  /\ forwards' = [live |-> forwards.live \ {forwards.key}, key |-> None]
  /\ Answer(r, forwards.key # None)
  /\ UNCHANGED <<browser, hub, touched, docker, kube, host, faults>>

-----------------------------------------------------------------------------
\* updateContainerImage.  Names count the "_old" suffixes they carry.

New(r) == {c \in box : c.id = r}
Taken(name, cs) == \E c \in box \ cs : c.name = name
\* One call: it fails by itself, or because Docker refuses it.
DockerCall(r, refused, effect, next, onError) ==
  /\ \/ ~refused /\ box' = effect /\ Goto(r, next) /\ UNCHANGED faults
     \/ refused /\ Goto(r, onError) /\ UNCHANGED <<box, faults>>
     \/ Fault /\ Goto(r, onError) /\ UNCHANGED box
  /\ UNCHANGED <<browser, hub, touched, ports, crossed, kube, forwards, host>>
Renaming(r, name) == (box \ Old(r)) \cup {[c EXCEPT !.name = name] : c \in Old(r)}
Name(r) == req[r].seen

Inspect(r) ==
  /\ At(r, "inspect")
  /\ IF Old(r) = {} THEN Answer(r, FALSE)
     ELSE \E c \in Old(r) : GotoWith(r, "pull", c.name)
  /\ UNCHANGED <<browser, hub, touched, docker, kube, forwards, host, faults>>
Pull(r) ==
  /\ At(r, "pull")
  /\ Goto(r, "stop")
  /\ UNCHANGED <<browser, hub, touched, docker, kube, forwards, host, faults>>
Stop(r) == At(r, "stop") /\ DockerCall(r, Old(r) = {}, Setting(Old(r), FALSE), "rename", "rename")
Rename(r) ==
  /\ At(r, "rename")
  /\ DockerCall(r, Old(r) = {} \/ Taken(Name(r) + 1, Old(r)), Renaming(r, Name(r) + 1),
                "create", "create")
Create(r) ==
  /\ At(r, "create")
  /\ DockerCall(r, Taken(Name(r), {}),
                box \cup {[id |-> r, name |-> Name(r), image |-> r, up |-> FALSE]},
                "start", "renameBack")
\* Mutant: a new container that does not start is left there.
StartLeaves(r) ==
  At(r, "start") /\ DockerCall(r, CannotStart(New(r)), Setting(New(r), TRUE), "removeOld", "renameBack")
Start(r) ==
  At(r, "start") /\ DockerCall(r, CannotStart(New(r)), Setting(New(r), TRUE), "removeOld", "removeNew")
RemoveOld(r) == At(r, "removeOld") /\ DockerCall(r, Old(r) = {}, box \ Old(r), "updated", "updated")
RemoveNew(r) ==
  At(r, "removeNew") /\ DockerCall(r, New(r) = {}, box \ New(r), "renameBack", "renameBack")
RenameBack(r) ==
  /\ At(r, "renameBack")
  /\ DockerCall(r, Old(r) = {} \/ Taken(Name(r), Old(r)), Renaming(r, Name(r)),
                "startBack", "startBack")
StartBack(r) ==
  At(r, "startBack") /\ DockerCall(r, CannotStart(Old(r)), Setting(Old(r), TRUE), "failed", "failed")
\* Mutant: an update that was rolled back is not answered.
UpdateEndsWell(r) ==
  /\ Operating(r) /\ req[r].step = "updated"
  /\ Answer(r, TRUE)
  /\ UNCHANGED <<browser, hub, touched, docker, kube, forwards, host, faults>>
UpdateEnds(r) ==
  /\ Operating(r) /\ req[r].step \in {"updated", "failed"}
  /\ Answer(r, req[r].step = "updated")
  /\ UNCHANGED <<browser, hub, touched, docker, kube, forwards, host, faults>>

UpdateContainer(r) ==
  \/ Inspect(r) \/ Pull(r) \/ Stop(r) \/ Rename(r) \/ Create(r) \/ Start(r) \/ RemoveOld(r)
  \/ RemoveNew(r) \/ RenameBack(r) \/ StartBack(r) \/ UpdateEnds(r)

-----------------------------------------------------------------------------
\* Kubernetes: an object is read, changed and written back whole; the API
\* refuses a write based on an old version.  What is read of a deployment tells its
\* revision.

Kind(r) == EditedKind[mapFrontendActionType(Type(r))]

Read(r) ==
  /\ At(r, "read")
  /\ GotoWith(r, IF Type(r) = "k8s_rollout_undo" THEN "list" ELSE "put",
              [version |-> objects[Kind(r)].version, fields |-> objects[Kind(r)].fields,
               revision |-> rollout.revision])
  /\ UNCHANGED <<browser, hub, touched, docker, kube, forwards, host, faults>>

\* Mutant: the least one.
Least(vs) == CHOOSE v \in vs : \A w \in vs \ {v} : StringLess(v, w)
\* RolloutUndo takes the greatest of the revisions other than the one it read,
\* compared as strings.
Greatest(vs) == CHOOSE v \in vs : \A w \in vs \ {v} : StringLess(w, v)
List(r) ==
  LET others == DOMAIN rollout.sets \ {req[r].seen.revision}
      target == rollout.sets[Greatest(others)]
  IN /\ At(r, "list")
     /\ IF others = {} THEN Answer(r, FALSE)
        ELSE GotoWith(r, "put", [req[r].seen EXCEPT !.fields.image = target[1],
                                                    !.fields.restartedAt = target[2]])
     /\ UNCHANGED <<browser, hub, touched, docker, kube, forwards, host, faults>>

Changed(r) ==
  LET t == mapFrontendActionType(Type(r)) IN
    IF t = "k8s_rollout_undo" THEN req[r].seen.fields
    ELSE [req[r].seen.fields EXCEPT ![EditedField[t]] = r]
Written(r) ==
  LET t == mapFrontendActionType(Type(r)) IN
    [f \in FieldsOf(Kind(r)) |->
       IF f \in (IF t = "k8s_rollout_undo" THEN {"image", "restartedAt"} ELSE {EditedField[t]})
       THEN Changed(r)[f] ELSE lastPut[Kind(r)][f]]
Writes(r) ==
  /\ objects' = [objects EXCEPT ![Kind(r)] = [version |-> @.version + 1, fields |-> Changed(r)]]
  /\ lastPut' = [lastPut EXCEPT ![Kind(r)] = Written(r)]
  /\ rollout' = IF Kind(r) = "deployment" THEN [rollout EXCEPT !.generation = @ + 1] ELSE rollout
  /\ CASE Type(r) = "k8s_update_image" -> Goto(r, "wait")
       [] Type(r) = "k8s_drain_node" ->
            req' = [req EXCEPT ![r].step = "batch", ![r].seen = None, ![r].left = Items]
       [] OTHER -> Answer(r, TRUE)

\* Mutant: the write goes through whatever happened since the read.
PutForced(r) ==
  /\ At(r, "put")
  /\ Writes(r)
  /\ UNCHANGED <<browser, hub, touched, docker, forwards, host, faults>>
Put(r) ==
  /\ At(r, "put")
  /\ IF objects[Kind(r)].version = req[r].seen.version THEN Writes(r)
     ELSE Answer(r, FALSE) /\ UNCHANGED kube
  /\ UNCHANGED <<browser, hub, touched, docker, forwards, host, faults>>

\* Mutant: the counts are looked at and not the generation they are of.
RolloutSeemsDone(r) ==
  /\ At(r, "wait") /\ rollout.done
  /\ Answer(r, TRUE)
  /\ UNCHANGED <<browser, hub, touched, docker, kube, forwards, host, faults>>
\* waitForRollout.
RolloutDone(r) ==
  /\ At(r, "wait") /\ rollout.done /\ rollout.observed >= rollout.generation
  /\ Answer(r, TRUE)
  /\ UNCHANGED <<browser, hub, touched, docker, kube, forwards, host, faults>>
RolloutTimesOut(r) ==
  /\ At(r, "wait")
  /\ Answer(r, FALSE)
  /\ UNCHANGED <<browser, hub, touched, docker, kube, forwards, host, faults>>

Edit(r) == Read(r) \/ List(r) \/ Put(r) \/ RolloutDone(r) \/ RolloutTimesOut(r)

\* The deployment controller sees the new spec: the replica set of its template,
\* a new one if there is none, gets the next revision number.
Bump == objects' = [objects EXCEPT !["deployment"].version = @ + 1]
ControllerObserves ==
  LET t == Template(objects["deployment"].fields)
      same == {v \in DOMAIN rollout.sets : rollout.sets[v] = t}
      next == Max(DOMAIN rollout.sets) + 1
      new == IF rollout.revision \in same THEN rollout.revision ELSE next
      kept == DOMAIN rollout.sets \ same
  IN /\ rollout.observed < rollout.generation
     /\ rollout' = [rollout EXCEPT !.observed = rollout.generation, !.done = FALSE, !.revision = new,
                      !.sets = [v \in kept \cup {new} |-> IF v = new THEN t ELSE rollout.sets[v]]]
     /\ Bump
     /\ UNCHANGED <<req, browser, hub, touched, docker, lastPut, forwards, host, faults>>
ControllerFinishes ==
  /\ ~rollout.done
  /\ rollout' = [rollout EXCEPT !.done = TRUE, !.pods = rollout.sets[rollout.revision]]
  /\ Bump
  /\ UNCHANGED <<req, browser, hub, touched, docker, lastPut, forwards, host, faults>>

-----------------------------------------------------------------------------
\* updateAgent.  A file is named by the request that created it.

Sums(r) ==
  /\ At(r, "sums")
  /\ Goto(r, "open")
  /\ UNCHANGED <<browser, hub, touched, docker, kube, forwards, host, faults>>
\* O_CREATE, O_TRUNC: the temporary file of another update is emptied.
Open(r) ==
  LET file == IF files.tmp = None THEN r ELSE files.tmp IN
  /\ At(r, "open")
  /\ files' = [files EXCEPT !.tmp = file, !.body[file] = [n \in 1..Blocks |-> "none"]]
  /\ \E quality \in {"good", "bad"} :
       req' = [req EXCEPT ![r].step = "download", ![r].target = file, ![r].seen = quality]
  /\ UNCHANGED <<browser, hub, touched, docker, kube, forwards, restarting, faults>>
Download(r) ==
  /\ At(r, "download") /\ req[r].left < Blocks
  /\ files' = [files EXCEPT !.body[req[r].target][req[r].left + 1] = req[r].seen]
  /\ req' = [req EXCEPT ![r].left = @ + 1]
  /\ UNCHANGED <<browser, hub, touched, docker, kube, forwards, restarting, faults>>
RemovesAndFails(r) ==
  /\ files' = [files EXCEPT !.tmp = None]
  /\ Answer(r, FALSE)
  /\ UNCHANGED <<browser, hub, touched, docker, kube, forwards, restarting>>
DownloadBreaks(r) == At(r, "download") /\ Fault /\ RemovesAndFails(r)
\* Mutant: a checksum that does not match is let pass.
InstallUnchecked(r) ==
  /\ At(r, "download") /\ req[r].left = Blocks /\ files.tmp # None
  /\ files' = [files EXCEPT !.exe = files.tmp, !.tmp = None]
  /\ restarting' = TRUE
  /\ Answer(r, TRUE)
  /\ UNCHANGED <<browser, hub, touched, docker, kube, forwards, faults>>
\* The checksum of what was downloaded matches: the temporary file, whatever
\* it is by now, becomes the binary.
Install(r) ==
  /\ At(r, "download") /\ req[r].left = Blocks /\ req[r].seen = "good" /\ files.tmp # None
  /\ files' = [files EXCEPT !.exe = files.tmp, !.tmp = None]
  /\ restarting' = TRUE
  /\ Answer(r, TRUE)
  /\ UNCHANGED <<browser, hub, touched, docker, kube, forwards, faults>>
InstallFails(r) ==
  /\ At(r, "download") /\ req[r].left = Blocks /\ (req[r].seen = "bad" \/ files.tmp = None)
  /\ RemovesAndFails(r)
  /\ UNCHANGED faults

UpdateAgent(r) == Sums(r) \/ Open(r) \/ Download(r) \/ Install(r) \/ InstallFails(r)

\* systemctl restart: what the agent was doing is cut off and never answered.
AgentRestarts ==
  /\ restarting
  /\ restarting' = FALSE
  /\ req' = [r \in Requests |-> IF Stage(r) = "agent" THEN [req[r] EXCEPT !.stage = "cut"] ELSE req[r]]
  /\ forwards' = [live |-> {}, key |-> None]
  /\ UNCHANGED <<browser, hub, touched, docker, kube, files, faults>>

-----------------------------------------------------------------------------
Handle(r) ==
  \/ Dispatch(r) \/ SwitchReturns(r) \/ CallReturns(r) \/ BatchItem(r) \/ Applies(r)
  \/ BatchEnds(r) \/ LogBatch(r)
  \/ ForwardStarts(r) \/ ForwardStops(r) \/ UpdateContainer(r) \/ Edit(r) \/ UpdateAgent(r)
Relaying(r) == HubRejects(r) \/ HubForwards(r) \/ Deliver(r)
Controller == ControllerObserves \/ ControllerFinishes

Next ==
  \/ \E r \in Requests :
       \/ Send(r) \/ Relaying(r) \/ Handle(r) \/ TimesOut(r)
       \/ CallFails(r) \/ CallHangs(r) \/ DownloadBreaks(r)
  \/ Controller
  \/ AgentRestarts

\* A goroutine that is not stuck in a call goes on: a call returns, is ended by its
\* time-out, or hangs for good (CallHangs).  Timers go off.
Fairness ==
  /\ \A r \in Requests : WF_vars(Relaying(r)) /\ WF_vars(Handle(r)) /\ WF_vars(TimesOut(r))
  /\ WF_vars(Controller)

Spec == Init /\ [][Next]_vars /\ Fairness

-----------------------------------------------------------------------------
Steps == EndingSteps \cup {"arrived", "batch", "unforward", "open", "download", "stop", "rename",
  "create", "start", "removeOld", "removeNew", "renameBack", "startBack", "updated", "failed",
  "hung"}

\* Type invariant: requests, panels and the worlds the executors work on stay
\* in their domains, and a name is held by at most one container.
TypeOK ==
  /\ \A r \in Requests :
       /\ req[r].stage \in {"unsent", "hub", "agent", "answered", "shown", "dropped", "cut"}
       /\ req[r].step \in Steps /\ req[r].verdict \in {None, "success", "failed"}
       /\ req[r].to \subseteq Browsers
  /\ \A b \in Browsers :
       /\ panels[b].own \in Requests \cup {None} /\ panels[b].of \in Requests \cup {None}
       /\ panels[b].shows \in {"idle", "running", "success", "failed", "timeout"}
  /\ \A c, d \in box : c.name = d.name \/ c.id = d.id => c = d
  /\ ports => Cardinality({c \in box : c.up}) <= 1
  /\ rollout.revision \in DOMAIN rollout.sets /\ rollout.observed <= rollout.generation
  /\ forwards.key \in forwards.live \cup {None}
  /\ files.exe \in DOMAIN files.body /\ files.tmp \in DOMAIN files.body
  /\ faults \in 0..MaxFaults

\* Nothing but a log is asked of a machine through a read-only session, and
\* what is asked is in the audit log (handleBrowserMessage).
ReadOnlyAndAudited == (readOnly => touched = {}) /\ touched \subseteq audited

\* When image updates of a container neither overlap nor are cut off, one
\* failing call never costs the container: when they are done, and nobody has
\* switched it meanwhile, it runs under its name, and nothing else runs but the
\* image of an update that succeeded (updateContainerImage rolls back).
Undisturbed ==
  /\ ~crossed
  /\ \A r \in Requests :
       /\ ~(Operating(r) /\ Replaces(r)) /\ Stage(r) # "cut"
       /\ r \in touched => Type(r) \notin DOMAIN Switches
ContainerKept ==
  Undisturbed =>
    /\ \E c \in box : c.name = 0 /\ c.up
    /\ \A c \in box : c.up /\ c.image # None => req[c.image].verdict = "success"

\* A change to a Kubernetes object that was accepted is there until the next
\* one of that field: no whole-object write takes it back.
ChangesStick == \A k \in NumberedKinds : objects[k].fields = lastPut[k]

\* An image update is reported to have succeeded only when the pods run what
\* the deployment says (waitForRollout).
RolloutIsComplete ==
  [][\A r \in Requests :
       At(r, "wait") /\ req'[r].verdict = "success"
         => rollout.pods = Template(objects["deployment"].fields)]_vars

\* Undo goes back to the revision before the current one, when the controller
\* had caught up with the deployment and no other revision compares as a
\* greater string, as "9" does with "10" (RolloutUndo).
UndoGoesBack ==
  [][\A r \in Requests :
       LET past == DOMAIN rollout.sets \ {rollout.revision} IN
         /\ At(r, "put") /\ Type(r) = "k8s_rollout_undo" /\ req'[r].verdict = "success"
         /\ rollout.observed = rollout.generation
         /\ \A v \in past : ~StringLess(Max(past), v)
         => Template(objects'["deployment"].fields) = rollout.sets[Max(past)]]_vars

\* Unless two updates of the agent overlap, the agent's binary is complete and
\* is the one whose checksum was compared (updateAgent).
InstalledIsVerified == ~crossed => \A n \in 1..Blocks : files.body[files.exe][n] = "good"

\* A request the agent got is answered on every path of its executor, also when calls
\* fail and roll back; unless a call without a time-out hangs or the agent is
\* restarted.
RequestsAreAnswered ==
  \A r \in Requests :
    Stage(r) = "agent" ~> Stage(r) \in {"answered", "shown", "cut"} \/ req[r].step = "hung"
=============================================================================
