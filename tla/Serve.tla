--------------------------------- MODULE Serve ---------------------------------
(***************************************************************************)
(* The process of "infracanvas serve" (cmd/serve.go) around its state file *)
(* (pkg/runstate): the cluster manager and its virtual agents              *)
(* (pkg/clustermgr) behind the clusters API (server.go), the supervisor of *)
(* cloudflared (pkg/tunnel), and restarts of the whole.                    *)
(*                                                                         *)
(* Requests, the main goroutine and the supervisor all change the one file *)
(* by reading it, changing the copy and renaming a new file over it; they  *)
(* share no lock.                                                          *)
(***************************************************************************)
EXTENDS Naturals, FiniteSets

CONSTANTS
  Requests,   \* API requests, each sent at most once
  Menus,      \* what they ask for together
  Keys,       \* pairs of an API server and a context
  Old,        \* the ID of a cluster added before
  MaxFaults,  \* bound on the ends of the process, the cloudflared processes that
              \* exit or say nothing, and the file operations that fail, together
  None

ASSUME ServeAssumption ==
  /\ Menus \subseteq [Requests -> [op : {"add", "remove", "patch"}, key : Keys, readOnly : BOOLEAN]]
  /\ {None, Old, "main", "supervisor"} \cap Requests = {} /\ Old # None
  /\ MaxFaults \in Nat

VARIABLES
  asks,         \* asks[r]: what a request asks for
  req,          \* req[r]: its handler
  disk,         \* the state file: its clusters by ID, and the tunnel's URL
  kubeconfigs,  \* the IDs whose kubeconfig is saved and can be used
  seen,         \* seen[w]: the state a writer has read, to be written from a temporary file
  agents,       \* virtual agents: who started them, for which cluster
  cancels,      \* cancels[id]: the agent that Remove or Add would stop
  broken,       \* history: clusters whose kubeconfig a write cut short has spoiled, or whose
                \* agent could not read it, until an agent is started that can
  main,         \* the main goroutine: its stage and the URL it took
  tunnel,       \* the supervisor, cloudflared's processes and the URL published
  acked,        \* history: acked[id]: the entry the last answered request left
  excused,      \* history: two writers overlapped, one could not read the file, or the
                \* tunnel's URL could not be written
  faults

files == <<disk, kubeconfigs>>
manager == <<agents, cancels, broken>>
vars == <<asks, req, files, seen, manager, main, tunnel, acked, excused, faults>>

IDs == Requests \cup {Old}
Writers == Requests \cup {"main", "supervisor"}
Up == main.stage # "down"
Stage(r) == req[r].stage
Cluster(r) == req[r].id

InFlight(r) == Stage(r) \notin {"unsent", "answered", "failed", "lost"}
Booting == main.stage \in {"load", "starting"}
\* Whoever is between a read of the state and what follows from it.
Busy ==
  {r \in Requests : InFlight(r)} \cup
  (IF Booting \/ main.stage \in {"publish", "record"} \/ tunnel.offer # 0 THEN {"main"} ELSE {}) \cup
  (IF tunnel.stage = "publish" THEN {"supervisor"} ELSE {})
Begins == excused' = (excused \/ Busy # {})
Fault == faults < MaxFaults /\ faults' = faults + 1

Unused == [stage |-> "unsent", id |-> None, entry |-> None, replaced |-> FALSE]
NoTunnel == [stage |-> "off", first |-> TRUE, spawned |-> 0, live |-> {}, open |-> {}, offer |-> 0,
             url |-> 0]

Init ==
  /\ asks \in Menus
  /\ req = [r \in Requests |-> Unused]
  /\ \E key \in Keys :
       /\ disk = [clusters |-> [i \in {Old} |-> [key |-> key, readOnly |-> TRUE, by |-> None]],
                  url |-> 0]
       /\ acked = disk.clusters
  /\ kubeconfigs = {Old}
  /\ seen = [w \in Writers |-> None]
  /\ agents = {}
  /\ cancels = [i \in IDs |-> None]
  /\ broken = {}
  /\ main = [stage |-> "load", toStart |-> {}, url |-> 0]
  /\ tunnel = NoTunnel
  /\ excused = FALSE
  /\ faults = 0

Goto(r, stage) == req' = [req EXCEPT ![r].stage = stage]
Put(f, i, v) == [j \in DOMAIN f \cup {i} |-> IF j = i THEN v ELSE f[j]]
Drop(f, i) == [j \in DOMAIN f \ {i} |-> f[j]]

-----------------------------------------------------------------------------
\* runstate.Update: read, change, write a temporary file, rename it.

\* The error of the read is dropped: what is changed is then an empty state.
Reads(w) ==
  /\ seen[w] = None
  /\ \/ seen' = [seen EXCEPT ![w] = disk] /\ UNCHANGED <<excused, faults>>
     \/ /\ Fault
        /\ seen' = [seen EXCEPT ![w] = [clusters |-> [i \in {} |-> None], url |-> 0]]
        /\ excused' = TRUE

\* Mutant: the temporary file is left behind.
WritesLeaving(w, state) ==
  /\ seen[w] # None
  /\ UNCHANGED seen
  /\ disk' = state
Writes(w, state) ==
  /\ seen[w] # None
  /\ seen' = [seen EXCEPT ![w] = None]
  /\ disk' = state

-----------------------------------------------------------------------------
\* The virtual agents.

\* Cancels the registered agent of a cluster, if any.
StopAgent(id) ==
  /\ agents' = {IF a.id = id /\ a.by = cancels[id] THEN [a EXCEPT !.stopped = TRUE] ELSE a :
                 a \in agents}
  /\ cancels' = [cancels EXCEPT ![id] = None]
  /\ UNCHANGED broken

\* startAgent: the cancel function registered before is overwritten, not called.
StartAgent(by, id) ==
  /\ agents' = agents \cup {[by |-> by, id |-> id, stopped |-> FALSE]}
  /\ cancels' = [cancels EXCEPT ![id] = by]
  /\ broken' = IF id \in kubeconfigs THEN broken \ {id} ELSE broken

\* An agent's loop reads and parses the kubeconfig each time the agent starts; if
\* that fails, or stopped, it ends for good, and stays registered.
AgentEnds(a) ==
  /\ \/ (a.stopped \/ a.id \notin kubeconfigs) /\ UNCHANGED <<broken, faults>>
     \/ Fault /\ broken' = broken \cup {a.id}
  /\ agents' = agents \ {a}
  /\ UNCHANGED <<asks, req, files, seen, cancels, main, tunnel, acked, excused>>

\* A kubeconfig is written in place: cut short, the write leaves it of no use.
Spoil(ids) ==
  /\ kubeconfigs' = kubeconfigs \ ids
  /\ broken' = broken \cup ids

-----------------------------------------------------------------------------
\* The clusters API: handleClusters, handleClusterByID.

\* Add has parsed the kubeconfig and reached the cluster, or answers an error.
AddArrives(r) ==
  /\ Up /\ Stage(r) = "unsent" /\ asks[r].op = "add"
  /\ Goto(r, "lookup")
  /\ Begins
  /\ UNCHANGED <<asks, files, seen, manager, main, tunnel, acked, faults>>

\* The clusters saved under the key of the one that is added.
Twins(r) == {i \in DOMAIN disk.clusters : disk.clusters[i].key = asks[r].key}

\* A cluster of the same key is added again under its ID, and its kubeconfig
\* written over; the write may fail.  If the state cannot be read, it looks new.
AddLooksUp(r) ==
  LET same == Twins(r)
      entry == [key |-> asks[r].key, readOnly |-> asks[r].readOnly, by |-> r]
      Found(ids) == \E i \in IF ids = {} THEN {r} ELSE ids :
        /\ req' = [req EXCEPT ![r] = [stage |-> "update", id |-> i, entry |-> entry,
                                       replaced |-> ids # {}]]
        /\ kubeconfigs' = kubeconfigs \cup {i}
        /\ UNCHANGED broken
  IN /\ Stage(r) = "lookup"
     /\ \/ Found(same) /\ UNCHANGED <<excused, faults>>
        \/ Fault /\ Found({}) /\ excused' = TRUE
        \/ /\ Fault /\ Goto(r, "failed") /\ UNCHANGED excused
           /\ \E lost \in {{}} \cup {{i} : i \in same} : Spoil(lost)
     /\ UNCHANGED <<asks, disk, seen, agents, cancels, main, tunnel, acked>>

\* Remove stops the agent first.
RemoveArrives(r) ==
  /\ Up /\ Stage(r) = "unsent" /\ asks[r].op = "remove"
  /\ \E i \in DOMAIN disk.clusters :
       /\ req' = [req EXCEPT ![r].stage = "update", ![r].id = i]
       /\ StopAgent(i)
  /\ Begins
  /\ UNCHANGED <<asks, files, seen, main, tunnel, acked, faults>>

\* PATCH of the flag; Rename is the same update of another field.
PatchArrives(r) ==
  /\ Up /\ Stage(r) = "unsent" /\ asks[r].op = "patch"
  /\ \E i \in DOMAIN disk.clusters : req' = [req EXCEPT ![r].stage = "update", ![r].id = i]
  /\ Begins
  /\ UNCHANGED <<asks, files, seen, manager, main, tunnel, acked, faults>>

UpdateReads(r) ==
  /\ Stage(r) = "update"
  /\ Reads(r)
  /\ UNCHANGED <<asks, req, files, manager, main, tunnel, acked>>

\* Mutant: the entry is kept.
ChangedKeeping(r) ==
  LET clusters == seen[r].clusters  i == Cluster(r) IN
    CASE asks[r].op = "add" -> Put(clusters, i, req[r].entry)
      [] asks[r].op = "patch" /\ i \in DOMAIN clusters ->
           Put(clusters, i, [clusters[i] EXCEPT !.readOnly = asks[r].readOnly, !.by = r])
      [] OTHER -> clusters
\* The clusters as the request would have them.
Changed(r) ==
  LET clusters == seen[r].clusters  i == Cluster(r) IN
    CASE asks[r].op = "add" -> Put(clusters, i, req[r].entry)
      [] asks[r].op = "remove" -> Drop(clusters, i)
      [] asks[r].op = "patch" /\ i \in DOMAIN clusters ->
           Put(clusters, i, [clusters[i] EXCEPT !.readOnly = asks[r].readOnly, !.by = r])
      [] OTHER -> clusters

UpdateWrites(r) ==
  LET found == Cluster(r) \in DOMAIN seen[r].clusters IN
  /\ Stage(r) = "update"
  /\ Writes(r, [seen[r] EXCEPT !.clusters = Changed(r)])
  /\ Goto(r, CASE asks[r].op = "add" -> "stop"
               [] asks[r].op = "remove" -> IF found THEN "clean" ELSE "answered"
               [] asks[r].op = "patch" /\ found -> "answered"
               [] OTHER -> "failed")
  /\ acked' = IF found /\ asks[r].op = "patch" THEN Put(acked, Cluster(r), Changed(r)[Cluster(r)])
              ELSE acked
  /\ UNCHANGED <<asks, kubeconfigs, manager, main, tunnel, excused, faults>>

\* The temporary file cannot be written or renamed.
UpdateFails(r) ==
  /\ Stage(r) = "update" /\ seen[r] # None /\ Fault
  /\ seen' = [seen EXCEPT ![r] = None]
  /\ Goto(r, "failed")
  /\ kubeconfigs' = IF asks[r].op = "add" /\ ~req[r].replaced THEN kubeconfigs \ {Cluster(r)}
                    ELSE kubeconfigs
  /\ UNCHANGED <<asks, disk, manager, main, tunnel, acked, excused>>

RemoveCleans(r) ==
  /\ Stage(r) = "clean"
  /\ kubeconfigs' = kubeconfigs \ {Cluster(r)}
  /\ acked' = Drop(acked, Cluster(r))
  /\ Goto(r, "answered")
  /\ UNCHANGED <<asks, disk, seen, manager, main, tunnel, excused, faults>>

\* Mutant: the agent of the replaced entry is left running.
AddLeavesOld(r) ==
  /\ Stage(r) = "stop"
  /\ Goto(r, "start")
  /\ UNCHANGED <<asks, files, seen, manager, main, tunnel, acked, excused, faults>>
AddStopsOld(r) ==
  /\ Stage(r) = "stop"
  /\ StopAgent(Cluster(r))
  /\ Goto(r, "start")
  /\ UNCHANGED <<asks, files, seen, main, tunnel, acked, excused, faults>>

AddStarts(r) ==
  /\ Stage(r) = "start"
  /\ StartAgent(r, Cluster(r))
  /\ acked' = Put(acked, Cluster(r), req[r].entry)
  /\ Goto(r, "answered")
  /\ UNCHANGED <<asks, files, seen, main, tunnel, excused, faults>>

-----------------------------------------------------------------------------
\* The main goroutine.  The API is served from the start.

\* LoadPersisted; a file that cannot be read starts no agent.
Loads ==
  /\ main.stage = "load"
  /\ \/ main' = [main EXCEPT !.stage = "starting", !.toStart = DOMAIN disk.clusters]
        /\ UNCHANGED <<excused, faults>>
     \/ Fault /\ main' = [main EXCEPT !.stage = "starting"] /\ excused' = TRUE
  /\ UNCHANGED <<asks, req, files, seen, manager, tunnel, acked>>

BootStarts ==
  \E i \in main.toStart :
    /\ StartAgent("main", i)
    /\ main' = [main EXCEPT !.toStart = @ \ {i}]
    /\ UNCHANGED <<asks, req, files, seen, tunnel, acked, excused, faults>>

StartsTunnel ==
  /\ main.stage = "starting" /\ main.toStart = {}
  /\ main' = [main EXCEPT !.stage = "tunnel"]
  /\ tunnel' = [NoTunnel EXCEPT !.stage = "spawn", !.spawned = tunnel.spawned]
  /\ UNCHANGED <<asks, req, files, seen, manager, acked, excused, faults>>

\* Start receives the first URL and publishes it.
TakesFirst ==
  /\ main.stage = "tunnel" /\ tunnel.offer # 0
  /\ tunnel' = [tunnel EXCEPT !.url = tunnel.offer, !.offer = 0]
  /\ main' = [main EXCEPT !.stage = "publish", !.url = tunnel.offer]
  /\ UNCHANGED <<asks, req, files, seen, manager, acked, excused, faults>>

\* The URL is read, and recorded with the port and the tokens by another update.
TakesURL ==
  /\ main.stage = "take"
  /\ main' = [main EXCEPT !.stage = "record", !.url = tunnel.url]
  /\ Begins
  /\ UNCHANGED <<asks, req, files, seen, manager, tunnel, acked, faults>>

MainReads ==
  /\ main.stage \in {"publish", "record"}
  /\ Reads("main")
  /\ UNCHANGED <<asks, req, files, manager, main, tunnel, acked>>
MainWrites ==
  /\ main.stage \in {"publish", "record"}
  /\ Writes("main", [seen["main"] EXCEPT !.url = main.url])
  /\ main' = [main EXCEPT !.stage = IF @ = "publish" THEN "take" ELSE "serving"]
  /\ UNCHANGED <<asks, req, kubeconfigs, manager, tunnel, acked, excused, faults>>

\* Neither of the two writers of the URL does more than log an error.
URLNotWritten(w) ==
  /\ w \in Busy /\ seen[w] # None /\ Fault
  /\ seen' = [seen EXCEPT ![w] = None]
  /\ excused' = TRUE
  /\ IF w = "main"
       THEN /\ main' = [main EXCEPT !.stage = IF @ = "publish" THEN "take" ELSE "serving"]
            /\ UNCHANGED tunnel
       ELSE /\ tunnel' = [tunnel EXCEPT !.stage = "hold"]
            /\ UNCHANGED main
  /\ UNCHANGED <<asks, req, files, manager, acked>>

Main == Loads \/ BootStarts \/ StartsTunnel \/ TakesFirst \/ TakesURL \/ MainReads \/ MainWrites

-----------------------------------------------------------------------------
\* The supervisor of cloudflared.  The URL of a process is its number.

Current == tunnel.spawned

Spawns ==
  /\ tunnel.stage = "spawn"
  /\ tunnel' = [tunnel EXCEPT !.stage = "await", !.spawned = @ + 1, !.live = @ \cup {tunnel.spawned + 1}]
  /\ UNCHANGED <<asks, req, files, seen, manager, main, acked, excused, faults>>

ShowsURL ==
  /\ Current \in tunnel.live \ tunnel.open
  /\ tunnel' = [tunnel EXCEPT !.open = @ \cup {Current}]
  /\ UNCHANGED <<asks, req, files, seen, manager, main, acked, excused, faults>>

\* The first URL goes to the main goroutine, a later one is published here.
SeesURL ==
  /\ tunnel.stage = "await" /\ Current \in tunnel.open
  /\ tunnel' = IF tunnel.first
                 THEN [tunnel EXCEPT !.stage = "hold", !.first = FALSE, !.offer = Current]
                 ELSE [tunnel EXCEPT !.stage = "publish", !.url = Current]
  /\ Begins
  /\ UNCHANGED <<asks, req, files, seen, manager, main, acked, faults>>

SupervisorReads ==
  /\ tunnel.stage = "publish"
  /\ Reads("supervisor")
  /\ UNCHANGED <<asks, req, files, manager, main, tunnel, acked>>
\* Mutant: the new URL is not recorded.
SupervisorKeeps ==
  /\ tunnel.stage = "publish"
  /\ Writes("supervisor", seen["supervisor"])
  /\ tunnel' = [tunnel EXCEPT !.stage = "hold"]
  /\ UNCHANGED <<asks, req, kubeconfigs, manager, main, acked, excused, faults>>
SupervisorWrites ==
  /\ tunnel.stage = "publish"
  /\ Writes("supervisor", [seen["supervisor"] EXCEPT !.url = tunnel.url])
  /\ tunnel' = [tunnel EXCEPT !.stage = "hold"]
  /\ UNCHANGED <<asks, req, kubeconfigs, manager, main, acked, excused, faults>>

CloudflaredExits ==
  /\ Current \in tunnel.live /\ Fault
  /\ tunnel' = [tunnel EXCEPT !.live = @ \ {Current}]
  /\ UNCHANGED <<asks, req, files, seen, manager, main, acked, excused>>

\* Everything that runs in the process ends with it, a write of a kubeconfig included.
Ends ==
  /\ \E cut \in SUBSET UNION {Twins(r) : r \in {q \in Requests : Stage(q) = "lookup"}} : Spoil(cut)
  /\ req' = [r \in Requests |-> IF InFlight(r) THEN [req[r] EXCEPT !.stage = "lost"] ELSE req[r]]
  /\ seen' = [w \in Writers |-> None]
  /\ agents' = {} /\ cancels' = [i \in IDs |-> None]
  /\ main' = [stage |-> "down", toStart |-> {}, url |-> 0]
  /\ tunnel' = [NoTunnel EXCEPT !.spawned = tunnel.spawned]
  /\ UNCHANGED <<asks, disk, acked, excused>>

\* Mutant: a process that exits is never replaced.
GivesUpForGood ==
  /\ tunnel.stage \in {"await", "hold"} /\ Current \notin tunnel.live
  /\ tunnel.first /\ tunnel.stage = "await"
  /\ Ends /\ UNCHANGED faults
\* The process exited or showed no URL for 45 seconds.  The first time serve
\* gives up; later another is spawned, and one that only was silent stays.
GivesUp ==
  /\ tunnel.stage \in {"await", "hold"} /\ Current \notin tunnel.live
  /\ IF tunnel.first /\ tunnel.stage = "await" THEN Ends /\ UNCHANGED faults
     ELSE /\ tunnel' = [tunnel EXCEPT !.stage = "spawn"]
          /\ UNCHANGED <<asks, req, files, seen, manager, main, acked, excused, faults>>
TimesOut ==
  /\ tunnel.stage = "await" /\ Current \in tunnel.live \ tunnel.open /\ Fault
  /\ IF tunnel.first THEN Ends
     ELSE /\ tunnel' = [tunnel EXCEPT !.stage = "spawn"]
          /\ UNCHANGED <<asks, req, files, seen, manager, main, acked, excused>>

Supervisor == Spawns \/ SeesURL \/ SupervisorReads \/ SupervisorWrites \/ GivesUp

-----------------------------------------------------------------------------
Crashes ==
  /\ Up /\ Fault
  /\ Ends

\* The service manager starts the process again.
Restarts ==
  /\ ~Up
  /\ main' = [main EXCEPT !.stage = "load"]
  /\ Begins
  /\ UNCHANGED <<asks, req, files, seen, manager, tunnel, acked, faults>>

Arrives(r) == AddArrives(r) \/ RemoveArrives(r) \/ PatchArrives(r)
Handles(r) ==
  \/ AddLooksUp(r) \/ UpdateReads(r) \/ UpdateWrites(r) \/ RemoveCleans(r)
  \/ AddStopsOld(r) \/ AddStarts(r)

Next ==
  \/ \E r \in Requests : Arrives(r) \/ Handles(r) \/ UpdateFails(r)
  \/ \E a \in agents : AgentEnds(a)
  \/ URLNotWritten("main") \/ URLNotWritten("supervisor")
  \/ Main \/ Supervisor \/ ShowsURL \/ CloudflaredExits \/ TimesOut
  \/ Crashes \/ Restarts

\* Goroutines run, cloudflared shows a URL in the end, and the service manager
\* restarts the process.
Fairness ==
  /\ \A r \in Requests : WF_vars(Handles(r))
  /\ WF_vars(Main) /\ WF_vars(Supervisor) /\ WF_vars(ShowsURL) /\ WF_vars(Restarts)

Spec == Init /\ [][Next]_vars /\ Fairness
-----------------------------------------------------------------------------
Entries == [key : Keys, readOnly : BOOLEAN, by : Requests \cup {None}]

\* Type invariant: the files, the handlers and the goroutines stay in their
\* domains, only a writer at work holds a copy of the state, and nothing but
\* the files outlives the process.
TypeOK ==
  /\ DOMAIN disk.clusters \subseteq IDs /\ disk.url \in Nat /\ kubeconfigs \subseteq IDs
  /\ \A i \in DOMAIN disk.clusters : disk.clusters[i] \in Entries
  /\ \A r \in Requests :
       /\ Stage(r) \in {"unsent", "lookup", "update", "stop", "start", "clean", "answered",
                       "failed", "lost"}
       /\ Cluster(r) \in IDs \cup {None}
  /\ broken \subseteq IDs
  /\ \A a \in agents : a.id \in IDs /\ a.by \in Requests \cup {"main"}
  /\ \A w \in Writers : seen[w] # None => w \in Busy
  /\ tunnel.open \subseteq 1..Current /\ tunnel.live \subseteq 1..Current
  /\ ~Up => agents = {} /\ Busy = {}

\* When nothing is under way, the agents that run are those of the saved
\* clusters, one each, each one the one that Remove would stop, each cluster has
\* its kubeconfig, and none is saved twice; unless writers overlapped or could not
\* read the state, and but for a cluster whose removal failed and one whose
\* kubeconfig a cut write spoiled or its agent could not read, until it is added
\* again or the process restarts with the file in order (Add, Remove, startAgent,
\* LoadPersisted).
AgentsMatchClusters ==
  LET running == {a \in agents : ~a.stopped}
      spared == {Cluster(r) : r \in {q \in Requests : Stage(q) = "failed" /\ asks[q].op = "remove"}}
      apart == spared \cup broken
  IN Up /\ Busy = {} /\ ~excused =>
       /\ {a.id : a \in running} \ apart = DOMAIN disk.clusters \ apart
       /\ \A a \in running : a.by = cancels[a.id]
       /\ DOMAIN disk.clusters \subseteq kubeconfigs \cup broken
       /\ \A i, j \in DOMAIN disk.clusters :
            disk.clusters[i].key = disk.clusters[j].key => i = j

\* What the API answered is what the file says, through restarts of the
\* process: an added cluster is there, a removed one is gone, a read-only one is
\* read-only; unless writers overlapped or could not read the file, and but for
\* a cluster whose request was cut off (runstate.Update).
AcknowledgedKept ==
  LET open == {Cluster(r) : r \in {q \in Requests : Stage(q) = "lost"}} IN
    Busy = {} /\ ~excused =>
      \A i \in IDs \ open :
        /\ i \in DOMAIN disk.clusters <=> i \in DOMAIN acked
        /\ i \in DOMAIN acked => disk.clusters[i] = acked[i]

\* Once serve is up and the tunnel stands, the state file names the tunnel's
\* current URL, however often cloudflared was replaced; unless writers
\* overlapped, or one could not read or write the file (onURL, runServe).
URLIsKnown ==
  main.stage = "serving" /\ tunnel.stage = "hold" /\ Busy = {} /\ ~excused =>
    disk.url = tunnel.url /\ tunnel.url = Current

\* Once cloudflared has stopped failing, the tunnel is up for good
\* (supervise, runServe's error returns, the restart of the process).
TunnelComesBack ==
  <>[](main.stage = "serving" /\ tunnel.stage = "hold" /\ Current \in tunnel.open \cap tunnel.live)
=============================================================================
