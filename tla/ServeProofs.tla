------------------------------ MODULE ServeProofs ------------------------------
(***************************************************************************)
(* Proofs about Serve for any requests, keys and menus and any number of   *)
(* faults: that what the API answered is what the file says, that the      *)
(* agents that run are those of the saved clusters, and that the file      *)
(* names the tunnel's URL, through ends and restarts of the process and    *)
(* until two of those who write the file without a lock overlap.           *)
(***************************************************************************)
EXTENDS Serve, TLAPS

-----------------------------------------------------------------------------
\* The domains of the parts of the state.
Asks == [op : {"add", "remove", "patch"}, key : Keys, readOnly : BOOLEAN]
Stages == {"unsent", "lookup", "update", "stop", "start", "clean", "answered", "failed", "lost"}
Clusterings == UNION {[S -> Entries] : S \in SUBSET IDs}
States == [clusters : Clusterings, url : Nat]
Tunnels ==
  [stage : {"off", "spawn", "await", "hold", "publish"}, first : BOOLEAN, spawned : Nat,
   live : SUBSET Nat, open : SUBSET Nat, offer : Nat, url : Nat]
Mains ==
  [stage : {"load", "starting", "tunnel", "publish", "take", "record", "serving", "down"},
   toStart : SUBSET IDs, url : Nat]

\* The domains of the variables.
Typed ==
  /\ asks \in [Requests -> Asks]
  /\ req \in [Requests -> [stage : Stages, id : IDs \cup {None}, entry : Entries \cup {None},
                           replaced : BOOLEAN]]
  /\ disk \in States /\ kubeconfigs \in SUBSET IDs
  /\ seen \in [Writers -> States \cup {None}]
  /\ agents \in SUBSET [by : Requests \cup {"main"}, id : IDs, stopped : BOOLEAN]
  /\ cancels \in [IDs -> Requests \cup {"main", None}]
  /\ main \in Mains
  /\ tunnel \in Tunnels /\ tunnel.open \subseteq 1..Current /\ tunnel.live \subseteq 1..Current
  /\ acked \in Clusterings
  /\ excused \in BOOLEAN

\* A request has what its stage needs, only a writer at work holds a copy of the state,
\* a supervisor whose first URL is awaited has offered none, and nothing but the files
\* outlives the process.
Placed ==
  /\ \A r \in Requests :
       /\ Stage(r) \in {"update", "stop", "start", "clean"} => Cluster(r) \in IDs
       /\ Stage(r) \in {"update", "stop", "start"} /\ asks[r].op = "add" =>
            req[r].entry = [key |-> asks[r].key, readOnly |-> asks[r].readOnly, by |-> r]
       /\ Stage(r) \in {"lookup", "stop", "start"} => asks[r].op = "add"
       /\ Stage(r) = "clean" => asks[r].op = "remove"
       /\ seen[r] # None => Stage(r) = "update"
  /\ seen["main"] # None => main.stage \in {"publish", "record"}
  /\ seen["supervisor"] # None => tunnel.stage = "publish"
  /\ main.stage # "starting" => main.toStart = {}
  /\ main.stage \in {"down", "load", "starting"} =>
       tunnel.stage = "off" /\ tunnel.offer = 0 /\ tunnel.live = {}
  /\ tunnel.offer # 0 => main.stage = "tunnel" /\ ~tunnel.first
  /\ tunnel.first /\ tunnel.stage # "off" => main.stage = "tunnel"
  /\ ~Up => agents = {} /\ \A r \in Requests : ~InFlight(r)

\* No two are between a read of the state and what follows from it.
Serial == ~excused => \A v, w \in Busy : v = w
\* What is about to be written over the file was read from it as it is.
Copies == ~excused => \A w \in Writers : seen[w] # None => seen[w] = disk

\* The answers given: the file has what was answered of a cluster, unless a request for it
\* was cut off or has written what it is about to answer.
Same(i) ==
  /\ i \in DOMAIN disk.clusters <=> i \in DOMAIN acked
  /\ i \in DOMAIN acked => disk.clusters[i] = acked[i]
CutOff(i) == \E r \in Requests : Stage(r) = "lost" /\ Cluster(r) = i
Pending(i) == \E r \in Requests : Stage(r) \in {"stop", "start", "clean"} /\ Cluster(r) = i
Kept ==
  ~excused =>
    /\ \A i \in IDs : Same(i) \/ CutOff(i) \/ Pending(i)
    /\ \A r \in Requests :
         /\ Stage(r) \in {"stop", "start"} =>
              Cluster(r) \in DOMAIN disk.clusters /\ disk.clusters[Cluster(r)] = req[r].entry
         /\ Stage(r) = "clean" => Cluster(r) \notin DOMAIN disk.clusters

\* The clusters saved: each has its kubeconfig, unless that is broken, and a key of its
\* own, also against what a request is about to add.
Adding(r) == Stage(r) = "update" /\ asks[r].op = "add"
Held == kubeconfigs \cup broken
Saved ==
  ~excused =>
    /\ DOMAIN disk.clusters \subseteq Held
    /\ \A i, j \in DOMAIN disk.clusters : disk.clusters[i].key = disk.clusters[j].key => i = j
    /\ \A r \in Requests :
         /\ r \in DOMAIN disk.clusters => Stage(r) \notin {"unsent", "lookup"}
         /\ Adding(r) =>
              /\ Cluster(r) \in kubeconfigs
              /\ Cluster(r) = r \/ Cluster(r) \in DOMAIN disk.clusters
              /\ ~req[r].replaced => Cluster(r) \notin DOMAIN disk.clusters
              /\ \A j \in DOMAIN disk.clusters :
                   disk.clusters[j].key = asks[r].key => j = Cluster(r)

\* The agents: the one that runs for a cluster is the one registered, none runs for a
\* cluster whose removal or replacement has stopped it or that is still to be started, and
\* after the boot those of the other saved clusters run.
Halting(r) == (Stage(r) = "update" /\ asks[r].op = "remove") \/ Stage(r) \in {"clean", "start"}
RunsAt(i) == \E a \in agents : a.id = i /\ ~a.stopped
Spared(i) == \E r \in Requests : Stage(r) = "failed" /\ asks[r].op = "remove" /\ Cluster(r) = i
Touched(i) == \E r \in Requests : (Halting(r) \/ Stage(r) = "stop") /\ Cluster(r) = i
Owned == \A a \in agents : ~a.stopped => a.by = cancels[a.id]
Fit ==
  ~excused =>
    /\ Owned
    /\ \A r \in Requests : Halting(r) => ~RunsAt(Cluster(r))
    /\ main.stage = "load" => \A i \in IDs : ~RunsAt(i)
    /\ main.toStart \subseteq DOMAIN disk.clusters /\ \A i \in main.toStart : ~RunsAt(i)
    /\ Up /\ main.stage # "load" =>
         \A i \in IDs \ broken : Spared(i) \/ Touched(i) \/
           (RunsAt(i) <=> i \in DOMAIN disk.clusters \ main.toStart)

\* The URL: the supervisor, the main goroutine and the file agree on the URL of the last
\* cloudflared, each once it is through with it.
Routed ==
  ~excused =>
    /\ tunnel.stage = "publish" => tunnel.url = Current
    /\ tunnel.stage = "hold" => IF tunnel.offer = 0 THEN tunnel.url = Current
                                                    ELSE tunnel.offer = Current
    /\ main.stage \in {"publish", "record"} => main.url = tunnel.url
    /\ main.stage \in {"take", "record", "serving"} /\ tunnel.stage # "publish" =>
         disk.url = tunnel.url

\* The constants apart.
LEMMA Names ==
  /\ IDs = Requests \cup {Old} /\ Writers = Requests \cup {"main", "supervisor"}
  /\ "main" \notin Requests /\ "supervisor" \notin Requests /\ None \notin IDs
  /\ Menus \subseteq [Requests -> Asks]
BY ServeAssumption DEF IDs, Writers, Asks

\* Changing one entry of a cluster list.
LEMMA PutHolds ==
  ASSUME NEW f \in Clusterings, NEW i \in IDs, NEW v \in Entries
  PROVE  /\ Put(f, i, v) \in Clusterings
         /\ DOMAIN Put(f, i, v) = DOMAIN f \cup {i} /\ Put(f, i, v)[i] = v
         /\ \A j \in DOMAIN f \ {i} : Put(f, i, v)[j] = f[j]
<1>1. PICK S \in SUBSET IDs : f \in [S -> Entries]
  BY DEF Clusterings
<1>2. Put(f, i, v) \in [S \cup {i} -> Entries] /\ S \cup {i} \in SUBSET IDs
  BY <1>1 DEF Put
<1> QED BY <1>1, <1>2 DEF Put, Clusterings

LEMMA DropHolds ==
  ASSUME NEW f \in Clusterings, NEW i \in IDs
  PROVE  /\ Drop(f, i) \in Clusterings /\ DOMAIN Drop(f, i) = DOMAIN f \ {i}
         /\ \A j \in DOMAIN f \ {i} : Drop(f, i)[j] = f[j]
<1>1. PICK S \in SUBSET IDs : f \in [S -> Entries]
  BY DEF Clusterings
<1>2. Drop(f, i) \in [S \ {i} -> Entries] /\ S \ {i} \in SUBSET IDs
  BY <1>1 DEF Drop
<1> QED BY <1>1, <1>2 DEF Drop, Clusterings

LEMMA ClusteringHolds ==
  ASSUME NEW f \in Clusterings
  PROVE  DOMAIN f \subseteq IDs /\ \A i \in DOMAIN f : f[i] \in Entries
BY DEF Clusterings

\* The steps of runstate.Update.
LEMMA ReadsTyped ==
  ASSUME Typed, NEW w \in Writers, Reads(w)
  PROVE  /\ seen' \in [Writers -> States \cup {None}] /\ excused' \in BOOLEAN
         /\ \A v \in Writers \ {w} : seen'[v] = seen[v]
<1>1. [i \in {} |-> None] \in Clusterings
  <2>1. [i \in {} |-> None] \in [{} -> Entries] /\ {} \in SUBSET IDs
    OBVIOUS
  <2> QED BY <2>1 DEF Clusterings
<1>2. [clusters |-> [i \in {} |-> None], url |-> 0] \in States
  BY <1>1 DEF States
<1> QED BY <1>2 DEF Typed, Reads, Fault

\* What a request leaves alone in its own handler.
LEMMA GotoTyped ==
  ASSUME Typed, NEW r \in Requests, NEW st \in Stages, Goto(r, st)
  PROVE  /\ req' \in [Requests -> [stage : Stages, id : IDs \cup {None},
                                   entry : Entries \cup {None}, replaced : BOOLEAN]]
         /\ req'[r].stage = st /\ req'[r].id = req[r].id /\ req'[r].entry = req[r].entry
         /\ req'[r].replaced = req[r].replaced
         /\ \A q \in Requests \ {r} : req'[q] = req[q]
BY DEF Typed, Goto

LEMMA BeginsTyped == ASSUME excused \in BOOLEAN, Begins PROVE excused' \in BOOLEAN
BY DEF Begins

LEMMA StopTyped ==
  ASSUME Typed, NEW i \in IDs, StopAgent(i)
  PROVE  /\ agents' \in SUBSET [by : Requests \cup {"main"}, id : IDs, stopped : BOOLEAN]
         /\ cancels' \in [IDs -> Requests \cup {"main", None}]
<1>1. \A a \in [by : Requests \cup {"main"}, id : IDs, stopped : BOOLEAN] :
        [a EXCEPT !.stopped = TRUE] \in [by : Requests \cup {"main"}, id : IDs, stopped : BOOLEAN]
  OBVIOUS
<1> QED BY <1>1 DEF Typed, StopAgent

LEMMA StartTyped ==
  ASSUME Typed, NEW i \in IDs, NEW by \in Requests \cup {"main"}, StartAgent(by, i)
  PROVE  /\ agents' \in SUBSET [by : Requests \cup {"main"}, id : IDs, stopped : BOOLEAN]
         /\ cancels' \in [IDs -> Requests \cup {"main", None}]
<1>1. [by |-> by, id |-> i, stopped |-> FALSE]
        \in [by : Requests \cup {"main"}, id : IDs, stopped : BOOLEAN]
  OBVIOUS
<1>2. by \in Requests \cup {"main", None}
  OBVIOUS
<1> QED BY <1>1, <1>2 DEF Typed, StartAgent

LEMMA InitTyped == Init => Typed
<1> SUFFICES ASSUME Init PROVE Typed
  OBVIOUS
<1>1. asks \in [Requests -> Asks]
  BY Names DEF Init
<1>2. PICK key \in Keys :
        /\ disk = [clusters |-> [i \in {Old} |-> [key |-> key, readOnly |-> TRUE, by |-> None]],
                   url |-> 0]
        /\ acked = disk.clusters
  BY DEF Init
<1>3. disk.clusters \in [{Old} -> Entries] /\ {Old} \in SUBSET IDs
  BY <1>2 DEF Entries, IDs
<1>4. disk \in States /\ acked \in Clusterings
  BY <1>2, <1>3 DEF States, Clusterings
<1>5. /\ req \in [Requests -> [stage : Stages, id : IDs \cup {None}, entry : Entries \cup {None},
                               replaced : BOOLEAN]]
  BY DEF Init, Unused, Stages
<1>6. main \in Mains /\ tunnel \in Tunnels /\ tunnel.open = {} /\ tunnel.live = {}
  BY DEF Init, Mains, Tunnels, NoTunnel
<1>7. kubeconfigs \in SUBSET IDs /\ seen \in [Writers -> States \cup {None}] /\ agents = {}
      /\ cancels \in [IDs -> Requests \cup {"main", None}] /\ excused \in BOOLEAN
  BY DEF Init, IDs
<1> QED BY <1>1, <1>4, <1>5, <1>6, <1>7 DEF Typed

-----------------------------------------------------------------------------
\* The type invariant.

\* The entry that an add saves.
LEMMA EntryTyped ==
  ASSUME Typed, Placed, NEW r \in Requests, Stage(r) \in {"update", "stop", "start"},
         asks[r].op = "add"
  PROVE  req[r].entry \in Entries
<1>1. req[r].entry = [key |-> asks[r].key, readOnly |-> asks[r].readOnly, by |-> r]
  BY DEF Placed
<1>2. asks[r].key \in Keys /\ asks[r].readOnly \in BOOLEAN
  BY DEF Typed, Asks
<1> QED BY <1>1, <1>2 DEF Entries

\* Requests.
LEMMA RequestTyped ==
  ASSUME Typed, Placed, NEW r \in Requests, Arrives(r) \/ Handles(r) \/ UpdateFails(r)
  PROVE  Typed'
<1>1. ASSUME UNCHANGED <<asks, main, tunnel>>,
             req' \in [Requests -> [stage : Stages, id : IDs \cup {None},
                                    entry : Entries \cup {None}, replaced : BOOLEAN]],
             disk' \in States, kubeconfigs' \in SUBSET IDs,
             seen' \in [Writers -> States \cup {None}],
             agents' \in SUBSET [by : Requests \cup {"main"}, id : IDs, stopped : BOOLEAN],
             cancels' \in [IDs -> Requests \cup {"main", None}],
             acked' \in Clusterings, excused' \in BOOLEAN
      PROVE  Typed'
  BY <1>1 DEF Typed, Current
<1>2. r \in Writers /\ asks[r] \in Asks /\ disk \in States /\ disk.clusters \in Clusterings
      /\ seen \in [Writers -> States \cup {None}] /\ excused \in BOOLEAN
      /\ req \in [Requests -> [stage : Stages, id : IDs \cup {None},
                               entry : Entries \cup {None}, replaced : BOOLEAN]]
      /\ acked \in Clusterings /\ kubeconfigs \in SUBSET IDs /\ r \in IDs
  BY Names DEF Typed, States
<1>3. CASE AddArrives(r)
  <2>1. Goto(r, "lookup") /\ "lookup" \in Stages /\ excused' \in BOOLEAN
    BY <1>2, <1>3, BeginsTyped DEF AddArrives, Stages
  <2>2. UNCHANGED <<asks, disk, kubeconfigs, seen, agents, cancels, main, tunnel, acked>>
    BY <1>3 DEF AddArrives, files, manager
  <2> QED BY <2>1, <2>2, GotoTyped DEF Typed, Current
<1>4. CASE AddLooksUp(r)
  <2>1. UNCHANGED <<asks, disk, seen, agents, cancels, main, tunnel, acked>>
    BY <1>4 DEF AddLooksUp, manager
  <2>2. excused' \in BOOLEAN
    BY <1>2, <1>4 DEF AddLooksUp
  <2> DEFINE Entry == [key |-> asks[r].key, readOnly |-> asks[r].readOnly, by |-> r]
             Found(ids, i) ==
               /\ req' = [req EXCEPT ![r] = [stage |-> "update", id |-> i, entry |-> Entry,
                                              replaced |-> ids # {}]]
               /\ kubeconfigs' = kubeconfigs \cup {i}
  <2>3. \/ \E ids \in SUBSET IDs : \E i \in IF ids = {} THEN {r} ELSE ids : Found(ids, i)
        \/ Goto(r, "failed") /\ kubeconfigs' \subseteq kubeconfigs
    <3>1. Twins(r) \in SUBSET IDs /\ {} \in SUBSET IDs
      BY <1>2, ClusteringHolds DEF Twins
    <3> QED BY <1>4, <3>1 DEF AddLooksUp, Spoil
  <2>4. CASE Goto(r, "failed") /\ kubeconfigs' \subseteq kubeconfigs
    <3>1. kubeconfigs' \in SUBSET IDs /\ "failed" \in Stages
      BY <1>2, <2>4 DEF Stages
    <3> QED BY <2>1, <2>2, <2>4, <3>1, GotoTyped DEF Typed, Current
  <2>5. CASE \E ids \in SUBSET IDs : \E i \in IF ids = {} THEN {r} ELSE ids : Found(ids, i)
    <3>1. PICK ids \in SUBSET IDs, i \in IDs : Found(ids, i)
      BY <1>2, <2>5
    <3>2. Entry \in Entries
      BY <1>2 DEF Asks, Entries
    <3>3. req' \in [Requests -> [stage : Stages, id : IDs \cup {None},
                                 entry : Entries \cup {None}, replaced : BOOLEAN]]
      BY <1>2, <3>1, <3>2 DEF Stages
    <3>4. kubeconfigs' \in SUBSET IDs
      BY <1>2, <3>1
    <3> QED BY <2>1, <2>2, <3>3, <3>4 DEF Typed, Current
  <2> QED BY <2>3, <2>4, <2>5
<1>5. CASE RemoveArrives(r) \/ PatchArrives(r)
  <2>1. PICK i \in DOMAIN disk.clusters :
          /\ req' = [req EXCEPT ![r].stage = "update", ![r].id = i]
          /\ StopAgent(i) \/ UNCHANGED <<agents, cancels>>
    BY <1>5 DEF RemoveArrives, PatchArrives, manager
  <2>2. i \in IDs
    BY <1>2, <2>1, ClusteringHolds
  <2>3. excused' \in BOOLEAN
    BY <1>2, <1>5, BeginsTyped DEF RemoveArrives, PatchArrives
  <2>4. req' \in [Requests -> [stage : Stages, id : IDs \cup {None},
                               entry : Entries \cup {None}, replaced : BOOLEAN]]
    BY <1>2, <2>1, <2>2 DEF Stages
  <2>5. /\ agents' \in SUBSET [by : Requests \cup {"main"}, id : IDs, stopped : BOOLEAN]
        /\ cancels' \in [IDs -> Requests \cup {"main", None}]
    BY <2>1, <2>2, StopTyped DEF Typed
  <2>6. UNCHANGED <<asks, disk, kubeconfigs, seen, main, tunnel, acked>>
    BY <1>5 DEF RemoveArrives, PatchArrives, files
  <2> QED BY <1>2, <2>3, <2>4, <2>5, <2>6 DEF Typed, Current
<1>6. CASE UpdateReads(r)
  <2>1. UNCHANGED <<asks, req, disk, kubeconfigs, agents, cancels, main, tunnel, acked>>
    BY <1>6 DEF UpdateReads, files, manager
  <2>2. Reads(r)
    BY <1>6 DEF UpdateReads
  <2> QED BY <1>2, <2>1, <2>2, ReadsTyped DEF Typed, Current
<1>7. CASE UpdateWrites(r)
  <2>1. UNCHANGED <<asks, kubeconfigs, agents, cancels, main, tunnel, excused>>
    BY <1>7 DEF UpdateWrites, manager
  <2>2. seen[r] \in States /\ seen[r].clusters \in Clusterings /\ Cluster(r) \in IDs
        /\ Stage(r) = "update"
    BY <1>2, <1>7 DEF UpdateWrites, Writes, States, Placed
  <2>3. Changed(r) \in Clusterings
        /\ (asks[r].op = "patch" /\ Cluster(r) \in DOMAIN seen[r].clusters =>
              Changed(r)[Cluster(r)] \in Entries)
    <3>1. CASE asks[r].op = "add"
      <4>1. req[r].entry \in Entries
        BY <2>2, <3>1, EntryTyped
      <4> QED BY <2>2, <3>1, <4>1, PutHolds DEF Changed
    <3>2. CASE asks[r].op = "remove"
      BY <2>2, <3>2, DropHolds DEF Changed
    <3>3. CASE asks[r].op = "patch" /\ Cluster(r) \in DOMAIN seen[r].clusters
      <4>1. seen[r].clusters[Cluster(r)] \in Entries
        BY <2>2, <3>3, ClusteringHolds
      <4>2. PICK e \in Entries :
              e = [seen[r].clusters[Cluster(r)] EXCEPT !.readOnly = asks[r].readOnly, !.by = r]
        BY <1>2, <4>1 DEF Entries, Asks
      <4>3. Changed(r) = Put(seen[r].clusters, Cluster(r), e)
        BY <3>3, <4>2 DEF Changed
      <4>4. PICK f \in Clusterings, i \in IDs : f = seen[r].clusters /\ i = Cluster(r)
        BY <2>2
      <4>5. Changed(r) = Put(f, i, e)
        BY <4>3, <4>4
      <4>6. Put(f, i, e) \in Clusterings /\ Put(f, i, e)[i] = e
        BY PutHolds
      <4> QED BY <4>2, <4>4, <4>5, <4>6
    <3>4. CASE asks[r].op = "patch" /\ Cluster(r) \notin DOMAIN seen[r].clusters
      BY <2>2, <3>4 DEF Changed
    <3> QED BY <1>2, <3>1, <3>2, <3>3, <3>4 DEF Asks
  <2>4. disk' \in States /\ seen' \in [Writers -> States \cup {None}]
    <3>1. disk' = [seen[r] EXCEPT !.clusters = Changed(r)] /\ seen' = [seen EXCEPT ![r] = None]
      BY <1>7 DEF UpdateWrites, Writes
    <3> QED BY <1>2, <2>2, <2>3, <3>1 DEF States
  <2>5. acked' \in Clusterings
    <3>1. CASE Cluster(r) \in DOMAIN seen[r].clusters /\ asks[r].op = "patch"
      <4>1. acked' = Put(acked, Cluster(r), Changed(r)[Cluster(r)])
        BY <1>7, <3>1 DEF UpdateWrites
      <4> QED BY <1>2, <2>2, <2>3, <3>1, <4>1, PutHolds
    <3>2. CASE ~(Cluster(r) \in DOMAIN seen[r].clusters /\ asks[r].op = "patch")
      BY <1>2, <1>7, <3>2 DEF UpdateWrites
    <3> QED BY <3>1, <3>2
  <2>6. \E st \in Stages : Goto(r, st)
    BY <1>7 DEF UpdateWrites, Stages
  <2> QED BY <1>1, <1>2, <2>1, <2>4, <2>5, <2>6, GotoTyped DEF Typed
<1>8. CASE UpdateFails(r)
  <2>1. UNCHANGED <<asks, disk, agents, cancels, main, tunnel, acked, excused>>
    BY <1>8 DEF UpdateFails, manager
  <2>2. Goto(r, "failed") /\ "failed" \in Stages /\ kubeconfigs' \subseteq kubeconfigs
        /\ seen' = [seen EXCEPT ![r] = None]
    BY <1>8 DEF UpdateFails, Stages
  <2>3. seen' \in [Writers -> States \cup {None}] /\ kubeconfigs' \in SUBSET IDs
    BY <1>2, <2>2
  <2> QED BY <2>1, <2>2, <2>3, GotoTyped DEF Typed, Current
<1>9. CASE RemoveCleans(r)
  <2>1. UNCHANGED <<asks, disk, seen, agents, cancels, main, tunnel, excused>>
    BY <1>9 DEF RemoveCleans, manager
  <2>2. Goto(r, "answered") /\ "answered" \in Stages /\ kubeconfigs' \in SUBSET IDs
        /\ Cluster(r) \in IDs
    BY <1>2, <1>9 DEF RemoveCleans, Stages, Placed
  <2>3. acked' \in Clusterings
    BY <1>2, <1>9, <2>2, DropHolds DEF RemoveCleans
  <2> QED BY <2>1, <2>2, <2>3, GotoTyped DEF Typed, Current
<1>10. CASE AddStopsOld(r)
  <2>1. UNCHANGED <<asks, disk, kubeconfigs, seen, main, tunnel, acked, excused>>
    BY <1>10 DEF AddStopsOld, files
  <2>2. Goto(r, "start") /\ "start" \in Stages /\ Cluster(r) \in IDs /\ StopAgent(Cluster(r))
    BY <1>10 DEF AddStopsOld, Stages, Placed
  <2>3. /\ agents' \in SUBSET [by : Requests \cup {"main"}, id : IDs, stopped : BOOLEAN]
        /\ cancels' \in [IDs -> Requests \cup {"main", None}]
    BY <2>2, StopTyped
  <2> QED BY <2>1, <2>2, <2>3, GotoTyped DEF Typed, Current
<1>11. CASE AddStarts(r)
  <2>1. UNCHANGED <<asks, disk, kubeconfigs, seen, main, tunnel, excused>>
    BY <1>11 DEF AddStarts, files
  <2>2. Goto(r, "answered") /\ "answered" \in Stages /\ Cluster(r) \in IDs
        /\ StartAgent(r, Cluster(r)) /\ asks[r].op = "add" /\ Stage(r) = "start"
    BY <1>11 DEF AddStarts, Stages, Placed
  <2>3. /\ agents' \in SUBSET [by : Requests \cup {"main"}, id : IDs, stopped : BOOLEAN]
        /\ cancels' \in [IDs -> Requests \cup {"main", None}]
    BY <2>2, StartTyped
  <2>4. req[r].entry \in Entries
    BY <2>2, EntryTyped
  <2>5. acked' \in Clusterings
    BY <1>2, <1>11, <2>2, <2>4, PutHolds DEF AddStarts
  <2> QED BY <2>1, <2>2, <2>3, <2>5, GotoTyped DEF Typed, Current
<1> QED BY <1>3, <1>4, <1>5, <1>6, <1>7, <1>8, <1>9, <1>10, <1>11 DEF Arrives, Handles

\* Agents, the main goroutine and the supervisor.
LEMMA ProcessTyped ==
  ASSUME Typed, Placed,
         \/ \E a \in agents : AgentEnds(a)
         \/ URLNotWritten("main") \/ URLNotWritten("supervisor")
         \/ Main \/ Supervisor \/ ShowsURL \/ CloudflaredExits \/ TimesOut \/ Crashes \/ Restarts
  PROVE  Typed'
<1>1. /\ disk \in States /\ disk.clusters \in Clusterings /\ main \in Mains /\ tunnel \in Tunnels
      /\ seen \in [Writers -> States \cup {None}] /\ excused \in BOOLEAN
      /\ "main" \in Writers /\ "supervisor" \in Writers
      /\ tunnel.open \subseteq 1..Current /\ tunnel.live \subseteq 1..Current
      /\ req \in [Requests -> [stage : Stages, id : IDs \cup {None},
                               entry : Entries \cup {None}, replaced : BOOLEAN]]
  BY DEF Typed, Writers, States
<1>2. ASSUME UNCHANGED <<asks, req, disk, kubeconfigs, agents, cancels, acked>>,
             seen' \in [Writers -> States \cup {None}], main' \in Mains, tunnel' \in Tunnels,
             tunnel'.open \subseteq 1..tunnel'.spawned, tunnel'.live \subseteq 1..tunnel'.spawned,
             excused' \in BOOLEAN
      PROVE  Typed'
  BY <1>2 DEF Typed, Current
<1>3. ASSUME Ends PROVE Typed'
  <2>1. UNCHANGED <<asks, disk, acked, excused>> /\ kubeconfigs' \subseteq kubeconfigs
    BY <1>3 DEF Ends, Spoil
  <2>2. req' \in [Requests -> [stage : Stages, id : IDs \cup {None},
                               entry : Entries \cup {None}, replaced : BOOLEAN]]
    BY <1>1, <1>3 DEF Ends, Stages
  <2>3. /\ seen' \in [Writers -> States \cup {None}]
        /\ agents' \in SUBSET [by : Requests \cup {"main"}, id : IDs, stopped : BOOLEAN]
        /\ cancels' \in [IDs -> Requests \cup {"main", None}]
    BY <1>3 DEF Ends
  <2>4. main' \in Mains /\ tunnel' \in Tunnels /\ tunnel'.open = {} /\ tunnel'.live = {}
    BY <1>1, <1>3 DEF Ends, Mains, Tunnels, NoTunnel
  <2> QED BY <2>1, <2>2, <2>3, <2>4 DEF Typed
<1>4. ASSUME NEW a \in agents, AgentEnds(a) PROVE Typed'
  BY <1>4 DEF AgentEnds, Typed, files, Current
<1>5. CASE URLNotWritten("main") \/ URLNotWritten("supervisor")
  <2>1. UNCHANGED <<asks, req, disk, kubeconfigs, agents, cancels, acked>> /\ excused' = TRUE
    BY <1>5 DEF URLNotWritten, files, manager
  <2>2. seen' \in [Writers -> States \cup {None}]
    BY <1>1, <1>5 DEF URLNotWritten
  <2>3. main' \in Mains
    BY <1>1, <1>5 DEF URLNotWritten, Mains
  <2>4. tunnel' \in Tunnels /\ tunnel'.open = tunnel.open /\ tunnel'.live = tunnel.live
        /\ tunnel'.spawned = tunnel.spawned
    BY <1>1, <1>5 DEF URLNotWritten, Tunnels
  <2> QED BY <1>1, <1>2, <2>1, <2>2, <2>3, <2>4 DEF Current
<1>6. CASE Loads \/ StartsTunnel \/ TakesFirst \/ TakesURL
  <2>1. UNCHANGED <<asks, req, disk, kubeconfigs, seen, agents, cancels, acked>>
    BY <1>6 DEF Loads, StartsTunnel, TakesFirst, TakesURL, files, manager
  <2>2. excused' \in BOOLEAN
    BY <1>1, <1>6, BeginsTyped DEF Loads, StartsTunnel, TakesFirst, TakesURL
  <2>3. DOMAIN disk.clusters \in SUBSET IDs
    BY <1>1, ClusteringHolds
  <2>4. main' \in Mains
    BY <1>1, <1>6, <2>3 DEF Loads, StartsTunnel, TakesFirst, TakesURL, Mains, Tunnels
  <2>5. tunnel' \in Tunnels /\ tunnel'.open \subseteq 1..tunnel'.spawned
        /\ tunnel'.live \subseteq 1..tunnel'.spawned
    <3>1. CASE StartsTunnel
      <4>1. tunnel' = [NoTunnel EXCEPT !.stage = "spawn", !.spawned = tunnel.spawned]
            /\ tunnel.spawned \in Nat
        BY <1>1, <3>1 DEF StartsTunnel, Tunnels
      <4> QED BY <4>1 DEF Tunnels, NoTunnel
    <3>2. CASE TakesFirst
      <4>1. tunnel' = [tunnel EXCEPT !.url = tunnel.offer, !.offer = 0]
        BY <3>2 DEF TakesFirst
      <4>2. tunnel' \in Tunnels /\ tunnel'.open = tunnel.open /\ tunnel'.live = tunnel.live
            /\ tunnel'.spawned = tunnel.spawned
        BY <1>1, <4>1 DEF Tunnels
      <4> QED BY <1>1, <4>2 DEF Current
    <3>3. CASE Loads \/ TakesURL
      BY <1>1, <3>3 DEF Loads, TakesURL, Current
    <3> QED BY <1>6, <3>1, <3>2, <3>3
  <2> QED BY <1>1, <1>2, <2>1, <2>2, <2>4, <2>5
<1>7. CASE BootStarts
  <2>1. PICK i \in main.toStart :
          /\ StartAgent("main", i)
          /\ main' = [main EXCEPT !.toStart = @ \ {i}]
          /\ UNCHANGED <<asks, req, files, seen, tunnel, acked, excused, faults>>
    BY <1>7 DEF BootStarts
  <2>2. i \in IDs /\ main' \in Mains
    BY <1>1, <2>1 DEF Mains
  <2>3. /\ agents' \in SUBSET [by : Requests \cup {"main"}, id : IDs, stopped : BOOLEAN]
        /\ cancels' \in [IDs -> Requests \cup {"main", None}]
    BY <2>1, <2>2, StartTyped
  <2> QED BY <2>1, <2>2, <2>3 DEF Typed, files, Current
<1>8. CASE MainReads \/ SupervisorReads
  <2>1. UNCHANGED <<asks, req, disk, kubeconfigs, agents, cancels, acked, main, tunnel>>
    BY <1>8 DEF MainReads, SupervisorReads, files, manager
  <2>2. seen' \in [Writers -> States \cup {None}] /\ excused' \in BOOLEAN
    BY <1>1, <1>8, ReadsTyped DEF MainReads, SupervisorReads
  <2> QED BY <1>1, <1>2, <2>1, <2>2 DEF Current
<1>9. CASE MainWrites \/ SupervisorWrites
  <2>1. UNCHANGED <<asks, req, kubeconfigs, agents, cancels, acked, excused>>
    BY <1>9 DEF MainWrites, SupervisorWrites, manager
  <2>2. disk' \in States /\ seen' \in [Writers -> States \cup {None}]
    <3>1. CASE MainWrites
      <4>1. seen["main"] \in States /\ main.url \in Nat
        BY <1>1, <3>1 DEF MainWrites, Writes, Mains
      <4>2. disk' = [seen["main"] EXCEPT !.url = main.url] /\ seen' = [seen EXCEPT !["main"] = None]
        BY <3>1 DEF MainWrites, Writes
      <4> QED BY <1>1, <4>1, <4>2 DEF States
    <3>2. CASE SupervisorWrites
      <4>1. seen["supervisor"] \in States /\ tunnel.url \in Nat
        BY <1>1, <3>2 DEF SupervisorWrites, Writes, Tunnels
      <4>2. /\ disk' = [seen["supervisor"] EXCEPT !.url = tunnel.url]
            /\ seen' = [seen EXCEPT !["supervisor"] = None]
        BY <3>2 DEF SupervisorWrites, Writes
      <4> QED BY <1>1, <4>1, <4>2 DEF States
    <3> QED BY <1>9, <3>1, <3>2
  <2>3. main' \in Mains
    BY <1>1, <1>9 DEF MainWrites, SupervisorWrites, Mains
  <2>4. tunnel' \in Tunnels /\ tunnel'.open = tunnel.open /\ tunnel'.live = tunnel.live
        /\ tunnel'.spawned = tunnel.spawned
    BY <1>1, <1>9 DEF MainWrites, SupervisorWrites, Tunnels
  <2> QED BY <1>1, <2>1, <2>2, <2>3, <2>4 DEF Typed, Current
<1>10. CASE SeesURL \/ ShowsURL \/ CloudflaredExits
  <2>1. UNCHANGED <<asks, req, disk, kubeconfigs, seen, agents, cancels, acked, main>>
    BY <1>10 DEF SeesURL, ShowsURL, CloudflaredExits, files, manager
  <2>2. excused' \in BOOLEAN
    BY <1>1, <1>10, BeginsTyped DEF SeesURL, ShowsURL, CloudflaredExits
  <2>3. tunnel' \in Tunnels /\ tunnel'.open \subseteq tunnel.open \cup tunnel.live
        /\ tunnel'.live \subseteq tunnel.live /\ tunnel'.spawned = tunnel.spawned
    <3>1. tunnel.spawned \in Nat /\ tunnel.live \in SUBSET Nat /\ tunnel.open \in SUBSET Nat
      BY <1>1 DEF Tunnels
    <3>2. CASE SeesURL
      <4>1. \/ tunnel' = [tunnel EXCEPT !.stage = "hold", !.first = FALSE, !.offer = tunnel.spawned]
            \/ tunnel' = [tunnel EXCEPT !.stage = "publish", !.url = tunnel.spawned]
        BY <3>2 DEF SeesURL, Current
      <4> QED BY <1>1, <3>1, <4>1 DEF Tunnels
    <3>3. CASE ShowsURL
      <4>1. tunnel' = [tunnel EXCEPT !.open = tunnel.open \cup {tunnel.spawned}]
            /\ tunnel.spawned \in tunnel.live
        BY <3>3 DEF ShowsURL, Current
      <4> QED BY <1>1, <3>1, <4>1 DEF Tunnels
    <3>4. CASE CloudflaredExits
      <4>1. tunnel' = [tunnel EXCEPT !.live = tunnel.live \ {tunnel.spawned}]
        BY <3>4 DEF CloudflaredExits, Current
      <4> QED BY <1>1, <3>1, <4>1 DEF Tunnels
    <3> QED BY <1>10, <3>2, <3>3, <3>4
  <2> QED BY <1>1, <1>2, <2>1, <2>2, <2>3 DEF Current
<1>11. CASE Spawns
  <2>1. UNCHANGED <<asks, req, disk, kubeconfigs, seen, agents, cancels, acked, main, excused>>
    BY <1>11 DEF Spawns, files, manager
  <2>2. PICK n \in Nat : n = tunnel.spawned
    BY <1>1 DEF Tunnels
  <2>3. tunnel' \in Tunnels /\ tunnel'.open = tunnel.open /\ tunnel'.live = tunnel.live \cup {n + 1}
        /\ tunnel'.spawned = n + 1
    <3>1. tunnel.live \cup {n + 1} \in SUBSET Nat /\ n + 1 \in Nat
      BY <1>1, <2>2 DEF Tunnels
    <3>2. tunnel' = [tunnel EXCEPT !.stage = "await", !.spawned = n + 1,
                                   !.live = tunnel.live \cup {n + 1}]
      BY <1>1, <1>11, <2>2 DEF Spawns, Tunnels
    <3> QED BY <1>1, <3>1, <3>2 DEF Tunnels
  <2>4. 1..n \subseteq 1..(n + 1) /\ n + 1 \in 1..(n + 1)
    BY <2>2
  <2> QED BY <1>1, <1>2, <2>1, <2>2, <2>3, <2>4 DEF Current
<1>12. CASE GivesUp \/ TimesOut
  <2>1. CASE Ends
    BY <1>3, <2>1
  <2>2. CASE /\ tunnel' = [tunnel EXCEPT !.stage = "spawn"]
             /\ UNCHANGED <<asks, req, files, seen, manager, main, acked, excused>>
    <3>1. tunnel' \in Tunnels /\ tunnel'.open = tunnel.open /\ tunnel'.live = tunnel.live
          /\ tunnel'.spawned = tunnel.spawned
      BY <1>1, <2>2 DEF Tunnels
    <3> QED BY <1>1, <1>2, <2>2, <3>1 DEF Current, files, manager
  <2> QED BY <1>12, <2>1, <2>2 DEF GivesUp, TimesOut
<1>13. CASE Crashes
  BY <1>3, <1>13 DEF Crashes
<1>14. CASE Restarts
  <2>1. UNCHANGED <<asks, req, disk, kubeconfigs, seen, agents, cancels, acked, tunnel>>
    BY <1>14 DEF Restarts, files, manager
  <2>2. excused' \in BOOLEAN
    BY <1>1, <1>14, BeginsTyped DEF Restarts
  <2>3. main' \in Mains
    BY <1>1, <1>14 DEF Restarts, Mains
  <2> QED BY <1>1, <1>2, <2>1, <2>2, <2>3 DEF Current
<1> QED BY <1>4, <1>5, <1>6, <1>7, <1>8, <1>9, <1>10, <1>11, <1>12, <1>13, <1>14
        DEF Main, Supervisor

LEMMA StepTyped == Typed /\ Placed /\ [Next]_vars => Typed'
<1>1. ASSUME Typed, UNCHANGED vars PROVE Typed'
  BY <1>1 DEF Typed, vars, files, manager, Current
<1> QED BY <1>1, RequestTyped, ProcessTyped DEF Next

\* What a request's handler changes, other than the files and the agents, is its own.
LEMMA RequestFrame ==
  ASSUME Typed, Placed, NEW r \in Requests, Arrives(r) \/ Handles(r) \/ UpdateFails(r)
  PROVE  /\ Up /\ UNCHANGED <<asks, main, tunnel>>
         /\ \A v \in Writers \ {r} : seen'[v] = seen[v]
         /\ \A q \in Requests \ {r} : req'[q] = req[q]
<1>0. /\ req \in [Requests -> [stage : Stages, id : IDs \cup {None}, entry : Entries \cup {None},
                               replaced : BOOLEAN]]
      /\ seen \in [Writers -> States \cup {None}]
  BY DEF Typed
<1>1. Up
  <2>1. CASE Arrives(r)
    BY <2>1 DEF Arrives, AddArrives, RemoveArrives, PatchArrives
  <2>2. CASE Handles(r) \/ UpdateFails(r)
    <3>1. InFlight(r)
      BY <2>2 DEF Handles, UpdateFails, AddLooksUp, UpdateReads, UpdateWrites, RemoveCleans,
         AddStopsOld, AddStarts, InFlight
    <3> QED BY <3>1 DEF Placed
  <2> QED BY <2>1, <2>2
<1>2. UNCHANGED <<asks, main, tunnel>>
  BY DEF Arrives, Handles, UpdateFails, AddArrives, RemoveArrives, PatchArrives, AddLooksUp,
     UpdateReads, UpdateWrites, RemoveCleans, AddStopsOld, AddStarts
<1>3. \A v \in Writers \ {r} : seen'[v] = seen[v]
  BY <1>0 DEF Arrives, Handles, UpdateFails, AddArrives, RemoveArrives, PatchArrives, AddLooksUp,
     UpdateReads, UpdateWrites, RemoveCleans, AddStopsOld, AddStarts, Reads, Writes
<1>4. \A q \in Requests \ {r} : req'[q] = req[q]
  BY <1>0 DEF Arrives, Handles, UpdateFails, AddArrives, RemoveArrives, PatchArrives, AddLooksUp,
     UpdateReads, UpdateWrites, RemoveCleans, AddStopsOld, AddStarts, Goto
<1> QED BY <1>1, <1>2, <1>3, <1>4

LEMMA RequestPlaced ==
  ASSUME Typed, Placed, NEW r \in Requests, Arrives(r) \/ Handles(r) \/ UpdateFails(r)
  PROVE  Placed'
<1> DEFINE Own ==
      /\ req'[r].stage \in {"update", "stop", "start", "clean"} => req'[r].id \in IDs
      /\ req'[r].stage \in {"update", "stop", "start"} /\ asks[r].op = "add" =>
           req'[r].entry = [key |-> asks[r].key, readOnly |-> asks[r].readOnly, by |-> r]
      /\ req'[r].stage \in {"lookup", "stop", "start"} => asks[r].op = "add"
      /\ req'[r].stage = "clean" => asks[r].op = "remove"
      /\ seen'[r] # None => req'[r].stage = "update"
<1>1. /\ Up /\ UNCHANGED <<asks, main, tunnel>>
      /\ \A v \in Writers \ {r} : seen'[v] = seen[v]
      /\ \A q \in Requests \ {r} : req'[q] = req[q]
  BY RequestFrame
<1>2. /\ req \in [Requests -> [stage : Stages, id : IDs \cup {None}, entry : Entries \cup {None},
                               replaced : BOOLEAN]]
      /\ seen \in [Writers -> States \cup {None}] /\ r \in Writers
      /\ "main" \in Writers \ {r} /\ "supervisor" \in Writers \ {r}
      /\ \A q \in Requests : q \in Writers
      /\ asks[r].op \in {"add", "remove", "patch"} /\ DOMAIN disk.clusters \subseteq IDs
  BY Names, ClusteringHolds DEF Typed, Writers, Asks, States
<1>3. Own
  <2>1. CASE AddArrives(r)
    <3>1. req'[r].stage = "lookup" /\ seen'[r] = seen[r] /\ req[r].stage = "unsent"
          /\ asks[r].op = "add"
      BY <1>2, <2>1 DEF AddArrives, Goto, Stage
    <3>2. seen[r] = None
      BY <3>1 DEF Placed, Stage
    <3> QED BY <3>1, <3>2
  <2>2. CASE RemoveArrives(r) \/ PatchArrives(r)
    BY <1>2, <2>2 DEF RemoveArrives, PatchArrives, Placed, Stage, Cluster
  <2>3. CASE AddLooksUp(r)
    <3>1. seen'[r] = seen[r] /\ Stage(r) = "lookup"
      BY <1>2, <2>3 DEF AddLooksUp
    <3>2. CASE Goto(r, "failed")
      <4>1. req'[r].stage = "failed"
        BY <1>2, <3>2 DEF Goto
      <4>2. seen[r] = None
        BY <3>1 DEF Placed
      <4> QED BY <3>1, <4>1, <4>2
    <3>3. CASE ~Goto(r, "failed")
      <4>1. PICK ids \in {{}, Twins(r)} : \E i \in IF ids = {} THEN {r} ELSE ids :
              req' = [req EXCEPT ![r] = [stage |-> "update", id |-> i, replaced |-> ids # {},
                entry |-> [key |-> asks[r].key, readOnly |-> asks[r].readOnly, by |-> r]]]
        BY <2>3, <3>3 DEF AddLooksUp
      <4>2. PICK i \in IDs :
              req' = [req EXCEPT ![r] = [stage |-> "update", id |-> i, replaced |-> ids # {},
                entry |-> [key |-> asks[r].key, readOnly |-> asks[r].readOnly, by |-> r]]]
        BY <1>2, <4>1, Names DEF Twins
      <4>3. /\ req'[r].stage = "update" /\ req'[r].id \in IDs
            /\ req'[r].entry = [key |-> asks[r].key, readOnly |-> asks[r].readOnly, by |-> r]
        BY <1>2, <4>2
      <4> QED BY <3>1, <4>3
    <3> QED BY <3>2, <3>3
  <2>4. CASE UpdateReads(r)
    BY <1>2, <2>4 DEF UpdateReads, Placed, Stage, Cluster
  <2>5. CASE UpdateWrites(r)
    <3>1. seen'[r] = None /\ req'[r].id = req[r].id /\ req'[r].entry = req[r].entry
          /\ Stage(r) = "update"
      BY <1>2, <2>5 DEF UpdateWrites, Writes, Goto, Stage, Cluster
    <3>2. /\ asks[r].op = "add" => req'[r].stage = "stop"
          /\ asks[r].op = "remove" => req'[r].stage \in {"clean", "answered"}
          /\ asks[r].op = "patch" => req'[r].stage \in {"failed", "answered"}
      BY <1>2, <2>5 DEF UpdateWrites, Goto, Stage, Cluster
    <3> QED BY <1>2, <3>1, <3>2 DEF Placed, Stage, Cluster
  <2>6. CASE UpdateFails(r)
    BY <1>2, <2>6 DEF UpdateFails, Goto, Stage, Cluster
  <2>7. CASE RemoveCleans(r)
    <3>1. req'[r].stage = "answered" /\ seen'[r] = seen[r] /\ req[r].stage = "clean"
      BY <1>2, <2>7 DEF RemoveCleans, Goto, Stage
    <3>2. seen[r] = None
      BY <3>1 DEF Placed, Stage
    <3> QED BY <3>1, <3>2
  <2>8. CASE AddStopsOld(r)
    BY <1>2, <2>8 DEF AddStopsOld, Goto, Placed, Stage, Cluster
  <2>9. CASE AddStarts(r)
    <3>1. req'[r].stage = "answered" /\ seen'[r] = seen[r] /\ req[r].stage = "start"
      BY <1>2, <2>9 DEF AddStarts, Goto, Stage
    <3>2. seen[r] = None
      BY <3>1 DEF Placed, Stage
    <3> QED BY <3>1, <3>2
  <2> QED BY <2>1, <2>2, <2>3, <2>4, <2>5, <2>6, <2>7, <2>8, <2>9 DEF Arrives, Handles
<1> HIDE DEF Own
<1>4. \A q \in Requests \ {r} : seen'[q] = seen[q] /\ req'[q] = req[q]
  BY <1>1, <1>2
<1>5. seen'["main"] = seen["main"] /\ seen'["supervisor"] = seen["supervisor"]
  BY <1>1, <1>2
<1>6. \A q \in Requests :
       /\ Stage(q)' \in {"update", "stop", "start", "clean"} => Cluster(q)' \in IDs
       /\ Stage(q)' \in {"update", "stop", "start"} /\ asks'[q].op = "add" =>
            req'[q].entry = [key |-> asks'[q].key, readOnly |-> asks'[q].readOnly, by |-> q]
       /\ Stage(q)' \in {"lookup", "stop", "start"} => asks'[q].op = "add"
       /\ Stage(q)' = "clean" => asks'[q].op = "remove"
       /\ seen'[q] # None => Stage(q)' = "update"
  <2> TAKE q \in Requests
  <2>1. CASE q = r
    BY <1>1, <1>3, <2>1 DEF Own, Stage, Cluster
  <2>2. CASE q # r
    BY <1>1, <1>4, <2>2 DEF Placed, Stage, Cluster
  <2> QED BY <2>1, <2>2
<1> QED BY <1>1, <1>5, <1>6 DEF Placed, Up

LEMMA ProcessPlaced ==
  ASSUME Typed, Placed,
         \/ \E a \in agents : AgentEnds(a)
         \/ URLNotWritten("main") \/ URLNotWritten("supervisor")
         \/ Main \/ Supervisor \/ ShowsURL \/ CloudflaredExits \/ TimesOut \/ Crashes \/ Restarts
  PROVE  Placed'
<1>1. /\ main \in Mains /\ tunnel \in Tunnels /\ seen \in [Writers -> States \cup {None}]
      /\ "main" \in Writers /\ "supervisor" \in Writers /\ Requests \subseteq Writers
      /\ "main" \notin Requests /\ "supervisor" \notin Requests
  BY Names DEF Typed, Writers
<1> DEFINE Ends2 ==
      /\ seen'["main"] # None => main'.stage \in {"publish", "record"}
      /\ seen'["supervisor"] # None => tunnel'.stage = "publish"
      /\ main'.stage # "starting" => main'.toStart = {}
      /\ main'.stage \in {"down", "load", "starting"} =>
           tunnel'.stage = "off" /\ tunnel'.offer = 0 /\ tunnel'.live = {}
      /\ tunnel'.offer # 0 => main'.stage = "tunnel" /\ ~tunnel'.first
      /\ tunnel'.first /\ tunnel'.stage # "off" => main'.stage = "tunnel"
<1>2. ASSUME UNCHANGED <<asks, req>>, \A r \in Requests : seen'[r] = seen[r], Ends2,
             main'.stage = "down" => agents' = {} /\ main.stage = "down"
      PROVE  Placed'
  <2>1. \A r \in Requests : Stage(r)' = Stage(r) /\ Cluster(r)' = Cluster(r)
                            /\ InFlight(r)' = InFlight(r)
    BY <1>2 DEF Stage, Cluster, InFlight
  <2> QED BY <1>2, <2>1 DEF Placed, Up
<1>3. ASSUME Ends PROVE Placed'
  <2>1. /\ main'.stage = "down" /\ main'.toStart = {} /\ tunnel'.stage = "off"
        /\ tunnel'.offer = 0 /\ tunnel'.live = {} /\ agents' = {}
        /\ \A w \in Writers : seen'[w] = None
    BY <1>1, <1>3 DEF Ends, NoTunnel
  <2>2. \A r \in Requests : req'[r].stage \in {"unsent", "answered", "failed", "lost"}
    BY <1>3 DEF Ends, InFlight, Typed, Stage
  <2> QED BY <1>1, <2>1, <2>2 DEF Placed, Up, InFlight, Stage, Cluster
<1>4. ASSUME NEW a \in agents, AgentEnds(a) PROVE Placed'
  <2>1. UNCHANGED <<asks, req, seen, main, tunnel>> /\ (agents = {} => agents' = {})
    BY <1>4 DEF AgentEnds
  <2>2. Ends2
    BY <2>1 DEF Placed
  <2> QED BY <1>2, <2>1, <2>2 DEF Placed, Up
<1>5. CASE URLNotWritten("main") \/ URLNotWritten("supervisor")
  <2>1. UNCHANGED <<asks, req, agents>>
    BY <1>5 DEF URLNotWritten, manager
  <2>2. \A r \in Requests : seen'[r] = seen[r]
    BY <1>1, <1>5 DEF URLNotWritten
  <2>3. CASE URLNotWritten("main")
    <3>1. /\ seen'["main"] = None /\ seen'["supervisor"] = seen["supervisor"] /\ tunnel' = tunnel
          /\ main.stage \in {"publish", "record"} /\ main'.stage \in {"take", "serving"}
          /\ main'.toStart = main.toStart
      BY <1>1, <2>3 DEF URLNotWritten, Mains, Placed
    <3>2. Ends2
      BY <3>1 DEF Placed
    <3> QED BY <1>2, <2>1, <2>2, <3>1, <3>2
  <2>4. CASE URLNotWritten("supervisor")
    <3>1. /\ seen'["supervisor"] = None /\ seen'["main"] = seen["main"] /\ main' = main
          /\ tunnel.stage = "publish" /\ tunnel'.stage = "hold"
          /\ tunnel'.first = tunnel.first /\ tunnel'.offer = tunnel.offer
          /\ tunnel'.live = tunnel.live
      BY <1>1, <2>4 DEF URLNotWritten, Tunnels, Placed
    <3>2. Ends2
      BY <3>1 DEF Placed
    <3> QED BY <1>2, <2>1, <2>2, <3>1, <3>2 DEF Placed
  <2> QED BY <1>5, <2>3, <2>4
<1>6. CASE Loads \/ StartsTunnel \/ TakesFirst \/ TakesURL
  <2>1. UNCHANGED <<asks, req, seen, agents>>
    BY <1>6 DEF Loads, StartsTunnel, TakesFirst, TakesURL, manager
  <2>2. main'.stage # "down"
    BY <1>1, <1>6 DEF Loads, StartsTunnel, TakesFirst, TakesURL, Mains
  <2>3. CASE Loads
    <3>1. tunnel' = tunnel /\ main.stage = "load" /\ main'.stage = "starting"
      BY <1>1, <2>3 DEF Loads, Mains
    <3>2. Ends2
      BY <2>1, <3>1 DEF Placed
    <3> QED BY <1>2, <2>1, <2>2, <3>2
  <2>4. CASE StartsTunnel
    <3>1. /\ main.stage = "starting" /\ main'.stage = "tunnel" /\ main'.toStart = {}
          /\ tunnel'.stage = "spawn" /\ tunnel'.offer = 0
      BY <1>1, <2>4 DEF StartsTunnel, Mains, NoTunnel
    <3>2. Ends2
      BY <2>1, <3>1 DEF Placed
    <3> QED BY <1>2, <2>1, <2>2, <3>2
  <2>5. CASE TakesFirst
    <3>1. /\ main.stage = "tunnel" /\ main'.stage = "publish" /\ main'.toStart = main.toStart
          /\ tunnel'.stage = tunnel.stage /\ tunnel'.offer = 0 /\ tunnel.offer # 0
          /\ tunnel'.first = tunnel.first
      BY <1>1, <2>5 DEF TakesFirst, Mains, Tunnels
    <3>2. Ends2
      BY <2>1, <3>1 DEF Placed
    <3> QED BY <1>2, <2>1, <2>2, <3>2
  <2>6. CASE TakesURL
    <3>1. /\ main.stage = "take" /\ main'.stage = "record" /\ main'.toStart = main.toStart
          /\ tunnel' = tunnel
      BY <1>1, <2>6 DEF TakesURL, Mains
    <3>2. Ends2
      BY <2>1, <3>1 DEF Placed
    <3> QED BY <1>2, <2>1, <2>2, <3>2
  <2> QED BY <1>6, <2>3, <2>4, <2>5, <2>6
<1>7. CASE BootStarts
  <2>1. /\ UNCHANGED <<asks, req, seen, tunnel>> /\ main'.stage = main.stage
        /\ main.toStart # {}
    BY <1>1, <1>7 DEF BootStarts, Mains
  <2>2. main.stage = "starting"
    BY <2>1 DEF Placed
  <2>3. Ends2
    BY <2>1, <2>2 DEF Placed
  <2> QED BY <1>2, <2>1, <2>2, <2>3
<1>8. CASE MainReads \/ SupervisorReads
  <2>1. UNCHANGED <<asks, req, agents, main, tunnel>>
    BY <1>8 DEF MainReads, SupervisorReads, manager
  <2>2. \A r \in Requests : seen'[r] = seen[r]
    BY <1>1, <1>8 DEF MainReads, SupervisorReads, Reads
  <2>3. Ends2
    BY <1>1, <1>8, <2>1 DEF MainReads, SupervisorReads, Reads, Placed
  <2> QED BY <1>2, <2>1, <2>2, <2>3 DEF Placed, Up
<1>9. CASE MainWrites \/ SupervisorWrites
  <2>1. UNCHANGED <<asks, req, agents>>
    BY <1>9 DEF MainWrites, SupervisorWrites, manager
  <2>2. \A r \in Requests : seen'[r] = seen[r]
    BY <1>1, <1>9 DEF MainWrites, SupervisorWrites, Writes
  <2>3. CASE MainWrites
    <3>1. /\ seen'["main"] = None /\ seen'["supervisor"] = seen["supervisor"] /\ tunnel' = tunnel
          /\ main.stage \in {"publish", "record"} /\ main'.stage \in {"take", "serving"}
          /\ main'.toStart = main.toStart
      BY <1>1, <2>3 DEF MainWrites, Writes, Mains
    <3>2. Ends2
      BY <3>1 DEF Placed
    <3> QED BY <1>2, <2>1, <2>2, <3>1, <3>2
  <2>4. CASE SupervisorWrites
    <3>1. /\ seen'["supervisor"] = None /\ seen'["main"] = seen["main"] /\ main' = main
          /\ tunnel.stage = "publish" /\ tunnel'.stage = "hold"
          /\ tunnel'.first = tunnel.first /\ tunnel'.offer = tunnel.offer
          /\ tunnel'.live = tunnel.live
      BY <1>1, <2>4 DEF SupervisorWrites, Writes, Tunnels
    <3>2. Ends2
      BY <3>1 DEF Placed
    <3> QED BY <1>2, <2>1, <2>2, <3>1, <3>2 DEF Placed
  <2> QED BY <1>9, <2>3, <2>4
<1>10. CASE SeesURL \/ ShowsURL \/ CloudflaredExits \/ Spawns
  <2>1. UNCHANGED <<asks, req, seen, agents, main>>
    BY <1>10 DEF SeesURL, ShowsURL, CloudflaredExits, Spawns, manager
  <2>2. tunnel.stage = "off" => tunnel.live = {} \/ main.stage \notin {"down", "load", "starting"}
    BY DEF Placed
  <2>3. main.stage \notin {"down", "load", "starting"}
    BY <1>10 DEF SeesURL, ShowsURL, CloudflaredExits, Spawns, Placed
  <2>4. Ends2
    <3>1. CASE SeesURL
      <4>1. \/ tunnel.first /\ tunnel'.stage = "hold" /\ ~tunnel'.first
            \/ /\ ~tunnel.first /\ tunnel'.stage = "publish" /\ ~tunnel'.first
               /\ tunnel'.offer = tunnel.offer
        BY <1>1, <3>1 DEF SeesURL, Tunnels
      <4>2. tunnel.stage = "await"
        BY <3>1 DEF SeesURL
      <4> QED BY <2>1, <2>3, <4>1, <4>2 DEF Placed
    <3>2. CASE ShowsURL \/ CloudflaredExits
      <4>1. tunnel'.stage = tunnel.stage /\ tunnel'.first = tunnel.first
            /\ tunnel'.offer = tunnel.offer
        BY <1>1, <3>2 DEF ShowsURL, CloudflaredExits, Tunnels
      <4> QED BY <2>1, <2>3, <4>1 DEF Placed
    <3>3. CASE Spawns
      <4>1. tunnel.stage = "spawn" /\ tunnel'.stage = "await" /\ tunnel'.first = tunnel.first
            /\ tunnel'.offer = tunnel.offer
        BY <1>1, <3>3 DEF Spawns, Tunnels
      <4> QED BY <2>1, <2>3, <4>1 DEF Placed
    <3> QED BY <1>10, <3>1, <3>2, <3>3
  <2> QED BY <1>2, <2>1, <2>3, <2>4
<1>11. CASE GivesUp \/ TimesOut
  <2>1. CASE Ends
    BY <1>3, <2>1
  <2>2. CASE /\ tunnel' = [tunnel EXCEPT !.stage = "spawn"]
             /\ UNCHANGED <<asks, req, files, seen, manager, main, acked, excused>>
    <3>1. tunnel.stage \in {"await", "hold"} /\ tunnel'.stage = "spawn"
          /\ tunnel'.first = tunnel.first /\ tunnel'.offer = tunnel.offer
          /\ UNCHANGED <<asks, req, seen, main, agents>>
      BY <1>1, <1>11, <2>2 DEF GivesUp, TimesOut, Tunnels, manager
    <3>2. main.stage \notin {"down", "load", "starting"}
      BY <3>1 DEF Placed
    <3>3. Ends2
      BY <3>1, <3>2 DEF Placed
    <3> QED BY <1>2, <3>1, <3>2, <3>3
  <2> QED BY <1>11, <2>1, <2>2 DEF GivesUp, TimesOut
<1>12. CASE Crashes
  BY <1>3, <1>12 DEF Crashes
<1>13. CASE Restarts
  <2>1. UNCHANGED <<asks, req, seen, agents, tunnel>> /\ main'.stage = "load"
        /\ main'.toStart = main.toStart /\ main.stage = "down"
    BY <1>1, <1>13 DEF Restarts, Mains, manager, Up
  <2>2. Ends2
    BY <2>1 DEF Placed
  <2> QED BY <1>2, <2>1, <2>2
<1> QED BY <1>4, <1>5, <1>6, <1>7, <1>8, <1>9, <1>10, <1>11, <1>12, <1>13
        DEF Main, Supervisor

LEMMA InitPlaced == Init => Placed
BY Names DEF Init, Placed, Unused, NoTunnel, Writers, InFlight, Stage, Cluster, Up

LEMMA StepPlaced == Typed /\ Placed /\ [Next]_vars => Placed'
<1>1. ASSUME Placed, UNCHANGED vars PROVE Placed'
  BY <1>1 DEF Placed, vars, files, manager, Up, InFlight, Stage, Cluster
<1> QED BY <1>1, RequestPlaced, ProcessPlaced DEF Next

LEMMA AlwaysPlaced == Spec => [](Typed /\ Placed)
BY InitTyped, InitPlaced, StepTyped, StepPlaced, PTL DEF Spec

\* What is broken is a cluster.
Marked == broken \in SUBSET IDs

LEMMA StepMarked == Typed /\ Placed /\ Marked /\ [Next]_vars => Marked'
<1> SUFFICES ASSUME Typed, Placed, Marked, [Next]_vars PROVE Marked'
  OBVIOUS
<1>1. disk.clusters \in Clusterings /\ main.toStart \in SUBSET IDs
  BY DEF Typed, States, Mains
<1>2. \A r \in Requests : Twins(r) \in SUBSET IDs
  BY <1>1, ClusteringHolds DEF Twins
<1>3. ASSUME NEW ids \in SUBSET IDs, Spoil(ids) PROVE Marked'
  BY <1>3 DEF Spoil, Marked
<1>4. ASSUME NEW by, NEW i, StartAgent(by, i) \/ StopAgent(i) PROVE Marked'
  BY <1>4 DEF StartAgent, StopAgent, Marked
<1>5. ASSUME NEW r \in Requests, Arrives(r) \/ Handles(r) \/ UpdateFails(r) PROVE Marked'
  <2>1. CASE AddLooksUp(r)
    <3>1. broken' = broken \/ \E lost \in {{}} \cup {{i} : i \in Twins(r)} : Spoil(lost)
      BY <2>1 DEF AddLooksUp
    <3>2. {{}} \cup {{i} : i \in Twins(r)} \subseteq SUBSET IDs
      BY <1>2
    <3> QED BY <1>3, <3>1, <3>2 DEF Marked
  <2>2. CASE RemoveArrives(r) \/ AddStopsOld(r) \/ AddStarts(r)
    BY <1>4, <2>2 DEF RemoveArrives, AddStopsOld, AddStarts
  <2>3. CASE AddArrives(r) \/ PatchArrives(r) \/ UpdateReads(r) \/ UpdateWrites(r) \/ RemoveCleans(r)
             \/ UpdateFails(r)
    BY <2>3 DEF AddArrives, PatchArrives, UpdateReads, UpdateWrites, RemoveCleans, UpdateFails,
       manager, Marked
  <2> QED BY <1>5, <2>1, <2>2, <2>3 DEF Arrives, Handles
<1>6. ASSUME NEW a \in agents, AgentEnds(a) PROVE Marked'
  <2>1. a.id \in IDs
    BY DEF Typed
  <2> QED BY <1>6, <2>1 DEF AgentEnds, Marked
<1>7. ASSUME Ends PROVE Marked'
  <2>1. PICK cut \in SUBSET UNION {Twins(r) : r \in {q \in Requests : Stage(q) = "lookup"}} : Spoil(cut)
    BY <1>7 DEF Ends
  <2>2. cut \in SUBSET IDs
    BY <1>2, <2>1
  <2> QED BY <1>3, <2>1, <2>2
<1>8. CASE BootStarts
  BY <1>4, <1>8 DEF BootStarts
<1>9. CASE broken' = broken
  BY <1>9 DEF Marked
<1>10. CASE URLNotWritten("main") \/ URLNotWritten("supervisor") \/ Loads \/ StartsTunnel
            \/ TakesFirst \/ TakesURL \/ MainReads \/ MainWrites \/ Spawns \/ SeesURL
            \/ SupervisorReads \/ SupervisorWrites \/ ShowsURL \/ CloudflaredExits \/ Restarts
            \/ UNCHANGED vars
  <2>1. broken' = broken
    BY <1>10 DEF URLNotWritten, Loads, StartsTunnel, TakesFirst, TakesURL, MainReads, MainWrites,
       Spawns, SeesURL, SupervisorReads, SupervisorWrites, ShowsURL, CloudflaredExits, Restarts,
       manager, vars
  <2> QED BY <1>9, <2>1
<1>11. CASE GivesUp \/ TimesOut \/ Crashes
  <2>1. Ends \/ broken' = broken
    BY <1>11 DEF GivesUp, TimesOut, Crashes, manager
  <2> QED BY <1>7, <1>9, <2>1
<1> QED BY <1>5, <1>6, <1>8, <1>10, <1>11 DEF Next, Main, Supervisor

\* The type invariant of serve: the files, the handlers and the goroutines stay in
\* their domains, only a writer at work holds a copy of the state, and nothing but the
\* files outlives the process.
THEOREM TypeCorrect == Spec => []TypeOK
<1>1. Typed /\ Placed /\ Marked => TypeOK
  <2> SUFFICES ASSUME Typed, Placed, Marked PROVE TypeOK
    OBVIOUS
  <2>1. /\ DOMAIN disk.clusters \subseteq IDs /\ disk.url \in Nat /\ kubeconfigs \subseteq IDs
        /\ \A i \in DOMAIN disk.clusters : disk.clusters[i] \in Entries
    BY ClusteringHolds DEF Typed, States
  <2>2. \A r \in Requests : Stage(r) \in Stages /\ Cluster(r) \in IDs \cup {None}
    BY DEF Typed, Stage, Cluster
  <2>3. \A a \in agents : a.id \in IDs /\ a.by \in Requests \cup {"main"}
    BY DEF Typed
  <2>4. \A w \in Writers : seen[w] # None => w \in Busy
    BY DEF Placed, Writers, Busy, InFlight
  <2>5. tunnel.open \subseteq 1..Current /\ tunnel.live \subseteq 1..Current
    BY DEF Typed
  <2>6. ~Up => agents = {} /\ Busy = {}
    BY DEF Placed, Up, Busy, Booting
  <2> QED BY <2>1, <2>2, <2>3, <2>4, <2>5, <2>6 DEF TypeOK, Stages, Marked
<1>2. Init => Marked
  BY DEF Init, Marked
<1> QED BY <1>1, <1>2, AlwaysPlaced, StepMarked, PTL DEF Spec

-----------------------------------------------------------------------------
\* One writer at a time, until two overlap.

LEMMA ExcusedStays == excused /\ [Next]_vars => excused'
BY DEF Next, Arrives, Handles, UpdateFails, AddArrives, RemoveArrives, PatchArrives, AddLooksUp,
   UpdateReads, UpdateWrites, RemoveCleans, AddStopsOld, AddStarts, AgentEnds, URLNotWritten, Main,
   Loads, BootStarts, StartsTunnel, TakesFirst, TakesURL, MainReads, MainWrites, Supervisor, Spawns,
   SeesURL, SupervisorReads, SupervisorWrites, GivesUp, ShowsURL, CloudflaredExits, TimesOut,
   Crashes, Restarts, Ends, Reads, Begins, vars

\* Who is at work.
LEMMA WhoIsBusy ==
  ASSUME Placed
  PROVE  /\ \A r \in Requests : r \in Busy <=> InFlight(r)
         /\ "main" \in Busy <=> main.stage \in {"load", "starting", "publish", "record"}
                                \/ tunnel.offer # 0
         /\ "supervisor" \in Busy <=> tunnel.stage = "publish"
         /\ Busy \subseteq Writers
         /\ \A w \in Writers : seen[w] # None => w \in Busy
BY Names DEF Busy, Booting, InFlight, Placed, Writers

LEMMA SerialKept ==
  ASSUME Serial, excused => excused',
         \/ excused' \/ Busy' \subseteq Busy
         \/ \E w : Busy' \subseteq Busy \cup {w} /\ Begins
  PROVE  Serial'
BY DEF Serial, Begins

LEMMA StepSerial == Typed /\ Placed /\ Serial /\ [Next]_vars => Serial'
<1> SUFFICES ASSUME Typed, Placed, Serial, [Next]_vars PROVE Serial'
  OBVIOUS
<1>1. excused => excused'
  BY ExcusedStays
<1>2. ASSUME NEW r \in Requests, Arrives(r) \/ Handles(r) \/ UpdateFails(r)
      PROVE  Serial'
  <2>1. UNCHANGED <<main, tunnel>> /\ \A q \in Requests \ {r} : req'[q] = req[q]
    BY <1>2, RequestFrame
  <2>2. Busy' \subseteq Busy \cup {r}
    BY <2>1 DEF Busy, Booting, InFlight, Stage
  <2>3. CASE Arrives(r)
    <3>1. Begins
      BY <2>3 DEF Arrives, AddArrives, RemoveArrives, PatchArrives
    <3> QED BY <1>1, <2>2, <3>1, SerialKept
  <2>4. CASE Handles(r) \/ UpdateFails(r)
    <3>1. r \in Busy
      BY <2>4 DEF Handles, UpdateFails, AddLooksUp, UpdateReads, UpdateWrites, RemoveCleans,
         AddStopsOld, AddStarts, InFlight, Busy
    <3> QED BY <1>1, <2>2, <3>1, SerialKept
  <2> QED BY <1>2, <2>3, <2>4
<1>3. ASSUME Ends PROVE Busy' \subseteq Busy
  <2>1. \A r \in Requests : ~InFlight(r)'
    BY <1>3 DEF Ends, Typed, InFlight, Stage
  <2>2. main'.stage = "down" /\ tunnel'.offer = 0 /\ tunnel'.stage = "off"
    BY <1>3 DEF Ends, NoTunnel, Typed, Tunnels
  <2> QED BY <2>1, <2>2 DEF Busy, Booting
<1>4. ASSUME UNCHANGED req PROVE \A r \in Requests : InFlight(r)' = InFlight(r)
  BY <1>4 DEF InFlight, Stage
<1>5. (\E a \in agents : AgentEnds(a)) \/ BootStarts => Busy' \subseteq Busy
  <2>1. ASSUME (\E a \in agents : AgentEnds(a)) \/ BootStarts
        PROVE  UNCHANGED <<req, tunnel>> /\ main'.stage = main.stage
    BY <2>1 DEF AgentEnds, BootStarts, Typed, Mains
  <2> QED BY <1>4, <2>1 DEF Busy, Booting
<1>6. URLNotWritten("main") \/ URLNotWritten("supervisor") => excused'
  BY DEF URLNotWritten
<1>7. ASSUME Loads \/ StartsTunnel \/ MainReads \/ MainWrites PROVE Busy' \subseteq Busy
  <2>1. UNCHANGED req /\ "main" \in Busy
    BY <1>7 DEF Loads, StartsTunnel, MainReads, MainWrites, Busy, Booting
  <2>2. tunnel'.stage = "publish" => tunnel.stage = "publish"
    BY <1>7 DEF Loads, StartsTunnel, MainReads, MainWrites, Typed, Tunnels, NoTunnel
  <2> QED BY <1>4, <2>1, <2>2 DEF Busy
<1>8. ASSUME TakesFirst PROVE Busy' \subseteq Busy
  <2>1. UNCHANGED req /\ "main" \in Busy /\ tunnel'.stage = tunnel.stage
    BY <1>8 DEF TakesFirst, Busy, Typed, Tunnels
  <2> QED BY <1>4, <2>1 DEF Busy
<1>9. ASSUME TakesURL PROVE Busy' \subseteq Busy \cup {"main"} /\ Begins
  <2>1. UNCHANGED <<req, tunnel>> /\ Begins
    BY <1>9 DEF TakesURL
  <2> QED BY <1>4, <2>1 DEF Busy
<1>10. ASSUME SeesURL PROVE \E w : Busy' \subseteq Busy \cup {w} /\ Begins
  <2>1. UNCHANGED <<req, main>> /\ Begins
    BY <1>10 DEF SeesURL
  <2>2. \/ tunnel'.stage = "hold"
        \/ tunnel'.stage = "publish" /\ tunnel'.offer = tunnel.offer
    BY <1>10 DEF SeesURL, Typed, Tunnels
  <2>3. Busy' \subseteq Busy \cup {"main"} \/ Busy' \subseteq Busy \cup {"supervisor"}
    BY <1>4, <2>1, <2>2 DEF Busy, Booting
  <2> QED BY <2>1, <2>3
<1>11. ASSUME Spawns \/ ShowsURL \/ CloudflaredExits \/ SupervisorReads \/ SupervisorWrites
       PROVE  Busy' \subseteq Busy
  <2>1. UNCHANGED <<req, main>>
    BY <1>11 DEF Spawns, ShowsURL, CloudflaredExits, SupervisorReads, SupervisorWrites
  <2>2. tunnel'.offer = tunnel.offer /\ (tunnel'.stage = "publish" => tunnel.stage = "publish")
    BY <1>11 DEF Spawns, ShowsURL, CloudflaredExits, SupervisorReads, SupervisorWrites, Typed,
       Tunnels
  <2> QED BY <1>4, <2>1, <2>2 DEF Busy, Booting
<1>12. ASSUME GivesUp \/ TimesOut PROVE Busy' \subseteq Busy
  <2>1. CASE Ends
    BY <1>3, <2>1
  <2>2. CASE UNCHANGED <<req, main>> /\ tunnel' = [tunnel EXCEPT !.stage = "spawn"]
    <3>1. tunnel'.offer = tunnel.offer /\ tunnel'.stage = "spawn"
      BY <2>2 DEF Typed, Tunnels
    <3> QED BY <1>4, <2>2, <3>1 DEF Busy, Booting
  <2> QED BY <1>12, <2>1, <2>2 DEF GivesUp, TimesOut
<1>13. Crashes => Busy' \subseteq Busy
  BY <1>3 DEF Crashes
<1>14. ASSUME Restarts PROVE Busy' \subseteq Busy \cup {"main"} /\ Begins
  <2>1. UNCHANGED <<req, tunnel>> /\ Begins
    BY <1>14 DEF Restarts
  <2> QED BY <1>4, <2>1 DEF Busy
<1>15. UNCHANGED vars => Busy' \subseteq Busy
  BY <1>4 DEF vars, Busy, Booting
<1> QED BY <1>1, <1>2, <1>5, <1>6, <1>7, <1>8, <1>9, <1>10, <1>11, <1>12, <1>13, <1>14, <1>15,
           SerialKept DEF Next, Main, Supervisor

\* A writer at work is alone at it.
LEMMA Alone ==
  ASSUME Placed, Serial, ~excused, NEW w \in Writers, w \in Busy
  PROVE  /\ \A v \in Writers \ {w} : v \notin Busy /\ seen[v] = None
         /\ \A r \in Requests \ {w} : ~InFlight(r)
BY WhoIsBusy, Names DEF Serial

\* What a writer has read is what is there.
LEMMA StepCopies == Typed /\ Placed /\ Serial /\ Copies /\ [Next]_vars => Copies'
<1> SUFFICES ASSUME Typed, Placed, Serial, Copies, [Next]_vars, ~excused'
             PROVE  \A w \in Writers : seen'[w] # None => seen'[w] = disk'
  BY DEF Copies
<1>1. ~excused /\ seen \in [Writers -> States \cup {None}] /\ Requests \subseteq Writers
      /\ "main" \in Writers /\ "supervisor" \in Writers
  BY ExcusedStays, Names DEF Typed, Writers
<1>2. ASSUME disk' = disk, \A w \in Writers : seen'[w] \in {seen[w], None}
      PROVE  \A w \in Writers : seen'[w] # None => seen'[w] = disk'
  BY <1>1, <1>2 DEF Copies
<1>3. ASSUME NEW w \in Writers, Reads(w), disk' = disk
      PROVE  \A v \in Writers : seen'[v] # None => seen'[v] = disk'
  <2>1. seen' = [seen EXCEPT ![w] = disk]
    BY <1>3 DEF Reads
  <2> QED BY <1>1, <1>3, <2>1 DEF Copies
<1>4. ASSUME NEW w \in Writers, NEW state, Writes(w, state)
      PROVE  \A v \in Writers : seen'[v] # None => seen'[v] = disk'
  <2>1. w \in Busy
    BY <1>4, WhoIsBusy DEF Writes
  <2>2. \A v \in Writers \ {w} : seen[v] = None
    BY <1>1, <2>1, Alone
  <2> QED BY <1>1, <1>4, <2>2 DEF Writes
<1>5. ASSUME NEW r \in Requests, Arrives(r) \/ AddLooksUp(r) \/ RemoveCleans(r) \/ AddStopsOld(r)
                                 \/ AddStarts(r) \/ UpdateFails(r)
      PROVE  disk' = disk /\ \A w \in Writers : seen'[w] \in {seen[w], None}
  BY <1>1, <1>5 DEF Arrives, AddArrives, RemoveArrives, PatchArrives, AddLooksUp, RemoveCleans,
     AddStopsOld, AddStarts, UpdateFails, files
<1>6. ASSUME NEW r \in Requests, UpdateReads(r)
      PROVE  Reads(r) /\ disk' = disk
  BY <1>6 DEF UpdateReads, files
<1>7. ASSUME NEW r \in Requests, UpdateWrites(r)
      PROVE  \E state : Writes(r, state)
  BY <1>7 DEF UpdateWrites
<1>8. ASSUME (\E a \in agents : AgentEnds(a)) \/ Loads \/ BootStarts \/ StartsTunnel \/ TakesFirst
             \/ TakesURL \/ Spawns \/ SeesURL \/ ShowsURL \/ CloudflaredExits \/ Restarts
             \/ UNCHANGED vars
      PROVE  disk' = disk /\ seen' = seen
  BY <1>8 DEF AgentEnds, Loads, BootStarts, StartsTunnel, TakesFirst, TakesURL, Spawns, SeesURL,
     ShowsURL, CloudflaredExits, Restarts, files, vars
<1>9. ASSUME GivesUp \/ TimesOut \/ Crashes
      PROVE  disk' = disk /\ \A w \in Writers : seen'[w] \in {seen[w], None}
  BY <1>9 DEF GivesUp, TimesOut, Crashes, Ends, files
<1>10. ~URLNotWritten("main") /\ ~URLNotWritten("supervisor")
  BY DEF URLNotWritten
<1>11. MainReads => Reads("main") /\ disk' = disk
  BY DEF MainReads, files
<1>12. SupervisorReads => Reads("supervisor") /\ disk' = disk
  BY DEF SupervisorReads, files
<1>13. (MainWrites => \E state : Writes("main", state))
       /\ (SupervisorWrites => \E state : Writes("supervisor", state))
  BY DEF MainWrites, SupervisorWrites
<1>14. ASSUME NEW r \in Requests, Arrives(r) \/ Handles(r) \/ UpdateFails(r)
       PROVE  \A w \in Writers : seen'[w] # None => seen'[w] = disk'
  BY <1>1, <1>2, <1>3, <1>4, <1>5, <1>6, <1>7, <1>14 DEF Handles
<1> QED BY <1>1, <1>2, <1>3, <1>4, <1>8, <1>9, <1>10, <1>11, <1>12, <1>13, <1>14
        DEF Next, Main, Supervisor

-----------------------------------------------------------------------------
\* What was answered is on disk.

\* A request that changes neither the clusters nor what was answered.
LEMMA KeptByRequest ==
  ASSUME Kept, ~excused, disk'.clusters = disk.clusters, acked' = acked,
         NEW r \in Requests, \A q \in Requests \ {r} : req'[q] = req[q],
         \/ /\ Stage(r) \notin {"lost", "stop", "start", "clean"}
            /\ Stage(r)' \notin {"stop", "start", "clean"}
         \/ Stage(r) = "stop" /\ Stage(r)' = "start" /\ UNCHANGED <<req[r].id, req[r].entry>>
  PROVE  Kept'
<1>1. ASSUME NEW i \in IDs, CutOff(i) \/ Pending(i)
      PROVE  CutOff(i)' \/ Pending(i)'
  <2>1. PICK q \in Requests : Stage(q) \in {"lost", "stop", "start", "clean"} /\ Cluster(q) = i
    BY <1>1 DEF CutOff, Pending
  <2>2. CASE q = r
    <3>1. Stage(r) = "stop" /\ Stage(r)' = "start" /\ UNCHANGED req[r].id
      BY <2>1, <2>2
    <3> QED BY <2>1, <2>2, <3>1 DEF Pending, Cluster
  <2>3. CASE q # r
    <3>1. Stage(q)' = Stage(q) /\ Cluster(q)' = Cluster(q)
      BY <2>3 DEF Stage, Cluster
    <3> QED BY <2>1, <3>1 DEF Pending, CutOff
  <2> QED BY <2>2, <2>3
<1>2. \A i \in IDs : Same(i)' <=> Same(i)
  BY DEF Same
<1>3. ASSUME NEW q \in Requests
      PROVE  /\ Stage(q)' \in {"stop", "start"} =>
                  Cluster(q)' \in DOMAIN disk.clusters /\ disk.clusters[Cluster(q)'] = req'[q].entry
             /\ Stage(q)' = "clean" => Cluster(q)' \notin DOMAIN disk.clusters
  <2>1. CASE q = r
    BY <2>1 DEF Kept, Stage, Cluster
  <2>2. CASE q # r
    BY <2>2 DEF Kept, Stage, Cluster
  <2> QED BY <2>1, <2>2
<1> QED BY <1>1, <1>2, <1>3 DEF Kept

\* A step of something else.
LEMMA KeptByOthers ==
  ASSUME Kept, ~excused, UNCHANGED <<req, acked>>, disk'.clusters = disk.clusters
  PROVE  Kept'
BY DEF Kept, Same, CutOff, Pending, Stage, Cluster

\* An update is written: the cluster is as the request would have it, the others stay.
LEMMA KeptByUpdate ==
  ASSUME Typed, Placed, Serial, Copies, Kept, ~excused, NEW r \in Requests, UpdateWrites(r)
  PROVE  Kept'
<1>1. r \in Writers /\ r \in Busy /\ Stage(r) = "update" /\ Cluster(r) \in IDs
  BY Names DEF UpdateWrites, Busy, InFlight, Placed
<1>2. \A q \in Requests \ {r} : ~InFlight(q) /\ req'[q] = req[q]
  BY <1>1, Alone, RequestFrame DEF Handles
<1>3. seen[r] = disk /\ disk' = [disk EXCEPT !.clusters = Changed(r)]
  BY <1>1 DEF UpdateWrites, Writes, Copies
<1>4. PICK f \in Clusterings, i \in IDs : f = disk.clusters /\ i = Cluster(r)
  BY <1>1 DEF Typed, States
<1>5. disk'.clusters = Changed(r) /\ acked \in Clusterings
      /\ req \in [Requests -> [stage : Stages, id : IDs \cup {None}, entry : Entries \cup {None},
                               replaced : BOOLEAN]]
  BY <1>3 DEF Typed, States
<1>6. Cluster(r)' = i /\ req'[r].entry = req[r].entry
      /\ Stage(r)' = CASE asks[r].op = "add" -> "stop"
               [] asks[r].op = "remove" -> IF i \in DOMAIN f THEN "clean" ELSE "answered"
               [] asks[r].op = "patch" /\ i \in DOMAIN f -> "answered"
               [] OTHER -> "failed"
  BY <1>3, <1>4, <1>5 DEF UpdateWrites, Goto, Stage, Cluster
<1>7. \A j \in IDs : ~Pending(j) /\ (CutOff(j) => CutOff(j)')
  <2>1. \A j \in IDs : ~Pending(j)
    BY <1>1, <1>2 DEF Pending, InFlight
  <2>2. ASSUME NEW j \in IDs, CutOff(j)
        PROVE  CutOff(j)'
    <3>1. PICK q \in Requests : Stage(q) = "lost" /\ Cluster(q) = j
      BY <2>2 DEF CutOff
    <3>2. q # r
      BY <1>1, <3>1
    <3> QED BY <1>2, <3>1, <3>2 DEF CutOff, Stage, Cluster
  <2> QED BY <2>1, <2>2
<1>8. \A j \in IDs : Same(j) \/ CutOff(j)
  BY <1>7 DEF Kept
<1>9. \A q \in Requests \ {r} : Stage(q)' \notin {"stop", "start", "clean"}
  BY <1>2 DEF InFlight, Stage
<1>10. asks[r].op \in {"add", "remove", "patch"}
  BY DEF Typed, Asks
<1>11. CASE asks[r].op = "add"
  <2>1. PICK e \in Entries : e = req[r].entry
    BY <1>1, <1>11, EntryTyped
  <2>2. disk'.clusters = Put(f, i, e) /\ acked' = acked /\ Stage(r)' = "stop"
    BY <1>3, <1>4, <1>5, <1>6, <1>11, <2>1 DEF Changed, UpdateWrites
  <2>3. /\ DOMAIN disk'.clusters = DOMAIN f \cup {i} /\ disk'.clusters[i] = e
        /\ \A j \in DOMAIN f \ {i} : disk'.clusters[j] = f[j]
    <3>1. /\ DOMAIN Put(f, i, e) = DOMAIN f \cup {i} /\ Put(f, i, e)[i] = e
          /\ \A j \in DOMAIN f \ {i} : Put(f, i, e)[j] = f[j]
      BY PutHolds
    <3> QED BY <2>2, <3>1
  <2>4. \A j \in IDs \ {i} : Same(j) => Same(j)'
    BY <1>4, <2>2, <2>3 DEF Same
  <2>5. Pending(i)'
    BY <1>6, <2>2 DEF Pending
  <2> QED BY <1>6, <1>7, <1>8, <1>9, <2>1, <2>2, <2>3, <2>4, <2>5 DEF Kept
<1>12. CASE asks[r].op = "remove"
  <2>1. disk'.clusters = Drop(f, i) /\ acked' = acked
    BY <1>3, <1>4, <1>5, <1>12 DEF Changed, UpdateWrites
  <2>2. /\ DOMAIN disk'.clusters = DOMAIN f \ {i}
        /\ \A j \in DOMAIN f \ {i} : disk'.clusters[j] = f[j]
    <3>1. DOMAIN Drop(f, i) = DOMAIN f \ {i} /\ \A j \in DOMAIN f \ {i} : Drop(f, i)[j] = f[j]
      BY DropHolds
    <3> QED BY <2>1, <3>1
  <2>3. \A j \in IDs \ {i} : Same(j) => Same(j)'
    BY <1>4, <2>1, <2>2 DEF Same
  <2>4. CASE i \in DOMAIN f
    <3>1. Stage(r)' = "clean"
      BY <1>6, <1>12, <2>4
    <3>2. Pending(i)'
      BY <1>6, <3>1 DEF Pending
    <3> QED BY <1>6, <1>7, <1>8, <1>9, <2>2, <2>3, <3>1, <3>2 DEF Kept
  <2>5. CASE i \notin DOMAIN f
    <3>1. Stage(r)' = "answered"
      BY <1>6, <1>12, <2>5
    <3>2. Same(i) => Same(i)'
      BY <1>4, <2>1, <2>2, <2>5 DEF Same
    <3> QED BY <1>6, <1>7, <1>8, <1>9, <2>3, <3>1, <3>2 DEF Kept
  <2> QED BY <2>4, <2>5
<1>13. CASE asks[r].op = "patch" /\ i \in DOMAIN f
  <2>1. PICK e \in Entries : e = [f[i] EXCEPT !.readOnly = asks[r].readOnly, !.by = r]
    <3>1. f[i] \in Entries /\ asks[r].readOnly \in BOOLEAN
      BY <1>13, ClusteringHolds DEF Typed, Asks
    <3> QED BY <3>1 DEF Entries
  <2>2. Changed(r) = Put(f, i, e)
    BY <1>3, <1>4, <1>13, <2>1 DEF Changed
  <2>3. /\ DOMAIN Put(f, i, e) = DOMAIN f \cup {i} /\ Put(f, i, e)[i] = e
        /\ \A j \in DOMAIN f \ {i} : Put(f, i, e)[j] = f[j]
    BY PutHolds
  <2>4. acked' = Put(acked, i, e)
    <3>1. acked' = Put(acked, Cluster(r), Changed(r)[Cluster(r)])
      BY <1>3, <1>4, <1>13 DEF UpdateWrites
    <3> QED BY <1>4, <2>2, <2>3, <3>1
  <2>5. /\ DOMAIN acked' = DOMAIN acked \cup {i} /\ acked'[i] = e
        /\ \A j \in DOMAIN acked \ {i} : acked'[j] = acked[j]
    <3>1. PICK k \in Clusterings : k = acked
      BY <1>5
    <3>2. /\ DOMAIN Put(k, i, e) = DOMAIN k \cup {i} /\ Put(k, i, e)[i] = e
          /\ \A j \in DOMAIN k \ {i} : Put(k, i, e)[j] = k[j]
      BY PutHolds
    <3> QED BY <2>4, <3>1, <3>2
  <2>6. Stage(r)' = "answered"
    BY <1>6, <1>13
  <2>7. Same(i)'
    BY <1>5, <2>2, <2>3, <2>5 DEF Same
  <2>8. \A j \in IDs \ {i} : Same(j) => Same(j)'
    BY <1>4, <1>5, <2>2, <2>3, <2>5 DEF Same
  <2> QED BY <1>7, <1>8, <1>9, <2>6, <2>7, <2>8 DEF Kept
<1>14. CASE asks[r].op = "patch" /\ i \notin DOMAIN f
  <2>1. disk'.clusters = disk.clusters /\ acked' = acked
    BY <1>3, <1>4, <1>5, <1>14 DEF Changed, UpdateWrites
  <2>2. Stage(r)' = "failed"
    BY <1>6, <1>14
  <2> QED BY <1>1, <1>2, <2>1, <2>2, KeptByRequest
<1> QED BY <1>10, <1>11, <1>12, <1>13, <1>14

\* A removal or an add ends: what is answered is what was written.
LEMMA KeptByEnd ==
  ASSUME Typed, Placed, Serial, Kept, ~excused, NEW r \in Requests,
         RemoveCleans(r) \/ AddStarts(r)
  PROVE  Kept'
<1>1. r \in Writers /\ r \in Busy /\ Stage(r) \in {"clean", "start"} /\ Cluster(r) \in IDs
  BY Names DEF RemoveCleans, AddStarts, Busy, InFlight, Placed
<1>2. \A q \in Requests \ {r} : ~InFlight(q) /\ req'[q] = req[q]
  BY <1>1, Alone, RequestFrame DEF Handles
<1>3. PICK i \in IDs : i = Cluster(r)
  BY <1>1
<1>4. disk' = disk /\ Stage(r)' = "answered" /\ acked \in Clusterings
  BY DEF RemoveCleans, AddStarts, Goto, files, Stage, Typed
<1>5. ASSUME NEW j \in IDs, j # i
      PROVE  Same(j) \/ CutOff(j)'
  <2>1. ~Pending(j)
    BY <1>2, <1>3, <1>5 DEF Pending, InFlight
  <2>2. Same(j) \/ CutOff(j)
    BY <2>1 DEF Kept
  <2>3. ASSUME CutOff(j)
        PROVE  CutOff(j)'
    <3>1. PICK q \in Requests : Stage(q) = "lost" /\ Cluster(q) = j
      BY <2>3 DEF CutOff
    <3>2. q # r
      BY <1>1, <3>1
    <3> QED BY <1>2, <3>1, <3>2 DEF CutOff, Stage, Cluster
  <2> QED BY <2>2, <2>3
<1>6. \A q \in Requests : Stage(q)' \notin {"stop", "start", "clean"}
  BY <1>2, <1>4 DEF InFlight, Stage
<1>7. (\A j \in IDs \ {i} : Same(j) => Same(j)') /\ Same(i)'
  <2>1. CASE RemoveCleans(r)
    <3>1. acked' = Drop(acked, i) /\ i \notin DOMAIN disk.clusters
      BY <1>3, <2>1 DEF RemoveCleans, Kept
    <3>2. DOMAIN acked' = DOMAIN acked \ {i} /\ \A j \in DOMAIN acked \ {i} : acked'[j] = acked[j]
      <4>1. PICK k \in Clusterings : k = acked
        BY <1>4
      <4>2. DOMAIN Drop(k, i) = DOMAIN k \ {i} /\ \A j \in DOMAIN k \ {i} : Drop(k, i)[j] = k[j]
        BY DropHolds
      <4> QED BY <3>1, <4>1, <4>2
    <3> QED BY <1>4, <3>1, <3>2 DEF Same
  <2>2. CASE AddStarts(r)
    <3>1. asks[r].op = "add" /\ Stage(r) = "start"
      BY <2>2 DEF AddStarts, Placed
    <3>2. PICK e \in Entries : e = req[r].entry
      BY <3>1, EntryTyped
    <3>3. acked' = Put(acked, i, e) /\ i \in DOMAIN disk.clusters /\ disk.clusters[i] = e
      BY <1>3, <2>2, <3>1, <3>2 DEF AddStarts, Kept
    <3>4. /\ DOMAIN acked' = DOMAIN acked \cup {i} /\ acked'[i] = e
          /\ \A j \in DOMAIN acked \ {i} : acked'[j] = acked[j]
      <4>1. PICK k \in Clusterings : k = acked
        BY <1>4
      <4>2. /\ DOMAIN Put(k, i, e) = DOMAIN k \cup {i} /\ Put(k, i, e)[i] = e
            /\ \A j \in DOMAIN k \ {i} : Put(k, i, e)[j] = k[j]
        BY PutHolds
      <4> QED BY <3>3, <4>1, <4>2
    <3> QED BY <1>4, <3>3, <3>4 DEF Same
  <2> QED BY <2>1, <2>2
<1> QED BY <1>4, <1>5, <1>6, <1>7 DEF Kept

\* The URL is written over a state that is current.
LEMMA URLWritten ==
  ASSUME Typed, Copies, ~excused, MainWrites \/ SupervisorWrites
  PROVE  disk'.clusters = disk.clusters
<1>1. PICK w \in Writers, url \in Nat : seen[w] # None /\ disk' = [seen[w] EXCEPT !.url = url]
  BY DEF MainWrites, SupervisorWrites, Writes, Writers, Typed, Mains, Tunnels
<1>2. seen[w] = disk /\ disk \in States
  BY <1>1 DEF Copies, Typed
<1> QED BY <1>1, <1>2 DEF States

LEMMA StepKept == Typed /\ Placed /\ Serial /\ Copies /\ Kept /\ [Next]_vars => Kept'
<1> SUFFICES ASSUME Typed, Placed, Serial, Copies, Kept, [Next]_vars, ~excused'
             PROVE  Kept'
  BY DEF Kept
<1>1. ~excused
  BY ExcusedStays
<1>2. ASSUME NEW r \in Requests, Arrives(r) \/ AddLooksUp(r) \/ UpdateFails(r) \/ AddStopsOld(r)
      PROVE  Kept'
  <2>1. \A q \in Requests \ {r} : req'[q] = req[q]
    BY <1>2, RequestFrame DEF Handles
  <2>2. disk' = disk /\ acked' = acked
    BY <1>2 DEF Arrives, AddArrives, RemoveArrives, PatchArrives, AddLooksUp, UpdateFails,
       AddStopsOld, files
  <2>3. CASE Arrives(r) \/ AddLooksUp(r) \/ UpdateFails(r)
    <3>1. /\ Stage(r) \notin {"lost", "stop", "start", "clean"}
          /\ Stage(r)' \notin {"stop", "start", "clean"}
      BY <2>3 DEF Arrives, AddArrives, RemoveArrives, PatchArrives, AddLooksUp, UpdateFails, Goto,
         Typed, Stage
    <3> QED BY <1>1, <2>1, <2>2, <3>1, KeptByRequest
  <2>4. CASE AddStopsOld(r)
    <3>1. Stage(r) = "stop" /\ Stage(r)' = "start" /\ UNCHANGED <<req[r].id, req[r].entry>>
      BY <2>4 DEF AddStopsOld, Goto, Typed, Stage
    <3> QED BY <1>1, <2>1, <2>2, <3>1, KeptByRequest
  <2> QED BY <1>2, <2>3, <2>4
<1>3. ASSUME NEW r \in Requests, UpdateReads(r)
      PROVE  Kept'
  BY <1>1, <1>3, KeptByOthers DEF UpdateReads, files
<1>4. ASSUME Ends PROVE Kept'
  <2>1. disk' = disk /\ acked' = acked
    BY <1>4 DEF Ends, files
  <2>2. \A r \in Requests : Stage(r)' \notin {"stop", "start", "clean"} /\ Cluster(r)' = Cluster(r)
          /\ (Stage(r) \in {"stop", "start", "clean", "lost"} => Stage(r)' = "lost")
    BY <1>4 DEF Ends, Typed, InFlight, Stage, Cluster
  <2>3. \A i \in IDs : CutOff(i) \/ Pending(i) => CutOff(i)'
    BY <2>2 DEF CutOff, Pending
  <2>4. \A i \in IDs : Same(i)' <=> Same(i)
    BY <2>1 DEF Same
  <2> QED BY <1>1, <2>2, <2>3, <2>4 DEF Kept
<1>5. ASSUME MainWrites \/ SupervisorWrites PROVE Kept'
  <2>1. UNCHANGED <<req, acked>>
    BY <1>5 DEF MainWrites, SupervisorWrites
  <2>2. disk'.clusters = disk.clusters
    BY <1>1, <1>5, URLWritten
  <2> QED BY <1>1, <2>1, <2>2, KeptByOthers
<1>6. ASSUME (\E a \in agents : AgentEnds(a)) \/ Loads \/ BootStarts \/ StartsTunnel \/ TakesFirst
             \/ TakesURL \/ MainReads \/ Spawns \/ SeesURL \/ SupervisorReads \/ ShowsURL
             \/ CloudflaredExits \/ Restarts \/ UNCHANGED vars
      PROVE  UNCHANGED <<req, acked, disk>>
  BY <1>6 DEF AgentEnds, Loads, BootStarts, StartsTunnel, TakesFirst, TakesURL, MainReads, Spawns,
     SeesURL, SupervisorReads, ShowsURL, CloudflaredExits, Restarts, files, vars
<1>7. ~URLNotWritten("main") /\ ~URLNotWritten("supervisor")
  BY DEF URLNotWritten
<1>8. GivesUp \/ TimesOut \/ Crashes => Ends \/ UNCHANGED <<req, acked, disk>>
  BY DEF GivesUp, TimesOut, Crashes, files
<1>9. UNCHANGED <<req, acked, disk>> => Kept'
  BY <1>1, KeptByOthers
<1>10. ASSUME NEW r \in Requests, Arrives(r) \/ Handles(r) \/ UpdateFails(r)
       PROVE  Kept'
  BY <1>1, <1>2, <1>3, <1>10, KeptByUpdate, KeptByEnd DEF Handles
<1> QED BY <1>4, <1>5, <1>6, <1>7, <1>8, <1>9, <1>10 DEF Next, Main, Supervisor

LEMMA InitCalm == Init => Serial /\ Copies /\ Kept
<1> SUFFICES ASSUME Init PROVE Serial /\ Copies /\ Kept
  OBVIOUS
<1>1. \A r \in Requests : Stage(r) = "unsent" /\ ~InFlight(r)
  BY DEF Init, Unused, Stage, InFlight
<1>2. Busy = {"main"}
  BY <1>1 DEF Init, NoTunnel, Busy, Booting
<1>3. \A i \in IDs : Same(i)
  BY DEF Init, Same
<1> QED BY <1>1, <1>2, <1>3 DEF Serial, Copies, Kept, Init

LEMMA AlwaysCalm == Spec => [](Typed /\ Placed /\ Serial /\ Copies /\ Kept)
BY InitTyped, InitPlaced, InitCalm, StepTyped, StepPlaced, StepSerial, StepCopies, StepKept,
   PTL DEF Spec

\* runstate.Update: what the API answered is what the file says, through any failures
\* and restarts of the process: an added cluster is there, a removed one is gone, a
\* read-only one is read-only; unless writers overlapped or one could not read the file.
THEOREM AnswersAreKept == Spec => []AcknowledgedKept
<1>1. Placed /\ Kept => AcknowledgedKept
  <2> SUFFICES ASSUME Placed, Kept, Busy = {}, ~excused,
                      NEW i \in IDs,
                      i \notin {Cluster(r) : r \in {q \in Requests : Stage(q) = "lost"}}
               PROVE  Same(i)
    BY DEF AcknowledgedKept, Same
  <2>1. ~CutOff(i)
    BY DEF CutOff
  <2>2. ~Pending(i)
    BY DEF Pending, Busy, InFlight
  <2> QED BY <2>1, <2>2 DEF Kept
<1> QED BY <1>1, AlwaysCalm, PTL

-----------------------------------------------------------------------------
\* The URL that is recorded.

\* A step that touches neither the URLs nor the stages of their writers.
LEMMA RoutedByOthers ==
  ASSUME Routed, ~excused, disk'.url = disk.url, UNCHANGED <<main, tunnel>>
  PROVE  Routed'
BY DEF Routed, Current

LEMMA StepRouted == Typed /\ Placed /\ Serial /\ Copies /\ Routed /\ [Next]_vars => Routed'
<1> SUFFICES ASSUME Typed, Placed, Serial, Copies, Routed, [Next]_vars, ~excused'
             PROVE  Routed'
  BY DEF Routed
<1>1. ~excused
  BY ExcusedStays
<1>2. main \in Mains /\ tunnel \in Tunnels /\ disk \in States
  BY DEF Typed
<1>3. ASSUME NEW r \in Requests, UpdateWrites(r)
      PROVE  Routed'
  <2>1. seen[r] = disk /\ disk' = [seen[r] EXCEPT !.clusters = Changed(r)]
    BY <1>1, <1>3, Names DEF UpdateWrites, Writes, Copies
  <2>2. disk'.url = disk.url
    BY <1>2, <2>1 DEF States
  <2> QED BY <1>1, <1>3, <2>2, RoutedByOthers DEF UpdateWrites
<1>4. CASE MainWrites
  <2>1. seen["main"] = disk /\ disk' = [seen["main"] EXCEPT !.url = main.url]
    BY <1>1, <1>4, Names DEF MainWrites, Writes, Copies
  <2>2. disk'.url = main.url /\ main.url = tunnel.url /\ tunnel' = tunnel
    BY <1>1, <1>2, <1>4, <2>1 DEF MainWrites, Routed, States
  <2>3. main'.stage \in {"take", "serving"}
    BY <1>2, <1>4 DEF MainWrites, Mains
  <2> QED BY <1>1, <2>2, <2>3 DEF Routed, Current
<1>5. CASE SupervisorWrites
  <2>1. seen["supervisor"] = disk /\ disk' = [seen["supervisor"] EXCEPT !.url = tunnel.url]
    BY <1>1, <1>5, Names DEF SupervisorWrites, Writes, Copies
  <2>2. disk'.url = tunnel.url /\ tunnel.url = Current /\ main' = main
    BY <1>1, <1>2, <1>5, <2>1 DEF SupervisorWrites, Routed, States
  <2>3. tunnel'.stage = "hold" /\ tunnel'.url = tunnel.url /\ tunnel'.spawned = tunnel.spawned
        /\ tunnel'.offer = tunnel.offer
    BY <1>2, <1>5 DEF SupervisorWrites, Tunnels
  <2>4. tunnel.offer = 0
    BY <1>1, <1>5 DEF SupervisorWrites, Serial, Busy
  <2> QED BY <1>1, <2>2, <2>3, <2>4 DEF Routed, Current
<1>6. CASE SeesURL
  <2>1. Busy = {} /\ disk' = disk /\ main' = main /\ tunnel.stage = "await"
    BY <1>6 DEF SeesURL, Begins, files
  <2>2. main.stage \notin {"publish", "record"} /\ tunnel.offer = 0
    BY <2>1 DEF Busy
  <2>3. CASE tunnel.first
    <3>1. tunnel'.stage = "hold" /\ tunnel'.offer = Current /\ Current' = Current
      BY <1>2, <1>6, <2>3 DEF SeesURL, Tunnels, Current
    <3>2. main.stage = "tunnel" /\ Current # 0
      BY <1>6, <2>1, <2>3 DEF Placed, SeesURL, Typed
    <3> QED BY <2>1, <3>1, <3>2 DEF Routed
  <2>4. CASE ~tunnel.first
    <3>1. tunnel'.stage = "publish" /\ tunnel'.url = Current /\ Current' = Current
      BY <1>2, <1>6, <2>4 DEF SeesURL, Tunnels, Current
    <3> QED BY <2>1, <2>2, <3>1 DEF Routed
  <2> QED BY <2>3, <2>4
<1>7. CASE TakesFirst
  <2>1. tunnel.offer # 0 /\ "main" \in Busy
    BY <1>7 DEF TakesFirst, Busy
  <2>2. tunnel.stage # "publish"
    BY <1>1, <2>1 DEF Serial, Busy
  <2>3. main'.stage = "publish" /\ main'.url = tunnel.offer
    BY <1>2, <1>7 DEF TakesFirst, Mains
  <2>4. tunnel'.url = tunnel.offer /\ tunnel'.offer = 0 /\ tunnel'.stage = tunnel.stage
        /\ Current' = Current
    BY <1>2, <1>7 DEF TakesFirst, Tunnels, Current
  <2> QED BY <1>1, <2>1, <2>2, <2>3, <2>4 DEF Routed
<1>8. CASE TakesURL
  <2>1. Busy = {} /\ disk' = disk /\ tunnel' = tunnel /\ main.stage = "take"
    BY <1>8 DEF TakesURL, Begins, files
  <2>2. tunnel.stage # "publish"
    BY <2>1 DEF Busy
  <2>3. main'.stage = "record" /\ main'.url = tunnel.url
    BY <1>2, <1>8 DEF TakesURL, Mains
  <2> QED BY <1>1, <2>1, <2>2, <2>3 DEF Routed, Current
<1>9. CASE Spawns \/ GivesUp \/ TimesOut \/ StartsTunnel \/ Crashes
  <2>1. CASE Ends
    <3>1. main'.stage = "down" /\ tunnel'.stage = "off"
      BY <2>1 DEF Ends, NoTunnel
    <3> QED BY <3>1 DEF Routed
  <2>2. CASE StartsTunnel
    <3>1. main'.stage = "tunnel" /\ tunnel'.stage = "spawn"
      BY <1>2, <2>2 DEF StartsTunnel, Mains, NoTunnel
    <3> QED BY <3>1 DEF Routed
  <2>3. CASE ~Ends /\ ~StartsTunnel
    <3>1. disk' = disk /\ main' = main /\ tunnel.stage # "publish"
      BY <1>9, <2>3 DEF Spawns, GivesUp, TimesOut, Crashes, files
    <3>2. tunnel'.stage \in {"spawn", "await"} /\ tunnel'.url = tunnel.url
      BY <1>2, <1>9, <2>3 DEF Spawns, GivesUp, TimesOut, Crashes, Tunnels
    <3> QED BY <1>1, <3>1, <3>2 DEF Routed
  <2> QED BY <2>1, <2>2, <2>3
<1>10. CASE ShowsURL \/ CloudflaredExits
  <2>1. disk' = disk /\ main' = main
    BY <1>10 DEF ShowsURL, CloudflaredExits, files
  <2>2. tunnel'.stage = tunnel.stage /\ tunnel'.url = tunnel.url /\ tunnel'.offer = tunnel.offer
        /\ Current' = Current
    BY <1>2, <1>10 DEF ShowsURL, CloudflaredExits, Tunnels, Current
  <2> QED BY <1>1, <2>1, <2>2 DEF Routed
<1>11. CASE Loads \/ BootStarts \/ Restarts
  <2>1. disk' = disk /\ tunnel' = tunnel /\ main.stage \in {"load", "starting", "down"}
    BY <1>11 DEF Loads, BootStarts, Restarts, files, Up, Placed
  <2>2. main'.stage \in {"load", "starting"}
    BY <1>2, <1>11 DEF Loads, BootStarts, Restarts, Mains, Placed
  <2>3. tunnel.stage = "off"
    BY <2>1 DEF Placed
  <2> QED BY <2>1, <2>2, <2>3 DEF Routed
<1>12. ASSUME NEW r \in Requests, Arrives(r) \/ Handles(r) \/ UpdateFails(r)
       PROVE  Routed'
  <2>1. CASE ~UpdateWrites(r)
    <3>1. disk' = disk /\ UNCHANGED <<main, tunnel>>
      BY <1>12, <2>1 DEF Arrives, AddArrives, RemoveArrives, PatchArrives, Handles, AddLooksUp,
         UpdateReads, RemoveCleans, AddStopsOld, AddStarts, UpdateFails, files
    <3> QED BY <1>1, <3>1, RoutedByOthers
  <2> QED BY <1>3, <2>1
<1>13. ASSUME (\E a \in agents : AgentEnds(a)) \/ MainReads \/ SupervisorReads \/ UNCHANGED vars
       PROVE  Routed'
  <2>1. disk' = disk /\ UNCHANGED <<main, tunnel>>
    BY <1>13 DEF AgentEnds, MainReads, SupervisorReads, files, vars
  <2> QED BY <1>1, <2>1, RoutedByOthers
<1>14. ~URLNotWritten("main") /\ ~URLNotWritten("supervisor")
  BY DEF URLNotWritten
<1> QED BY <1>4, <1>5, <1>6, <1>7, <1>8, <1>9, <1>10, <1>11, <1>12, <1>13, <1>14
        DEF Next, Main, Supervisor

\* The tunnel and runServe: whenever serve is up, the tunnel stands and nothing is under
\* way, the state file names the URL of the cloudflared that runs, however often it was
\* replaced; unless writers overlapped or one could not write the file.
THEOREM URLIsRecorded == Spec => []URLIsKnown
<1>1. Init => Routed
  BY DEF Init, Routed, NoTunnel
<1>2. Routed => URLIsKnown
  BY DEF Routed, URLIsKnown, Busy
<1> QED BY <1>1, <1>2, InitTyped, InitPlaced, InitCalm, StepTyped, StepPlaced, StepSerial,
        StepCopies, StepRouted, PTL DEF Spec

-----------------------------------------------------------------------------
\* What is saved.

\* While no writers overlap, a request is handled alone and after the boot.
LEMMA RequestAlone ==
  ASSUME Typed, Placed, Serial, ~excused, ~excused', NEW r \in Requests,
         Arrives(r) \/ Handles(r) \/ UpdateFails(r)
  PROVE  /\ \A q \in Requests \ {r} : ~InFlight(q) /\ req'[q] = req[q]
         /\ Up /\ main.stage \notin {"load", "starting"} /\ main.toStart = {}
         /\ UNCHANGED <<asks, main, tunnel>>
<1>1. (\A q \in Requests \ {r} : ~InFlight(q)) /\ "main" \notin Busy
  <2>1. CASE Arrives(r)
    <3>1. Busy = {}
      BY <2>1 DEF Arrives, AddArrives, RemoveArrives, PatchArrives, Begins
    <3> QED BY <3>1, WhoIsBusy
  <2>2. CASE Handles(r) \/ UpdateFails(r)
    <3>1. InFlight(r)
      BY <2>2 DEF Handles, AddLooksUp, UpdateReads, UpdateWrites, RemoveCleans, AddStopsOld,
         AddStarts, UpdateFails, InFlight
    <3>2. r \in Busy /\ r \in Writers /\ r # "main" /\ "main" \in Writers
      BY <3>1, Names, WhoIsBusy
    <3> QED BY <3>2, Alone
  <2> QED BY <2>1, <2>2
<1>2. main.stage \notin {"load", "starting"}
  BY <1>1, WhoIsBusy
<1>3. main.toStart = {}
  BY <1>2 DEF Placed
<1> QED BY <1>1, <1>2, <1>3, RequestFrame

\* A request breaks a cluster's kubeconfig before it loses it.
LEMMA HeldByRequest ==
  ASSUME NEW r \in Requests, Arrives(r) \/ AddLooksUp(r) \/ AddStopsOld(r) \/ AddStarts(r)
  PROVE  Held \subseteq Held'
<1>1. CASE AddLooksUp(r)
  <2>1. \/ broken' = broken /\ \E i : kubeconfigs' = kubeconfigs \cup {i}
        \/ \E lost \in {{}} \cup {{i} : i \in Twins(r)} : Spoil(lost)
    BY <1>1 DEF AddLooksUp
  <2>2. ASSUME NEW lost, Spoil(lost) PROVE Held \subseteq Held'
    BY <2>2 DEF Spoil, Held
  <2> QED BY <2>1, <2>2 DEF Held
<1>2. CASE RemoveArrives(r) \/ AddStopsOld(r)
  BY <1>2 DEF RemoveArrives, AddStopsOld, StopAgent, files, Held
<1>3. CASE AddStarts(r)
  BY <1>3 DEF AddStarts, StartAgent, files, Held
<1>4. CASE AddArrives(r) \/ PatchArrives(r)
  BY <1>4 DEF AddArrives, PatchArrives, manager, files, Held
<1> QED BY <1>1, <1>2, <1>3, <1>4 DEF Arrives

\* A step that neither handles a request nor changes the clusters.
LEMMA SavedByOthers ==
  ASSUME Saved, ~excused, UNCHANGED <<asks, req, kubeconfigs>>, Held \subseteq Held',
         disk'.clusters = disk.clusters
  PROVE  Saved'
BY DEF Saved, Adding, Stage, Cluster

\* A request's step that leaves the clusters alone.
LEMMA SavedByRequest ==
  ASSUME Saved, ~excused, UNCHANGED <<asks, disk>>, DOMAIN disk.clusters \subseteq Held',
         NEW r \in Requests, \A q \in Requests \ {r} : ~InFlight(q) /\ req'[q] = req[q],
         r \in DOMAIN disk.clusters => Stage(r)' \notin {"unsent", "lookup"},
         Adding(r)' =>
           /\ Cluster(r)' \in kubeconfigs'
           /\ Cluster(r)' = r \/ Cluster(r)' \in DOMAIN disk.clusters
           /\ ~req'[r].replaced => Cluster(r)' \notin DOMAIN disk.clusters
           /\ \A j \in DOMAIN disk.clusters :
                disk.clusters[j].key = asks[r].key => j = Cluster(r)'
  PROVE  Saved'
<1>1. \A q \in Requests \ {r} : ~Adding(q)' /\ Stage(q)' = Stage(q)
  BY DEF Adding, Stage, InFlight
<1> QED BY <1>1 DEF Saved

\* An update is written: keys stay unique, and each cluster has its kubeconfig.
LEMMA SavedByUpdate ==
  ASSUME Typed, Placed, Serial, Copies, Saved, ~excused, ~excused', NEW r \in Requests,
         UpdateWrites(r)
  PROVE  Saved'
<1>1. /\ \A q \in Requests \ {r} : ~InFlight(q) /\ req'[q] = req[q]
      /\ asks' = asks /\ kubeconfigs' = kubeconfigs /\ Held' = Held
  BY RequestAlone DEF Handles, UpdateWrites, Held, manager
<1>2. r \in Writers /\ Stage(r) = "update" /\ Cluster(r) \in IDs
  BY Names DEF UpdateWrites, Placed
<1>3. PICK f \in Clusterings, i \in IDs : f = disk.clusters /\ i = Cluster(r)
  BY <1>2 DEF Typed, States
<1>4. seen[r] = disk /\ disk'.clusters = Changed(r)
  BY <1>2 DEF UpdateWrites, Writes, Copies, Typed, States
<1>5. Stage(r)' \in {"stop", "clean", "answered", "failed"} /\ asks[r].op \in {"add", "remove", "patch"}
  BY DEF UpdateWrites, Goto, Typed, Stage, Asks
<1>6. \A q \in Requests : ~Adding(q)'
  BY <1>1, <1>5 DEF Adding, Stage, InFlight
<1>7. /\ DOMAIN f \subseteq Held
      /\ \A j, k \in DOMAIN f : f[j].key = f[k].key => j = k
      /\ \A q \in Requests : q \in DOMAIN f => Stage(q) \notin {"unsent", "lookup"}
  BY <1>3 DEF Saved
<1>8. CASE asks[r].op = "add"
  <2>1. PICK e \in Entries : e = req[r].entry
    BY <1>2, <1>8, EntryTyped
  <2>2. e.key = asks[r].key
    <3>1. req[r].entry = [key |-> asks[r].key, readOnly |-> asks[r].readOnly, by |-> r]
      BY <1>2, <1>8 DEF Placed
    <3> QED BY <2>1, <3>1
  <2>3. /\ DOMAIN Put(f, i, e) = DOMAIN f \cup {i} /\ Put(f, i, e)[i] = e
        /\ \A j \in DOMAIN f \ {i} : Put(f, i, e)[j] = f[j]
    BY PutHolds
  <2>4. disk'.clusters = Put(f, i, e)
    BY <1>3, <1>4, <1>8, <2>1 DEF Changed
  <2>5. i \in Held /\ (i = r \/ i \in DOMAIN f)
        /\ \A j \in DOMAIN f : f[j].key = e.key => j = i
    BY <1>2, <1>3, <1>8, <2>2 DEF Saved, Adding, Held
  <2>6. \A q \in Requests : q \in DOMAIN f \cup {i} => Stage(q)' \notin {"unsent", "lookup"}
    BY <1>1, <1>5, <1>7, <2>5 DEF Stage
  <2> QED BY <1>1, <1>6, <1>7, <2>3, <2>4, <2>5, <2>6 DEF Saved
<1>9. CASE asks[r].op = "remove" \/ (asks[r].op = "patch" /\ i \notin DOMAIN f)
  <2>1. /\ DOMAIN Drop(f, i) = DOMAIN f \ {i}
        /\ \A j \in DOMAIN f \ {i} : Drop(f, i)[j] = f[j]
    BY DropHolds
  <2>2. disk'.clusters = Drop(f, i) \/ disk'.clusters = f
    BY <1>3, <1>4, <1>9 DEF Changed
  <2>3. /\ DOMAIN disk'.clusters \subseteq DOMAIN f
        /\ \A j \in DOMAIN disk'.clusters : disk'.clusters[j] = f[j]
    BY <2>1, <2>2
  <2>4. \A q \in Requests : q \in DOMAIN f => Stage(q)' \notin {"unsent", "lookup"}
    BY <1>1, <1>5, <1>7 DEF Stage
  <2> QED BY <1>1, <1>6, <1>7, <2>3, <2>4 DEF Saved
<1>10. CASE asks[r].op = "patch" /\ i \in DOMAIN f
  <2>1. PICK e \in Entries : e = [f[i] EXCEPT !.readOnly = asks[r].readOnly, !.by = r]
    <3>1. f[i] \in Entries /\ asks[r].readOnly \in BOOLEAN
      BY <1>10, ClusteringHolds DEF Typed, Asks
    <3> QED BY <3>1 DEF Entries
  <2>2. /\ DOMAIN Put(f, i, e) = DOMAIN f \cup {i} /\ Put(f, i, e)[i] = e
        /\ \A j \in DOMAIN f \ {i} : Put(f, i, e)[j] = f[j]
    BY PutHolds
  <2>3. disk'.clusters = Put(f, i, e)
    BY <1>3, <1>4, <1>10, <2>1 DEF Changed
  <2>4. DOMAIN Put(f, i, e) = DOMAIN f /\ \A j \in DOMAIN f : Put(f, i, e)[j].key = f[j].key
    <3>1. e.key = f[i].key
      BY <1>10, <2>1, ClusteringHolds DEF Entries
    <3> QED BY <1>10, <2>2, <3>1
  <2>5. \A q \in Requests : q \in DOMAIN f => Stage(q)' \notin {"unsent", "lookup"}
    BY <1>1, <1>5, <1>7 DEF Stage
  <2> QED BY <1>1, <1>6, <1>7, <2>3, <2>4, <2>5 DEF Saved
<1> QED BY <1>5, <1>8, <1>9, <1>10

LEMMA StepSaved ==
  Typed /\ Placed /\ Serial /\ Copies /\ Kept /\ Saved /\ [Next]_vars => Saved'
<1> SUFFICES ASSUME Typed, Placed, Serial, Copies, Kept, Saved, [Next]_vars, ~excused'
             PROVE  Saved'
  BY DEF Saved
<1>1. ~excused
  BY ExcusedStays
<1>2. ASSUME NEW r \in Requests, Arrives(r) \/ Handles(r) \/ UpdateFails(r)
      PROVE  Saved'
  <2>1. asks' = asks /\ \A q \in Requests \ {r} : ~InFlight(q) /\ req'[q] = req[q]
    BY <1>1, <1>2, RequestAlone
  <2>2. DOMAIN disk.clusters \subseteq Held
    BY <1>1 DEF Saved
  <2>3. CASE Arrives(r)
    <3>1. disk' = disk /\ kubeconfigs' = kubeconfigs /\ Stage(r) = "unsent"
      BY <2>3 DEF Arrives, AddArrives, RemoveArrives, PatchArrives, files
    <3>2. r \notin DOMAIN disk.clusters
      BY <1>1, <3>1 DEF Saved
    <3>3. ~Adding(r)'
      BY <2>1, <2>3 DEF Arrives, AddArrives, RemoveArrives, PatchArrives, Goto, Adding, Typed, Stage
    <3>4. Held \subseteq Held'
      BY <2>3, HeldByRequest
    <3> QED BY <1>1, <2>1, <2>2, <3>1, <3>2, <3>3, <3>4, SavedByRequest
  <2>4. CASE AddLooksUp(r)
    <3>1. Held \subseteq Held' /\ disk' = disk
      BY <2>4, HeldByRequest DEF AddLooksUp
    <3>2. Stage(r) = "lookup"
      BY <2>4 DEF AddLooksUp
    <3>3. r \notin DOMAIN disk.clusters
      BY <1>1, <3>2 DEF Saved
    <3>4. CASE Goto(r, "failed")
      <4>1. Stage(r)' = "failed"
        BY <3>4 DEF Goto, Typed, Stage
      <4> QED BY <1>1, <2>1, <2>2, <3>1, <3>3, <4>1, SavedByRequest DEF Adding
    <3>5. CASE ~Goto(r, "failed")
      <4>1. PICK i \in IF Twins(r) = {} THEN {r} ELSE Twins(r) :
              /\ Stage(r)' = "update" /\ Cluster(r)' = i /\ req'[r].replaced = (Twins(r) # {})
              /\ kubeconfigs' = kubeconfigs \cup {i}
        BY <2>4, <3>5 DEF AddLooksUp, Typed, Stage, Cluster
      <4>2. /\ i = r \/ i \in DOMAIN disk.clusters
            /\ Twins(r) = {} => i \notin DOMAIN disk.clusters
            /\ \A j \in DOMAIN disk.clusters : disk.clusters[j].key = asks[r].key => j = i
        BY <1>1, <3>3, <4>1 DEF Saved, Twins
      <4> QED BY <1>1, <2>1, <2>2, <3>1, <3>3, <4>1, <4>2, SavedByRequest
    <3> QED BY <3>4, <3>5
  <2>5. CASE UpdateReads(r)
    BY <1>1, <2>5, SavedByOthers DEF UpdateReads, files, manager, Held
  <2>6. CASE UpdateWrites(r)
    BY <1>1, <2>6, SavedByUpdate
  <2>7. CASE UpdateFails(r)
    <3>1. disk' = disk /\ Stage(r) = "update" /\ Stage(r)' = "failed"
      BY <2>7 DEF UpdateFails, Goto, Typed, Stage
    <3>2. DOMAIN disk.clusters \subseteq Held'
      BY <1>1, <2>2, <2>7, <3>1 DEF UpdateFails, Saved, Adding, Held, manager
    <3> QED BY <1>1, <2>1, <3>1, <3>2, SavedByRequest DEF Adding
  <2>8. CASE RemoveCleans(r)
    <3>1. disk' = disk /\ Stage(r) = "clean" /\ Stage(r)' = "answered"
          /\ kubeconfigs' = kubeconfigs \ {Cluster(r)}
      BY <2>8 DEF RemoveCleans, Goto, Typed, Stage
    <3>2. Cluster(r) \notin DOMAIN disk.clusters
      BY <1>1, <3>1 DEF Kept
    <3>3. DOMAIN disk.clusters \subseteq Held'
      BY <2>2, <2>8, <3>1, <3>2 DEF RemoveCleans, manager, Held
    <3> QED BY <1>1, <2>1, <3>1, <3>3, SavedByRequest DEF Adding
  <2>9. CASE AddStopsOld(r) \/ AddStarts(r)
    <3>1. disk' = disk /\ kubeconfigs' = kubeconfigs /\ Stage(r)' \in {"start", "answered"}
      BY <2>9 DEF AddStopsOld, AddStarts, Goto, Typed, Stage, files
    <3>2. Held \subseteq Held'
      BY <2>9, HeldByRequest
    <3> QED BY <1>1, <2>1, <2>2, <3>1, <3>2, SavedByRequest DEF Adding
  <2> QED BY <1>2, <2>3, <2>4, <2>5, <2>6, <2>7, <2>8, <2>9 DEF Handles
<1>3. ASSUME Ends PROVE Saved'
  <2>1. UNCHANGED <<asks, disk>> /\ Held \subseteq Held'
    BY <1>3 DEF Ends, Spoil, Held
  <2>2. \A r \in Requests : ~Adding(r)' /\ (Stage(r)' \in {"unsent", "lookup"} => Stage(r)' = Stage(r))
    BY <1>3 DEF Ends, Typed, InFlight, Stage, Adding
  <2> QED BY <1>1, <2>1, <2>2 DEF Saved
<1>4. ASSUME MainWrites \/ SupervisorWrites PROVE Saved'
  <2>1. UNCHANGED <<asks, req, kubeconfigs>> /\ Held \subseteq Held'
    BY <1>4 DEF MainWrites, SupervisorWrites, manager, Held
  <2>2. disk'.clusters = disk.clusters
    BY <1>1, <1>4, URLWritten
  <2> QED BY <1>1, <2>1, <2>2, SavedByOthers
<1>5. ASSUME (\E a \in agents : AgentEnds(a)) \/ Loads \/ BootStarts \/ StartsTunnel \/ TakesFirst
             \/ TakesURL \/ MainReads \/ Spawns \/ SeesURL \/ SupervisorReads \/ ShowsURL
             \/ CloudflaredExits \/ Restarts \/ UNCHANGED vars
      PROVE  UNCHANGED <<asks, req, disk, kubeconfigs>> /\ Held \subseteq Held'
  <2>1. UNCHANGED <<asks, req, disk, kubeconfigs>>
    BY <1>5 DEF AgentEnds, Loads, BootStarts, StartsTunnel, TakesFirst, TakesURL, MainReads, Spawns,
       SeesURL, SupervisorReads, ShowsURL, CloudflaredExits, Restarts, files, vars
  <2>2. broken' = broken \/ (\E a \in agents : AgentEnds(a)) \/ BootStarts
    BY <1>5 DEF Loads, StartsTunnel, TakesFirst, TakesURL, MainReads, Spawns, SeesURL,
       SupervisorReads, ShowsURL, CloudflaredExits, Restarts, manager, vars
  <2> QED BY <2>1, <2>2 DEF AgentEnds, BootStarts, StartAgent, Held
<1>6. ~URLNotWritten("main") /\ ~URLNotWritten("supervisor")
  BY DEF URLNotWritten
<1>7. GivesUp \/ TimesOut \/ Crashes =>
        Ends \/ (UNCHANGED <<asks, req, disk, kubeconfigs>> /\ Held \subseteq Held')
  BY DEF GivesUp, TimesOut, Crashes, files, manager, Held
<1>8. UNCHANGED <<asks, req, disk, kubeconfigs>> /\ Held \subseteq Held' => Saved'
  BY <1>1, SavedByOthers
<1> QED BY <1>2, <1>3, <1>4, <1>5, <1>6, <1>7, <1>8 DEF Next, Main, Supervisor

-----------------------------------------------------------------------------
\* The agents that run.

\* StopAgent stops the agent of its cluster and no other.
LEMMA StopsOne ==
  ASSUME Typed, Owned, NEW i \in IDs, StopAgent(i)
  PROVE  Owned' /\ ~RunsAt(i)' /\ \A j \in IDs \ {i} : RunsAt(j)' <=> RunsAt(j)
<1>1. cancels \in [IDs -> Requests \cup {"main", None}]
      /\ agents \in SUBSET [by : Requests \cup {"main"}, id : IDs, stopped : BOOLEAN]
  BY DEF Typed
<1>2. ASSUME NEW b \in agents', ~b.stopped
      PROVE  b \in agents /\ b.id # i
  <2>1. PICK a \in agents : b = IF a.id = i /\ a.by = cancels[i] THEN [a EXCEPT !.stopped = TRUE]
                                ELSE a
    BY DEF StopAgent
  <2>2. ~(a.id = i /\ a.by = cancels[i])
    BY <1>1, <1>2, <2>1
  <2> QED BY <1>2, <2>1, <2>2 DEF Owned
<1>3. ASSUME NEW a \in agents, a.id # i
      PROVE  a \in agents'
  BY <1>3 DEF StopAgent
<1>4. \A j \in IDs \ {i} : cancels'[j] = cancels[j]
  BY <1>1 DEF StopAgent
<1>5. Owned'
  BY <1>1, <1>2, <1>4 DEF Owned
<1> QED BY <1>2, <1>3, <1>5 DEF RunsAt

\* startAgent, when no agent of the cluster runs.
LEMMA StartsOne ==
  ASSUME Typed, Owned, NEW i \in IDs, NEW by \in Requests \cup {"main"}, ~RunsAt(i),
         StartAgent(by, i)
  PROVE  Owned' /\ RunsAt(i)' /\ \A j \in IDs \ {i} : RunsAt(j)' <=> RunsAt(j)
<1>1. cancels \in [IDs -> Requests \cup {"main", None}]
      /\ agents \in SUBSET [by : Requests \cup {"main"}, id : IDs, stopped : BOOLEAN]
  BY DEF Typed
<1>2. PICK new : new = [by |-> by, id |-> i, stopped |-> FALSE]
  OBVIOUS
<1>3. agents' = agents \cup {new} /\ new.id = i /\ new.by = by /\ new.stopped = FALSE
  BY <1>2 DEF StartAgent
<1>4. cancels'[i] = by /\ \A j \in IDs \ {i} : cancels'[j] = cancels[j]
  BY <1>1 DEF StartAgent
<1>5. \A a \in agents : ~a.stopped => a.id # i
  BY DEF RunsAt
<1>6. Owned'
  BY <1>1, <1>3, <1>4, <1>5 DEF Owned
<1> QED BY <1>3, <1>6 DEF RunsAt

\* A step that stops no agent that should run, and leaves the clusters and the requests
\* that are about to touch them alone.
LEMMA FitByOthers ==
  ASSUME Fit, ~excused, UNCHANGED <<asks, agents, cancels, main>>, broken \subseteq broken',
         DOMAIN disk'.clusters = DOMAIN disk.clusters,
         \A r \in Requests :
           \/ Stage(r)' = Stage(r) /\ Cluster(r)' = Cluster(r)
           \/ ~Halting(r) /\ Stage(r) \notin {"stop", "failed"} /\ ~Halting(r)'
  PROVE  Fit'
<1>1. \A i : RunsAt(i)' <=> RunsAt(i)
  BY DEF RunsAt
<1>2. \A r \in Requests : Halting(r)' => Halting(r) /\ Cluster(r)' = Cluster(r)
  BY DEF Halting
<1>3. ASSUME NEW i \in IDs
      PROVE  (Spared(i) => Spared(i)') /\ (Touched(i) => Touched(i)')
  BY DEF Spared, Touched, Halting
<1> QED BY <1>1, <1>2, <1>3 DEF Fit, Owned, Up

\* A request's step that touches one cluster.
LEMMA FitByRequest ==
  ASSUME Fit, ~excused, UNCHANGED <<asks, main>>, NEW r \in Requests, NEW i \in IDs,
         Up, main.stage \notin {"load", "starting"}, main.toStart = {},
         \A q \in Requests \ {r} : ~InFlight(q) /\ req'[q] = req[q],
         Stage(r) # "failed", Halting(r) \/ Stage(r) = "stop" => Cluster(r) = i,
         Halting(r)' => Cluster(r)' = i /\ ~RunsAt(i)',
         Owned',
         broken \ {i} \subseteq broken',
         \A j \in IDs \ {i} : (RunsAt(j)' <=> RunsAt(j)) /\
           (j \in DOMAIN disk'.clusters <=> j \in DOMAIN disk.clusters),
         \/ Spared(i)' \/ Touched(i)'
         \/ RunsAt(i)' <=> i \in DOMAIN disk'.clusters
  PROVE  Fit'
<1>1. \A q \in Requests \ {r} : ~Halting(q) /\ ~Halting(q)' /\ Stage(q) # "stop"
        /\ Stage(q)' = Stage(q) /\ Cluster(q)' = Cluster(q)
  BY DEF Halting, InFlight, Stage, Cluster
<1>2. ASSUME NEW j \in IDs \ {i}, j \notin broken'
      PROVE  Spared(j)' \/ (RunsAt(j)' <=> j \in DOMAIN disk'.clusters)
  <2>1. ~Touched(j)
    BY <1>1, <1>2 DEF Touched
  <2>2. Spared(j) => Spared(j)'
    BY <1>1 DEF Spared
  <2> QED BY <1>2, <2>1, <2>2 DEF Fit
<1>3. \A q \in Requests : Halting(q)' => ~RunsAt(Cluster(q))'
  BY <1>1 DEF RunsAt
<1> QED BY <1>1, <1>2, <1>3 DEF Fit, Up

\* The stage of a request moves on.
LEMMA MovesOn ==
  ASSUME Typed, NEW r \in Requests, NEW stage, Goto(r, stage)
  PROVE  Stage(r)' = stage /\ Cluster(r)' = Cluster(r)
BY DEF Typed, Goto, Stage, Cluster

\* A request makes up for what it does to the agents before it ends.
LEMMA FitByHandler ==
  ASSUME Typed, Placed, Serial, Copies, Kept, Saved, Fit, ~excused, ~excused', NEW r \in Requests,
         Arrives(r) \/ Handles(r) \/ UpdateFails(r)
  PROVE  Fit'
<1>1. /\ \A q \in Requests \ {r} : ~InFlight(q) /\ req'[q] = req[q]
      /\ Up /\ main.stage \notin {"load", "starting"} /\ main.toStart = {}
      /\ UNCHANGED <<asks, main>>
  BY RequestAlone
<1>2. Owned
  BY DEF Fit
<1>3. \A q \in Requests \ {r} : Stage(q)' = Stage(q) /\ Cluster(q)' = Cluster(q)
  BY <1>1 DEF Stage, Cluster
<1>4. CASE AddArrives(r) \/ PatchArrives(r) \/ AddLooksUp(r) \/ UpdateReads(r)
  <2>1. UNCHANGED <<agents, cancels, disk>>
    BY <1>4 DEF AddArrives, PatchArrives, AddLooksUp, UpdateReads, manager, files
  <2>2. \/ Stage(r)' = Stage(r) /\ Cluster(r)' = Cluster(r)
        \/ ~Halting(r) /\ Stage(r) \notin {"stop", "failed"} /\ ~Halting(r)'
    <3>1. CASE AddArrives(r)
      BY <3>1 DEF AddArrives, Goto, Typed, Halting, Stage
    <3>2. CASE PatchArrives(r)
      <4>1. Stage(r) = "unsent" /\ Stage(r)' = "update"
        BY <3>2 DEF PatchArrives, Typed, Stage
      <4> QED BY <1>1, <3>2, <4>1 DEF PatchArrives, Halting
    <3>3. CASE AddLooksUp(r)
      <4>1. Stage(r) = "lookup" /\ Stage(r)' \in {"update", "failed"}
        BY <3>3 DEF AddLooksUp, Goto, Typed, Stage
      <4>2. asks[r].op = "add"
        BY <4>1 DEF Placed
      <4> QED BY <1>1, <4>1, <4>2 DEF Halting
    <3>4. CASE UpdateReads(r)
      BY <3>4 DEF UpdateReads, Stage, Cluster
    <3> QED BY <1>4, <3>1, <3>2, <3>3, <3>4
  <2>3. broken \subseteq broken'
    BY <1>4 DEF AddArrives, PatchArrives, AddLooksUp, UpdateReads, Spoil, manager
  <2> QED BY <1>1, <1>3, <2>1, <2>2, <2>3, FitByOthers
<1>5. CASE RemoveArrives(r)
  <2>1. PICK i \in IDs : StopAgent(i) /\ Cluster(r)' = i /\ Stage(r)' = "update"
    BY <1>5, ClusteringHolds DEF RemoveArrives, Typed, States, Stage, Cluster
  <2>2. Stage(r) = "unsent" /\ asks[r].op = "remove" /\ disk' = disk
    BY <1>5 DEF RemoveArrives, files
  <2>3. Halting(r)' /\ Touched(i)'
    BY <1>1, <2>1, <2>2 DEF Halting, Touched
  <2>4. broken' = broken
    BY <2>1 DEF StopAgent
  <2> QED BY <1>1, <1>2, <2>1, <2>2, <2>3, <2>4, StopsOne, FitByRequest DEF Halting
<1>6. CASE UpdateWrites(r)
  <2>1. Stage(r) = "update" /\ UNCHANGED <<agents, cancels, broken>> /\ Cluster(r) \in IDs
    BY <1>6 DEF UpdateWrites, manager, Placed
  <2>2. PICK i \in IDs, f \in Clusterings : i = Cluster(r) /\ f = disk.clusters
    BY <2>1 DEF Typed, States
  <2>3. \A j : RunsAt(j)' <=> RunsAt(j)
    BY <2>1 DEF RunsAt
  <2>4. Owned'
    BY <1>2, <2>1 DEF Owned
  <2>5. Cluster(r)' = i
    BY <1>6, <2>2 DEF UpdateWrites, Goto, Typed, Cluster
  <2>6. disk'.clusters = Changed(r) /\ seen[r] = disk
    BY <1>6, Names DEF UpdateWrites, Writes, Copies, Typed, States
  <2>7. /\ asks[r].op \in {"add", "remove", "patch"}
        /\ Stage(r)' = CASE asks[r].op = "add" -> "stop"
               [] asks[r].op = "remove" -> IF i \in DOMAIN f THEN "clean" ELSE "answered"
               [] asks[r].op = "patch" /\ i \in DOMAIN f -> "answered"
               [] OTHER -> "failed"
    BY <1>6, <2>2, <2>6 DEF UpdateWrites, Goto, Typed, Asks, Stage
  <2>8. CASE asks[r].op = "add"
    <3>1. PICK e \in Entries : e = req[r].entry
      BY <2>1, <2>8, EntryTyped
    <3>2. DOMAIN Put(f, i, e) = DOMAIN f \cup {i}
      BY PutHolds
    <3>3. DOMAIN disk'.clusters = DOMAIN f \cup {i}
      BY <2>2, <2>6, <2>8, <3>1, <3>2 DEF Changed
    <3>4. Stage(r)' = "stop"
      BY <2>7, <2>8
    <3>5. Touched(i)' /\ ~Halting(r)' /\ ~Halting(r)
      BY <1>1, <2>1, <2>5, <2>8, <3>4 DEF Touched, Halting
    <3> QED BY <1>1, <2>1, <2>2, <2>3, <2>4, <3>3, <3>5, FitByRequest
  <2>9. CASE asks[r].op = "remove"
    <3>1. DOMAIN Drop(f, i) = DOMAIN f \ {i}
      BY DropHolds
    <3>2. DOMAIN disk'.clusters = DOMAIN f \ {i}
      BY <2>2, <2>6, <2>9, <3>1 DEF Changed
    <3>3. ~RunsAt(i)
      BY <2>1, <2>2, <2>9 DEF Fit, Halting
    <3> QED BY <1>1, <2>1, <2>2, <2>3, <2>4, <2>5, <3>2, <3>3, FitByRequest
  <2>10. CASE asks[r].op = "patch"
    <3>1. DOMAIN disk'.clusters = DOMAIN f
      <4>1. CASE i \in DOMAIN f
        <5>1. DOMAIN Changed(r) = DOMAIN f \cup {i}
          BY <2>2, <2>6, <2>10, <4>1 DEF Changed, Put
        <5> QED BY <2>6, <4>1, <5>1
      <4>2. CASE i \notin DOMAIN f
        BY <2>2, <2>6, <2>10, <4>2 DEF Changed
      <4> QED BY <4>1, <4>2
    <3>2. Stage(r)' \in {"answered", "failed"}
      BY <2>7, <2>10
    <3>3. ~Halting(r) /\ ~Halting(r)'
      BY <1>1, <2>1, <2>10, <3>2 DEF Halting
    <3> QED BY <1>1, <1>3, <2>1, <2>2, <3>1, <3>3, FitByOthers
  <2> QED BY <2>7, <2>8, <2>9, <2>10
<1>7. CASE UpdateFails(r)
  <2>1. /\ Stage(r) = "update" /\ Stage(r)' = "failed" /\ Cluster(r)' = Cluster(r)
        /\ UNCHANGED <<agents, cancels, broken, disk>> /\ Cluster(r) \in IDs
    <3>1. /\ Stage(r) = "update" /\ UNCHANGED <<agents, cancels, broken, disk>>
          /\ Goto(r, "failed")
      BY <1>7 DEF UpdateFails, manager
    <3> QED BY <3>1, MovesOn DEF Placed
  <2>2. CASE asks[r].op = "remove"
    <3>1. PICK i \in IDs : i = Cluster(r)
      BY <2>1
    <3>2. Spared(i)' /\ ~Halting(r)'
      BY <1>1, <2>1, <2>2, <3>1 DEF Spared, Halting
    <3>3. Owned' /\ \A j : RunsAt(j)' <=> RunsAt(j)
      BY <1>2, <2>1 DEF Owned, RunsAt
    <3> QED BY <1>1, <2>1, <3>1, <3>2, <3>3, FitByRequest
  <2>3. CASE asks[r].op # "remove"
    <3>1. ~Halting(r) /\ ~Halting(r)'
      BY <1>1, <2>1, <2>3 DEF Halting
    <3> QED BY <1>1, <1>3, <2>1, <3>1, FitByOthers
  <2> QED BY <2>2, <2>3
<1>8. CASE RemoveCleans(r)
  <2>1. /\ Stage(r) = "clean" /\ Stage(r)' = "answered" /\ Cluster(r) \in IDs
        /\ UNCHANGED <<agents, cancels, broken, disk>>
    <3>1. /\ Stage(r) = "clean" /\ UNCHANGED <<agents, cancels, broken, disk>>
          /\ Goto(r, "answered")
      BY <1>8 DEF RemoveCleans, manager
    <3> QED BY <3>1, MovesOn DEF Placed
  <2>2. PICK i \in IDs : i = Cluster(r)
    BY <2>1
  <2>3. i \notin DOMAIN disk.clusters /\ ~RunsAt(i)
    BY <2>1, <2>2 DEF Kept, Fit, Halting
  <2>4. Owned' /\ (\A j : RunsAt(j)' <=> RunsAt(j)) /\ ~Halting(r)'
    BY <1>2, <2>1 DEF Owned, RunsAt, Halting
  <2> QED BY <1>1, <2>1, <2>2, <2>3, <2>4, FitByRequest
<1>9. CASE AddStopsOld(r)
  <2>1. /\ Stage(r) = "stop" /\ Stage(r)' = "start" /\ Cluster(r)' = Cluster(r)
        /\ disk' = disk /\ Cluster(r) \in IDs
    <3>1. Stage(r) = "stop" /\ disk' = disk /\ Goto(r, "start")
      BY <1>9 DEF AddStopsOld, files
    <3> QED BY <3>1, MovesOn DEF Placed
  <2>2. PICK i \in IDs : i = Cluster(r)
    BY <2>1
  <2>3. StopAgent(i)
    BY <1>9, <2>2 DEF AddStopsOld
  <2>4. Touched(i)'
    BY <2>1, <2>2 DEF Touched, Halting
  <2>5. broken' = broken
    BY <2>3 DEF StopAgent
  <2> QED BY <1>1, <1>2, <2>1, <2>2, <2>3, <2>4, <2>5, StopsOne, FitByRequest
<1>10. CASE AddStarts(r)
  <2>1. /\ Stage(r) = "start" /\ Stage(r)' = "answered" /\ disk' = disk /\ Cluster(r) \in IDs
    <3>1. Stage(r) = "start" /\ disk' = disk /\ Goto(r, "answered")
      BY <1>10 DEF AddStarts, files
    <3> QED BY <3>1, MovesOn DEF Placed
  <2>2. PICK i \in IDs : i = Cluster(r)
    BY <2>1
  <2>3. i \in DOMAIN disk.clusters /\ ~RunsAt(i) /\ StartAgent(r, i)
    BY <1>10, <2>1, <2>2 DEF Kept, Fit, Halting, AddStarts
  <2>4. Owned' /\ RunsAt(i)' /\ \A j \in IDs \ {i} : RunsAt(j)' <=> RunsAt(j)
    BY <1>2, <2>3, StartsOne
  <2>5. ~Halting(r)' /\ broken \ {i} \subseteq broken'
    BY <2>1, <2>3 DEF Halting, StartAgent
  <2> QED BY <1>1, <2>1, <2>2, <2>3, <2>4, <2>5, FitByRequest
<1> QED BY <1>4, <1>5, <1>6, <1>7, <1>8, <1>9, <1>10 DEF Arrives, Handles

LEMMA StepFit ==
  Typed /\ Placed /\ Serial /\ Copies /\ Kept /\ Saved /\ Fit /\ [Next]_vars => Fit'
<1> SUFFICES ASSUME Typed, Placed, Serial, Copies, Kept, Saved, Fit, [Next]_vars, ~excused'
             PROVE  Fit'
  BY DEF Fit
<1>1. ~excused /\ Owned
  BY ExcusedStays DEF Fit
<1>2. main \in Mains /\ disk \in States /\ DOMAIN disk.clusters \subseteq IDs
  BY ClusteringHolds DEF Typed, States
<1>3. ASSUME NEW r \in Requests, Arrives(r) \/ Handles(r) \/ UpdateFails(r)
      PROVE  Fit'
  BY <1>1, <1>3, FitByHandler
<1>4. ASSUME NEW a \in agents, AgentEnds(a)
      PROVE  Fit'
  <2>1. /\ UNCHANGED <<asks, req, disk, cancels, main>> /\ agents' = agents \ {a}
        /\ broken \subseteq broken'
        /\ a.stopped \/ a.id \notin kubeconfigs \/ a.id \in broken'
    BY <1>4 DEF AgentEnds, files
  <2>2. \A i : RunsAt(i)' => RunsAt(i)
    BY <2>1 DEF RunsAt
  <2>3. \A i \in DOMAIN disk.clusters \ broken' : RunsAt(i) => RunsAt(i)'
    <3>1. DOMAIN disk.clusters \subseteq kubeconfigs \cup broken
      BY <1>1 DEF Saved, Held
    <3> QED BY <2>1, <3>1 DEF RunsAt
  <2>4. \A r \in Requests : (Halting(r)' <=> Halting(r)) /\ Cluster(r)' = Cluster(r)
    BY <2>1 DEF Halting, Stage, Cluster
  <2>5. \A i : (Spared(i)' <=> Spared(i)) /\ (Touched(i)' <=> Touched(i))
    BY <2>1 DEF Spared, Touched, Halting, Stage, Cluster
  <2>6. Owned'
    BY <1>1, <2>1 DEF Owned
  <2>7. \A r \in Requests : Halting(r)' => ~RunsAt(Cluster(r))'
    BY <1>1, <2>1, <2>2, <2>4 DEF Fit, RunsAt
  <2> QED BY <1>1, <2>1, <2>2, <2>3, <2>5, <2>6, <2>7 DEF Fit, Up
<1>5. CASE Ends
  <2>1. agents' = {} /\ main'.stage = "down" /\ main'.toStart = {}
    BY <1>5 DEF Ends
  <2>2. Owned' /\ \A i : ~RunsAt(i)'
    BY <2>1 DEF Owned, RunsAt
  <2>3. \A r \in Requests : ~RunsAt(Cluster(r))'
    BY <2>1 DEF RunsAt
  <2> QED BY <2>1, <2>2, <2>3 DEF Fit, Up
<1>6. CASE Loads
  <2>1. /\ main.stage = "load" /\ main'.stage = "starting" /\ main'.toStart = DOMAIN disk.clusters
        /\ UNCHANGED <<asks, req, disk, agents, cancels>>
    BY <1>2, <1>6 DEF Loads, Mains, files, manager
  <2>2. Owned' /\ \A i : RunsAt(i)' <=> RunsAt(i)
    BY <1>1, <2>1 DEF Owned, RunsAt
  <2>3. \A i \in IDs : ~RunsAt(i)'
    BY <1>1, <2>1, <2>2 DEF Fit
  <2>4. \A r \in Requests : Halting(r)' => ~RunsAt(Cluster(r))'
    BY <1>1, <2>1 DEF Fit, Halting, RunsAt, Stage, Cluster
  <2> QED BY <1>2, <2>1, <2>2, <2>3, <2>4 DEF Fit
<1>7. CASE BootStarts
  <2>1. PICK i \in main.toStart : StartAgent("main", i) /\ main' = [main EXCEPT !.toStart = @ \ {i}]
    BY <1>7 DEF BootStarts
  <2>2. main'.stage = main.stage /\ main'.toStart = main.toStart \ {i} /\ i \in IDs
    BY <1>2, <2>1 DEF Mains
  <2>3. UNCHANGED <<asks, req, disk>>
    BY <1>7 DEF BootStarts, files
  <2>4. Owned' /\ RunsAt(i)' /\ \A j \in IDs \ {i} : RunsAt(j)' <=> RunsAt(j)
    BY <1>1, <2>1, <2>2, StartsOne DEF Fit
  <2>5. main.stage = "starting"
    BY <2>1 DEF Placed
  <2>6. \A r \in Requests : ~Halting(r)' /\ ~Halting(r)
    <3>1. "main" \in Busy /\ "main" \in Writers
      BY <2>5, WhoIsBusy, Names
    <3>2. \A r \in Requests : ~InFlight(r)
      BY <1>1, <3>1, Alone, Names
    <3> QED BY <2>3, <3>2 DEF Halting, InFlight, Stage
  <2>7. \A j : (Spared(j)' <=> Spared(j)) /\ (Touched(j)' <=> Touched(j))
    BY <2>3 DEF Spared, Touched, Halting, Stage, Cluster
  <2>8. i \in DOMAIN disk.clusters /\ \A j \in main.toStart \ {i} : ~RunsAt(j)'
    BY <1>1, <1>2, <2>1, <2>4 DEF Fit
  <2>9. \A j \in IDs \ broken' : Spared(j)' \/ Touched(j)' \/
          (RunsAt(j)' <=> j \in DOMAIN disk.clusters \ (main.toStart \ {i}))
    <3>1. broken \ {i} \subseteq broken'
      BY <2>1 DEF StartAgent
    <3> QED BY <1>1, <2>1, <2>4, <2>5, <2>7, <2>8, <3>1 DEF Fit, Up
  <2> QED BY <1>1, <2>2, <2>3, <2>4, <2>5, <2>6, <2>8, <2>9 DEF Fit
<1>8. CASE Restarts
  <2>1. /\ ~Up /\ agents = {} /\ main'.stage = "load" /\ main'.toStart = main.toStart
        /\ agents' = agents /\ cancels' = cancels
    BY <1>2, <1>8 DEF Restarts, Mains, Placed, manager
  <2>2. main.toStart = {}
    BY <2>1 DEF Placed, Up
  <2>3. Owned' /\ (\A i : ~RunsAt(i)') /\ \A r \in Requests : ~RunsAt(Cluster(r))'
    BY <2>1 DEF Owned, RunsAt
  <2> QED BY <2>1, <2>2, <2>3 DEF Fit
<1>9. CASE StartsTunnel \/ TakesFirst \/ TakesURL \/ MainWrites
  <2>1. /\ UNCHANGED <<asks, req, agents, cancels, broken>>
        /\ main.stage \notin {"load", "down"} /\ main.toStart = {}
        /\ main'.stage \notin {"load", "down"} /\ main'.toStart = {}
    BY <1>2, <1>9 DEF StartsTunnel, TakesFirst, TakesURL, MainWrites, Mains, Placed, manager
  <2>2. DOMAIN disk'.clusters = DOMAIN disk.clusters
    BY <1>1, <1>9, URLWritten DEF StartsTunnel, TakesFirst, TakesURL, files
  <2>3. Owned' /\ \A i : RunsAt(i)' <=> RunsAt(i)
    BY <1>1, <2>1 DEF Owned, RunsAt
  <2>4. \A i : (Spared(i)' <=> Spared(i)) /\ (Touched(i)' <=> Touched(i))
    BY <2>1 DEF Spared, Touched, Halting, Stage, Cluster
  <2>5. \A r \in Requests : Halting(r)' => ~RunsAt(Cluster(r))'
    BY <1>1, <2>1 DEF Fit, Halting, RunsAt, Stage, Cluster
  <2> QED BY <1>1, <2>1, <2>2, <2>3, <2>4, <2>5 DEF Fit, Up
<1>10. ASSUME UNCHANGED <<asks, req, agents, cancels, broken, main>>,
              DOMAIN disk'.clusters = DOMAIN disk.clusters
       PROVE  Fit'
  <2>1. \A r \in Requests : Stage(r)' = Stage(r) /\ Cluster(r)' = Cluster(r)
    BY <1>10 DEF Stage, Cluster
  <2> QED BY <1>1, <1>10, <2>1, FitByOthers
<1>11. CASE SupervisorWrites
  <2>1. DOMAIN disk'.clusters = DOMAIN disk.clusters
    BY <1>1, <1>11, URLWritten
  <2> QED BY <1>10, <1>11, <2>1 DEF SupervisorWrites, manager
<1>12. ASSUME MainReads \/ Spawns \/ SeesURL \/ SupervisorReads \/ ShowsURL \/ CloudflaredExits
              \/ UNCHANGED vars
       PROVE  Fit'
  <2>1. UNCHANGED <<asks, req, agents, cancels, broken, main, disk>>
    BY <1>12 DEF MainReads, Spawns, SeesURL, SupervisorReads, ShowsURL, CloudflaredExits, files,
       manager, vars
  <2> QED BY <1>10, <2>1
<1>13. ASSUME GivesUp \/ TimesOut \/ Crashes
       PROVE  Fit'
  <2>1. Ends \/ UNCHANGED <<asks, req, agents, cancels, broken, main, disk>>
    BY <1>13 DEF GivesUp, TimesOut, Crashes, files, manager
  <2> QED BY <1>5, <1>10, <2>1
<1>14. ~URLNotWritten("main") /\ ~URLNotWritten("supervisor")
  BY DEF URLNotWritten
<1> QED BY <1>3, <1>4, <1>6, <1>7, <1>8, <1>9, <1>11, <1>12, <1>13, <1>14
        DEF Next, Main, Supervisor

\* Add, Remove, startAgent, LoadPersisted: whenever serve is up and nothing is under way,
\* the agents that run are those of the saved clusters, each one the one that Remove would
\* stop, each cluster has its kubeconfig, and none is saved twice; through any failures and
\* restarts, unless writers overlapped or one could not read the state, and but for a
\* cluster whose removal failed and one whose kubeconfig was spoiled or could not be read.
THEOREM AgentsMatch == Spec => []AgentsMatchClusters
<1>1. Init => Saved /\ Fit
  <2> SUFFICES ASSUME Init PROVE Saved /\ Fit
    OBVIOUS
  <2>1. /\ DOMAIN disk.clusters = {Old} /\ kubeconfigs = {Old} /\ Old \notin Requests
        /\ \A r \in Requests : Stage(r) = "unsent"
        /\ agents = {} /\ main.stage = "load" /\ main.toStart = {}
    BY ServeAssumption DEF Init, Unused, Stage
  <2>2. \A r \in Requests : ~Adding(r) /\ ~Halting(r)
    BY <2>1 DEF Adding, Halting
  <2>3. Owned /\ \A i : ~RunsAt(i)
    BY <2>1 DEF Owned, RunsAt
  <2> QED BY <2>1, <2>2, <2>3 DEF Saved, Held, Fit
<1>2. Typed /\ Placed /\ Saved /\ Fit => AgentsMatchClusters
  <2> SUFFICES ASSUME Typed, Placed, Saved, Fit, Up, Busy = {}, ~excused
               PROVE  AgentsMatchClusters
    BY DEF AgentsMatchClusters
  <2>1. main.stage \notin {"load", "starting"} /\ main.toStart = {}
    BY WhoIsBusy DEF Placed
  <2>2. \A i \in IDs : ~Touched(i)
    BY WhoIsBusy DEF Touched, Halting, InFlight
  <2>3. \A i \in IDs \ broken : Spared(i) \/ (RunsAt(i) <=> i \in DOMAIN disk.clusters)
    BY <2>1, <2>2 DEF Fit
  <2> DEFINE running == {a \in agents : ~a.stopped}
             spared == {Cluster(r) : r \in {q \in Requests : Stage(q) = "failed" /\ asks[q].op = "remove"}}
  <2>4. \A i : (Spared(i) <=> i \in spared) /\ (RunsAt(i) <=> i \in {a.id : a \in running})
    BY DEF Spared, RunsAt
  <2>5. {a.id : a \in running} \subseteq IDs /\ DOMAIN disk.clusters \subseteq IDs
    BY ClusteringHolds DEF Typed, States
  <2> DEFINE apart == spared \cup broken
  <2>6. {a.id : a \in running} \ apart = DOMAIN disk.clusters \ apart
    BY <2>3, <2>4, <2>5
  <2>7. \A a \in running : a.by = cancels[a.id]
    BY DEF Fit, Owned
  <2>8. /\ DOMAIN disk.clusters \subseteq kubeconfigs \cup broken
        /\ \A i, j \in DOMAIN disk.clusters :
             disk.clusters[i].key = disk.clusters[j].key => i = j
    BY DEF Saved, Held
  <2> QED BY <2>6, <2>7, <2>8 DEF AgentsMatchClusters
<1>3. Spec => [](Typed /\ Placed /\ Serial /\ Copies /\ Kept /\ Saved /\ Fit)
  BY <1>1, InitTyped, InitPlaced, InitCalm, StepTyped, StepPlaced, StepSerial, StepCopies, StepKept,
     StepSaved, StepFit, PTL DEF Spec
<1> QED BY <1>2, <1>3, PTL
=============================================================================
