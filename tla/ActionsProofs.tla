----------------------------- MODULE ActionsProofs -----------------------------
(***************************************************************************)
(* Proofs about Actions for any requests, any pairs of kinds and types,    *)
(* any number of calls that fail: that a read-only session touches nothing *)
(* and that what is touched is audited; that no change to a Kubernetes     *)
(* object is taken back by a write made from an older read; that a rollout *)
(* that is reported complete is, and that an undo goes to the revision     *)
(* before; that one failing call costs no container; that the binary of    *)
(* the agent is one whose checksum was compared, unless two updates of it  *)
(* overlapped; and that every variable has its type.                       *)
(***************************************************************************)
EXTENDS Actions, FiniteSetTheorems, WellFoundedInduction, TLAPS

-----------------------------------------------------------------------------
\* The course of a request.

Fields == {"kind", "type", "from", "stage", "step", "verdict", "target", "seen", "left", "to"}

Shape == DOMAIN req = Requests /\ \A r \in Requests : DOMAIN req[r] = Fields

\* A request that the agent has not got yet has not begun.
Fresh == \A r \in Requests : Stage(r) \in {"unsent", "hub"} => req[r].step = "arrived"

Coursed == Shape /\ Fresh

\* The steps of an edit and of an update of the agent.
Watched == {"read", "list", "put", "sums", "open", "download"}

\* What no step does to a request: it keeps its type and kind and never goes back.
Onward(q) ==
  /\ req'[q].type = req[q].type /\ req'[q].kind = req[q].kind
  /\ req'[q].stage = "agent" => Stage(q) = "agent" \/ HubForwards(q)
  /\ req'[q].stage \in {"unsent", "hub"} => Stage(q) \in {"unsent", "hub"}

\* What a step that is not of an edit or an update leaves of a request of one.
Aside(q) ==
  \/ req'[q] = req[q]
  \/ req'[q].stage \in {"answered", "cut"}
  \/ req[q].step \in UntimedSteps /\ req'[q].step = "hung"
  \/ /\ ~(Stage(q) = "agent" /\ req[q].step \in Watched)
     /\ ~(req'[q].stage = "agent" /\ req'[q].step \in Watched)

\* Only Dispatch begins an operation.
NoneBegins(q) ==
  req'[q].stage = "agent" /\ req'[q].step # "arrived" => Operating(q)

Bystand == Coursed' /\ \A q \in Requests : Onward(q) /\ Aside(q) /\ NoneBegins(q)

\* In the initial state nothing has begun.
LEMMA CoursedInit == Init => Coursed /\ \A r \in Requests : Stage(r) = "unsent"
<1> SUFFICES ASSUME Init PROVE Coursed /\ \A r \in Requests : Stage(r) = "unsent"
  OBVIOUS
<1>1. PICK asks \in Menus, from \in [Requests -> Browsers] :
        req = [r \in Requests |->
          [kind |-> asks[r][1], type |-> asks[r][2], from |-> from[r], stage |-> "unsent",
           step |-> "arrived", verdict |-> None, target |-> None, seen |-> None, left |-> 0,
           to |-> {}]]
  BY DEF Init
<1> QED BY <1>1 DEF Coursed, Shape, Fresh, Fields, Stage

\* One request of one step: how the forms of the actions change it.
LEMMA GotoCourse ==
  ASSUME Coursed, NEW r \in Requests, NEW s, Goto(r, s), Stage(r) = "agent"
  PROVE  /\ Coursed'
         /\ \A q \in Requests \ {r} : req'[q] = req[q]
         /\ req'[r].stage = "agent" /\ req'[r].step = s
         /\ \A f \in Fields \ {"step"} : req'[r][f] = req[r][f]
<1>1. \A q \in Requests \ {r} : req'[q] = req[q]
  BY DEF Goto, Coursed, Shape
<1>2. req'[r] = [req[r] EXCEPT !.step = s]
  BY DEF Goto, Coursed, Shape
<1>3. DOMAIN req'[r] = Fields /\ req'[r].step = s /\ \A f \in Fields \ {"step"} : req'[r][f] = req[r][f]
  BY <1>2 DEF Coursed, Shape, Fields
<1>4. req'[r].stage = "agent"
  BY <1>3 DEF Fields, Stage
<1>5. DOMAIN req' = Requests
  BY DEF Goto, Coursed, Shape
<1>6. Coursed'
  BY <1>1, <1>3, <1>4, <1>5 DEF Coursed, Shape, Fresh, Stage
<1> QED BY <1>1, <1>3, <1>4, <1>6

LEMMA GotoBystands ==
  ASSUME Coursed, NEW r \in Requests, NEW s, Goto(r, s), Operating(r),
         req[r].step \notin Watched, s \notin Watched
  PROVE  Bystand
<1>1. Stage(r) = "agent"
  BY DEF Operating
<1>2. /\ Coursed' /\ \A q \in Requests \ {r} : req'[q] = req[q]
      /\ req'[r].stage = "agent" /\ req'[r].step = s
      /\ \A f \in Fields \ {"step"} : req'[r][f] = req[r][f]
  BY <1>1, GotoCourse
<1>3. req'[r].type = req[r].type /\ req'[r].kind = req[r].kind
  BY <1>2 DEF Fields
<1>4. Onward(r) /\ Aside(r) /\ NoneBegins(r)
  BY <1>1, <1>2, <1>3 DEF Onward, Aside, NoneBegins, Watched
<1>5. ASSUME NEW q \in Requests \ {r} PROVE Onward(q) /\ Aside(q) /\ NoneBegins(q)
  BY <1>2 DEF Onward, Aside, NoneBegins, Operating, Stage
<1> QED BY <1>2, <1>4, <1>5 DEF Bystand

LEMMA AnswerBystands ==
  ASSUME Coursed, NEW r \in Requests, NEW ok, Answer(r, ok), Stage(r) \in {"hub", "agent"}
  PROVE  Bystand
<1>1. \A q \in Requests \ {r} : req'[q] = req[q]
  BY DEF Answer, Coursed, Shape
<1>2. req'[r] = [req[r] EXCEPT !.stage = "answered", !.verdict = IF ok THEN "success" ELSE "failed",
                               !.to = Browsers]
  BY DEF Answer, Coursed, Shape
<1>3. /\ DOMAIN req'[r] = Fields /\ req'[r].stage = "answered"
      /\ req'[r].type = req[r].type /\ req'[r].kind = req[r].kind
  BY <1>2 DEF Coursed, Shape, Fields
<1>4. DOMAIN req' = Requests
  BY DEF Answer, Coursed, Shape
<1>5. Coursed'
  BY <1>1, <1>3, <1>4 DEF Coursed, Shape, Fresh, Stage
<1>6. Onward(r) /\ Aside(r) /\ NoneBegins(r)
  BY <1>3 DEF Onward, Aside, NoneBegins
<1>7. ASSUME NEW q \in Requests \ {r} PROVE Onward(q) /\ Aside(q) /\ NoneBegins(q)
  BY <1>1 DEF Onward, Aside, NoneBegins, Operating, Stage
<1> QED BY <1>5, <1>6, <1>7 DEF Bystand

\* Steps that change one request in another way, given what becomes of it.
LEMMA OneBystands ==
  ASSUME Coursed, NEW r \in Requests, DOMAIN req' = Requests,
         \A q \in Requests \ {r} : req'[q] = req[q], DOMAIN req'[r] = Fields,
         Onward(r), Aside(r), NoneBegins(r),
         req'[r].stage \in {"unsent", "hub"} => req'[r].step = "arrived"
  PROVE  Bystand
<1>1. Coursed'
  BY DEF Coursed, Shape, Fresh, Stage
<1>2. ASSUME NEW q \in Requests \ {r} PROVE Onward(q) /\ Aside(q) /\ NoneBegins(q)
  BY DEF Onward, Aside, NoneBegins, Operating, Stage
<1> QED BY <1>1, <1>2 DEF Bystand

LEMMA StutterBystands ==
  ASSUME Coursed, req' = req
  PROVE  Bystand
BY DEF Bystand, Coursed, Shape, Fresh, Onward, Aside, NoneBegins, Operating, Stage

\* The steps of the panel and the hub.
LEMMA RelayingBystands ==
  ASSUME Coursed, NEW r \in Requests, Send(r) \/ Relaying(r) \/ TimesOut(r)
  PROVE  Bystand
<1>0. req[r].stage \in {"unsent", "hub"} => req[r].step = "arrived"
  BY DEF Coursed, Fresh, Stage
<1>1. CASE Send(r)
  <2>1. PICK c \in box : req' = [req EXCEPT ![r].stage = "hub", ![r].target = c.id]
    BY <1>1 DEF Send
  <2>2. req'[r] = [req[r] EXCEPT !.stage = "hub", !.target = c.id]
    BY <2>1 DEF Coursed, Shape
  <2>3. /\ DOMAIN req'[r] = Fields /\ req'[r].stage = "hub" /\ req'[r].step = req[r].step
        /\ req'[r].type = req[r].type /\ req'[r].kind = req[r].kind
    BY <2>2 DEF Coursed, Shape, Fields
  <2>4. DOMAIN req' = Requests /\ \A q \in Requests \ {r} : req'[q] = req[q]
    BY <2>1 DEF Coursed, Shape
  <2>5. Stage(r) = "unsent"
    BY <1>1 DEF Send
  <2>6. Onward(r) /\ Aside(r) /\ NoneBegins(r)
    BY <2>3, <2>5 DEF Onward, Aside, NoneBegins
  <2> QED BY <1>0, <2>3, <2>4, <2>5, <2>6, OneBystands DEF Stage
<1>2. CASE HubRejects(r)
  <2>2. req'[r] = [req[r] EXCEPT !.stage = "answered", !.verdict = "failed", !.to = {req[r].from}]
    BY <1>2 DEF HubRejects, Coursed, Shape
  <2>3. /\ DOMAIN req'[r] = Fields /\ req'[r].stage = "answered"
        /\ req'[r].type = req[r].type /\ req'[r].kind = req[r].kind
    BY <2>2 DEF Coursed, Shape, Fields
  <2>4. DOMAIN req' = Requests /\ \A q \in Requests \ {r} : req'[q] = req[q]
    BY <1>2 DEF HubRejects, Coursed, Shape
  <2>6. Onward(r) /\ Aside(r) /\ NoneBegins(r)
    BY <2>3 DEF Onward, Aside, NoneBegins
  <2> QED BY <2>3, <2>4, <2>6, OneBystands
<1>3. CASE HubForwards(r)
  <2>2. req'[r] = [req[r] EXCEPT !.stage = IF online THEN "agent" ELSE "dropped"]
    BY <1>3 DEF HubForwards, Coursed, Shape
  <2>3. /\ DOMAIN req'[r] = Fields /\ req'[r].stage \in {"agent", "dropped"} /\ req'[r].step = req[r].step
        /\ req'[r].type = req[r].type /\ req'[r].kind = req[r].kind
    BY <2>2 DEF Coursed, Shape, Fields
  <2>4. DOMAIN req' = Requests /\ \A q \in Requests \ {r} : req'[q] = req[q]
    BY <1>3 DEF HubForwards, Coursed, Shape
  <2>5. Stage(r) = "hub" /\ req[r].step = "arrived"
    BY <1>0, <1>3 DEF HubForwards, Stage
  <2>6. Onward(r) /\ Aside(r) /\ NoneBegins(r)
    BY <1>3, <2>3, <2>5 DEF Onward, Aside, NoneBegins, Watched
  <2> QED BY <2>3, <2>4, <2>6, OneBystands
<1>4. CASE Deliver(r)
  <2>2. req'[r] = [req[r] EXCEPT !.stage = "shown"]
    BY <1>4 DEF Deliver, Coursed, Shape
  <2>3. /\ DOMAIN req'[r] = Fields /\ req'[r].stage = "shown"
        /\ req'[r].type = req[r].type /\ req'[r].kind = req[r].kind
    BY <2>2 DEF Coursed, Shape, Fields
  <2>4. DOMAIN req' = Requests /\ \A q \in Requests \ {r} : req'[q] = req[q]
    BY <1>4 DEF Deliver, Coursed, Shape
  <2>5. Stage(r) = "answered"
    BY <1>4 DEF Deliver
  <2>6. Onward(r) /\ Aside(r) /\ NoneBegins(r)
    BY <2>3, <2>5 DEF Onward, Aside, NoneBegins
  <2> QED BY <2>3, <2>4, <2>6, OneBystands
<1>5. CASE TimesOut(r)
  BY <1>5, StutterBystands DEF TimesOut
<1> QED BY <1>1, <1>2, <1>3, <1>4, <1>5 DEF Relaying

\* Calls of plain actions, batches, logs and forwards.
LEMMA PlainBystands ==
  ASSUME Coursed, NEW r \in Requests,
         \/ SwitchReturns(r) \/ CallReturns(r) \/ BatchItem(r) \/ Applies(r) \/ BatchEnds(r) \/ LogBatch(r)
         \/ ForwardStarts(r) \/ ForwardStops(r)
  PROVE  Bystand
<1>0. Operating(r) /\ req[r].step \notin Watched
  BY DEF SwitchReturns, CallReturns, BatchItem, Applies, BatchEnds, LogBatch, ForwardStarts, ForwardStops, At, Operating, Watched
<1>1. ASSUME NEW left, NEW seen, req' = [req EXCEPT ![r].left = left, ![r].seen = seen]
      PROVE  Bystand
  <2>2. req'[r] = [req[r] EXCEPT !.left = left, !.seen = seen]
    BY <1>1 DEF Coursed, Shape
  <2>3. /\ DOMAIN req'[r] = Fields /\ req'[r].stage = req[r].stage /\ req'[r].step = req[r].step
        /\ req'[r].type = req[r].type /\ req'[r].kind = req[r].kind
    BY <2>2 DEF Coursed, Shape, Fields
  <2>4. DOMAIN req' = Requests /\ \A q \in Requests \ {r} : req'[q] = req[q]
    BY <1>1 DEF Coursed, Shape
  <2>5. Stage(r) = "agent"
    BY <1>0 DEF Operating
  <2>6. Onward(r) /\ Aside(r) /\ NoneBegins(r)
    BY <1>0, <2>3, <2>5 DEF Onward, Aside, NoneBegins, Stage
  <2> QED BY <2>3, <2>4, <2>5, <2>6, OneBystands DEF Stage
<1>2. ASSUME NEW left, req' = [req EXCEPT ![r].left = left]
      PROVE  Bystand
  <2>2. req'[r] = [req[r] EXCEPT !.left = left]
    BY <1>2 DEF Coursed, Shape
  <2>3. /\ DOMAIN req'[r] = Fields /\ req'[r].stage = req[r].stage /\ req'[r].step = req[r].step
        /\ req'[r].type = req[r].type /\ req'[r].kind = req[r].kind
    BY <2>2 DEF Coursed, Shape, Fields
  <2>4. DOMAIN req' = Requests /\ \A q \in Requests \ {r} : req'[q] = req[q]
    BY <1>2 DEF Coursed, Shape
  <2>5. Stage(r) = "agent"
    BY <1>0 DEF Operating
  <2>6. Onward(r) /\ Aside(r) /\ NoneBegins(r)
    BY <1>0, <2>3, <2>5 DEF Onward, Aside, NoneBegins, Stage
  <2> QED BY <2>3, <2>4, <2>5, <2>6, OneBystands DEF Stage
<1>3. ASSUME NEW ok, Answer(r, ok)
      PROVE  Bystand
  BY <1>0, <1>3, AnswerBystands DEF Operating
<1>4. CASE SwitchReturns(r) \/ CallReturns(r)
  BY <1>2, <1>3, <1>4 DEF SwitchReturns, CallReturns
<1>5. CASE BatchItem(r) \/ Applies(r)
  BY <1>1, <1>2, <1>5 DEF BatchItem, Applies
<1>6. CASE BatchEnds(r)
  BY <1>3, <1>6 DEF BatchEnds
<1>7. CASE LogBatch(r)
  BY <1>2, <1>3, <1>7 DEF LogBatch
<1>8. CASE ForwardStarts(r) \/ ForwardStops(r)
  BY <1>3, <1>8 DEF ForwardStarts, ForwardStops
<1> QED BY <1>4, <1>5, <1>6, <1>7, <1>8

\* The calls of an image update.
LEMMA UpdateBystands ==
  ASSUME Coursed, NEW r \in Requests, UpdateContainer(r)
  PROVE  Bystand
<1>1. ASSUME NEW s, Goto(r, s), Operating(r), req[r].step \notin Watched, s \notin Watched
      PROVE  Bystand
  BY <1>1, GotoBystands
<1>2. ASSUME NEW s, NEW refused, NEW effect, NEW next, NEW onError, At(r, s), s \notin Watched \cup {"arrived"},
             DockerCall(r, refused, effect, next, onError), next \notin Watched, onError \notin Watched
      PROVE  Bystand
  <2>1. Operating(r) /\ req[r].step \notin Watched
    BY <1>2 DEF At, Operating
  <2>2. Goto(r, next) \/ Goto(r, onError)
    BY <1>2 DEF DockerCall
  <2> QED BY <1>1, <1>2, <2>1, <2>2
<1>3. CASE Inspect(r)
  <2>1. Operating(r) /\ req[r].step \notin Watched /\ Stage(r) = "agent"
    BY <1>3 DEF Inspect, At, Operating, Watched
  <2>2. CASE Answer(r, FALSE)
    BY <2>1, <2>2, AnswerBystands
  <2>3. CASE \E c \in Old(r) : GotoWith(r, "pull", c.name)
    <3>1. PICK seen : req' = [req EXCEPT ![r].step = "pull", ![r].seen = seen]
      BY <2>3 DEF GotoWith
    <3>2. req'[r] = [req[r] EXCEPT !.step = "pull", !.seen = seen]
      BY <3>1 DEF Coursed, Shape
    <3>3. /\ DOMAIN req'[r] = Fields /\ req'[r].stage = req[r].stage /\ req'[r].step = "pull"
          /\ req'[r].type = req[r].type /\ req'[r].kind = req[r].kind
      BY <3>2 DEF Coursed, Shape, Fields
    <3>4. DOMAIN req' = Requests /\ \A q \in Requests \ {r} : req'[q] = req[q]
      BY <3>1 DEF Coursed, Shape
    <3>5. Onward(r) /\ Aside(r) /\ NoneBegins(r)
      BY <2>1, <3>3 DEF Onward, Aside, NoneBegins, Stage, Watched
    <3> QED BY <2>1, <3>3, <3>4, <3>5, OneBystands DEF Stage
  <2> QED BY <1>3, <2>2, <2>3 DEF Inspect
<1>4. CASE Pull(r)
  BY <1>1, <1>4 DEF Pull, At, Operating, Watched
<1>5. CASE Stop(r)
  BY <1>2, <1>5 DEF Stop, Watched
<1>6. CASE Rename(r)
  BY <1>2, <1>6 DEF Rename, Watched
<1>7. CASE Create(r)
  BY <1>2, <1>7 DEF Create, Watched
<1>8. CASE Start(r)
  BY <1>2, <1>8 DEF Start, Watched
<1>9. CASE RemoveOld(r)
  BY <1>2, <1>9 DEF RemoveOld, Watched
<1>10. CASE RemoveNew(r)
  BY <1>2, <1>10 DEF RemoveNew, Watched
<1>11. CASE RenameBack(r)
  BY <1>2, <1>11 DEF RenameBack, Watched
<1>12. CASE StartBack(r)
  BY <1>2, <1>12 DEF StartBack, Watched
<1>13. CASE UpdateEnds(r)
  BY <1>13, AnswerBystands DEF UpdateEnds, Operating
<1> QED BY <1>3, <1>4, <1>5, <1>6, <1>7, <1>8, <1>9, <1>10, <1>11, <1>12, <1>13 DEF UpdateContainer

\* Steps that end an operation, whichever it is, and steps of no request.
LEMMA EndingBystands ==
  ASSUME Coursed, NEW r \in Requests,
         \/ CallFails(r) \/ RolloutDone(r) \/ RolloutTimesOut(r)
         \/ Install(r) \/ InstallFails(r) \/ DownloadBreaks(r)
  PROVE  Bystand
<1>1. Stage(r) = "agent" /\ \E ok \in BOOLEAN : Answer(r, ok)
  BY DEF CallFails, RolloutDone, RolloutTimesOut, Install, InstallFails, DownloadBreaks, RemovesAndFails,
         At, Operating
<1> QED BY <1>1, AnswerBystands

LEMMA HangBystands ==
  ASSUME Coursed, NEW r \in Requests, CallHangs(r)
  PROVE  Bystand
<1>1. /\ Stage(r) = "agent" /\ req[r].step # "arrived" /\ req[r].step \in UntimedSteps
      /\ Goto(r, "hung")
  BY DEF CallHangs, Operating
<1>2. /\ Coursed' /\ \A q \in Requests \ {r} : req'[q] = req[q]
      /\ req'[r].stage = "agent" /\ req'[r].step = "hung"
      /\ \A f \in Fields \ {"step"} : req'[r][f] = req[r][f]
  BY <1>1, GotoCourse
<1>3. req'[r].type = req[r].type /\ req'[r].kind = req[r].kind
  BY <1>2 DEF Fields
<1>4. Onward(r) /\ Aside(r) /\ NoneBegins(r)
  BY <1>1, <1>2, <1>3 DEF Onward, Aside, NoneBegins, Operating
<1>5. ASSUME NEW q \in Requests \ {r} PROVE Onward(q) /\ Aside(q) /\ NoneBegins(q)
  BY <1>2 DEF Onward, Aside, NoneBegins, Operating, Stage
<1> QED BY <1>2, <1>4, <1>5 DEF Bystand

LEMMA RestartBystands ==
  ASSUME Coursed, AgentRestarts
  PROVE  Bystand
<1>1. req' = [r \in Requests |-> IF Stage(r) = "agent" THEN [req[r] EXCEPT !.stage = "cut"] ELSE req[r]]
  BY DEF AgentRestarts
<1>2. ASSUME NEW q \in Requests
      PROVE  /\ DOMAIN req'[q] = Fields /\ Onward(q) /\ Aside(q) /\ NoneBegins(q)
             /\ req'[q].stage \in {"unsent", "hub"} => req'[q] = req[q]
  <2>1. CASE Stage(q) = "agent"
    <3>1. req'[q] = [req[q] EXCEPT !.stage = "cut"]
      BY <1>1, <2>1
    <3>2. /\ DOMAIN req'[q] = Fields /\ req'[q].stage = "cut"
          /\ req'[q].type = req[q].type /\ req'[q].kind = req[q].kind
      BY <3>1 DEF Coursed, Shape, Fields
    <3> QED BY <3>2 DEF Onward, Aside, NoneBegins
  <2>2. CASE Stage(q) # "agent"
    <3>1. req'[q] = req[q]
      BY <1>1, <2>2
    <3> QED BY <2>2, <3>1 DEF Onward, Aside, NoneBegins, Stage, Coursed, Shape
  <2> QED BY <2>1, <2>2
<1>3. Coursed'
  BY <1>1, <1>2 DEF Coursed, Shape, Fresh, Stage
<1> QED BY <1>2, <1>3 DEF Bystand

\* The steps of edits and updates: one request moves on.
Moves(r, s) ==
  /\ Coursed' /\ \A q \in Requests \ {r} : req'[q] = req[q]
  /\ req'[r].stage = "agent" /\ req'[r].step = s
  /\ req'[r].type = req[r].type /\ req'[r].kind = req[r].kind

LEMMA OneMoves ==
  ASSUME Coursed, NEW r \in Requests, NEW s, Stage(r) = "agent", DOMAIN req' = Requests,
         \A q \in Requests \ {r} : req'[q] = req[q], DOMAIN req'[r] = Fields,
         req'[r].stage = req[r].stage, req'[r].step = s,
         req'[r].type = req[r].type, req'[r].kind = req[r].kind
  PROVE  Moves(r, s)
<1>1. Coursed'
  BY DEF Coursed, Shape, Fresh, Stage
<1> QED BY <1>1 DEF Moves, Stage

LEMMA MovesOnward ==
  ASSUME NEW r \in Requests, NEW s, Moves(r, s), Stage(r) = "agent"
  PROVE  Coursed' /\ \A q \in Requests : Onward(q)
BY DEF Moves, Onward, Stage

LEMMA BystandOnward ==
  ASSUME Bystand
  PROVE  Coursed' /\ \A q \in Requests : Onward(q)
BY DEF Bystand

\* Dispatch answers at once, or begins the operation.
LEMMA DispatchMoves ==
  ASSUME Coursed, NEW r \in Requests, Dispatch(r)
  PROVE  /\ Stage(r) = "agent" /\ req[r].step = "arrived"
         /\ \/ Operation(req[r].kind, Type(r)) = "refused" /\ Answer(r, FALSE)
            \/ /\ Operation(req[r].kind, Type(r)) # "refused"
               /\ Moves(r, Operation(req[r].kind, Type(r)))
               /\ Operation(req[r].kind, Type(r)) = "sums" => req'[r].left = 0
<1> DEFINE op == Operation(req[r].kind, Type(r))
<1> HIDE DEF op
<1>1. Stage(r) = "agent" /\ req[r].step = "arrived"
  BY DEF Dispatch, At
<1>2. CASE op = "refused"
  BY <1>1, <1>2 DEF Dispatch, op
<1>3. CASE op # "refused"
  <2>1. PICK left : /\ req' = [req EXCEPT ![r].step = op, ![r].left = left]
                    /\ op = "sums" => left = 0
    <3>1. req' = [req EXCEPT ![r].step = op,
                    ![r].left = CASE op = "calls" -> Calls(Type(r))
                                  [] op \in {"batch", "logs"} -> Items
                                  [] OTHER -> 0]
      BY <1>3 DEF Dispatch, op
    <3> QED BY <3>1
  <2>2. req'[r] = [req[r] EXCEPT !.step = op, !.left = left]
    BY <2>1 DEF Coursed, Shape
  <2>3. /\ DOMAIN req'[r] = Fields /\ req'[r].stage = req[r].stage /\ req'[r].step = op
        /\ req'[r].type = req[r].type /\ req'[r].kind = req[r].kind /\ req'[r].left = left
    BY <2>2 DEF Coursed, Shape, Fields
  <2>4. DOMAIN req' = Requests /\ \A q \in Requests \ {r} : req'[q] = req[q]
    BY <2>1 DEF Coursed, Shape
  <2>5. Moves(r, op)
    BY <1>1, <2>3, <2>4, OneMoves
  <2> QED BY <1>1, <1>3, <2>1, <2>3, <2>5 DEF op
<1> QED BY <1>2, <1>3

\* What Read and List keep for the write.
LEMMA SeenMoves ==
  ASSUME Coursed, NEW r \in Requests, NEW s, NEW seen, GotoWith(r, s, seen), Stage(r) = "agent"
  PROVE  Moves(r, s) /\ req'[r].seen = seen
<1>1. req' = [req EXCEPT ![r].step = s, ![r].seen = seen]
  BY DEF GotoWith
<1>2. req'[r] = [req[r] EXCEPT !.step = s, !.seen = seen]
  BY <1>1 DEF Coursed, Shape
<1>3. /\ DOMAIN req'[r] = Fields /\ req'[r].stage = req[r].stage /\ req'[r].step = s
      /\ req'[r].type = req[r].type /\ req'[r].kind = req[r].kind /\ req'[r].seen = seen
  BY <1>2 DEF Coursed, Shape, Fields
<1>4. DOMAIN req' = Requests /\ \A q \in Requests \ {r} : req'[q] = req[q]
  BY <1>1 DEF Coursed, Shape
<1> QED BY <1>3, <1>4, OneMoves

\* An accepted write: the request waits, drains, or is answered.
LEMMA WritesMoves ==
  ASSUME Coursed, NEW r \in Requests, Writes(r), At(r, "put")
  PROVE  Moves(r, "wait") \/ Moves(r, "batch") \/ Answer(r, TRUE)
<1>0. Stage(r) = "agent"
  BY DEF At
<1>1. CASE Goto(r, "wait")
  <2>1. /\ Coursed' /\ \A q \in Requests \ {r} : req'[q] = req[q]
        /\ req'[r].stage = "agent" /\ req'[r].step = "wait"
        /\ \A f \in Fields \ {"step"} : req'[r][f] = req[r][f]
    BY <1>0, <1>1, GotoCourse
  <2>2. req'[r].type = req[r].type /\ req'[r].kind = req[r].kind
    BY <2>1 DEF Fields
  <2> QED BY <2>1, <2>2 DEF Moves
<1>2. CASE req' = [req EXCEPT ![r].step = "batch", ![r].seen = None, ![r].left = Items]
  <2>1. req'[r] = [req[r] EXCEPT !.step = "batch", !.seen = None, !.left = Items]
    BY <1>2 DEF Coursed, Shape
  <2>2. /\ DOMAIN req'[r] = Fields /\ req'[r].stage = req[r].stage /\ req'[r].step = "batch"
        /\ req'[r].type = req[r].type /\ req'[r].kind = req[r].kind
    BY <2>1 DEF Coursed, Shape, Fields
  <2>3. DOMAIN req' = Requests /\ \A q \in Requests \ {r} : req'[q] = req[q]
    BY <1>2 DEF Coursed, Shape
  <2> QED BY <1>0, <2>2, <2>3, OneMoves
<1> QED BY <1>1, <1>2 DEF Writes

\* The three steps of an update of the agent that move on.
LEMMA UpdateMoves ==
  ASSUME Coursed, NEW r \in Requests
  PROVE  /\ Sums(r) => Moves(r, "open") /\ req'[r].left = req[r].left
         /\ Open(r) => /\ Moves(r, "download") /\ req'[r].left = req[r].left
                       /\ req'[r].target = (IF files.tmp = None THEN r ELSE files.tmp)
                       /\ req'[r].seen \in {"good", "bad"}
         /\ Download(r) => /\ Moves(r, "download") /\ req'[r].left = req[r].left + 1
                           /\ req'[r].target = req[r].target /\ req'[r].seen = req[r].seen
<1>1. CASE Sums(r)
  <2>1. Stage(r) = "agent" /\ Goto(r, "open")
    BY <1>1 DEF Sums, At
  <2>2. /\ Coursed' /\ \A q \in Requests \ {r} : req'[q] = req[q]
        /\ req'[r].stage = "agent" /\ req'[r].step = "open"
        /\ \A f \in Fields \ {"step"} : req'[r][f] = req[r][f]
    BY <2>1, GotoCourse
  <2>3. req'[r].type = req[r].type /\ req'[r].kind = req[r].kind /\ req'[r].left = req[r].left
    BY <2>2 DEF Fields
  <2>4. ~At(r, "open") /\ ~At(r, "download")
    BY <1>1 DEF Sums, At
  <2> QED BY <2>2, <2>3, <2>4 DEF Moves, Open, Download
<1>2. CASE Open(r)
  <2> DEFINE file == IF files.tmp = None THEN r ELSE files.tmp
  <2> HIDE DEF file
  <2>1. PICK quality \in {"good", "bad"} :
          req' = [req EXCEPT ![r].step = "download", ![r].target = file, ![r].seen = quality]
    BY <1>2 DEF Open, file
  <2>2. req'[r] = [req[r] EXCEPT !.step = "download", !.target = file, !.seen = quality]
    BY <2>1 DEF Coursed, Shape
  <2>3. /\ DOMAIN req'[r] = Fields /\ req'[r].stage = req[r].stage /\ req'[r].step = "download"
        /\ req'[r].type = req[r].type /\ req'[r].kind = req[r].kind
        /\ req'[r].left = req[r].left /\ req'[r].target = file /\ req'[r].seen = quality
    BY <2>2 DEF Coursed, Shape, Fields
  <2>4. DOMAIN req' = Requests /\ \A q \in Requests \ {r} : req'[q] = req[q]
    BY <2>1 DEF Coursed, Shape
  <2>5. Stage(r) = "agent" /\ ~At(r, "sums") /\ ~At(r, "download")
    BY <1>2 DEF Open, At
  <2>6. Moves(r, "download")
    BY <2>3, <2>4, <2>5, OneMoves
  <2> QED BY <2>3, <2>5, <2>6 DEF Sums, Download, file
<1>3. CASE Download(r)
  <2>1. req' = [req EXCEPT ![r].left = @ + 1]
    BY <1>3 DEF Download
  <2>2. req'[r] = [req[r] EXCEPT !.left = req[r].left + 1]
    BY <2>1 DEF Coursed, Shape
  <2>3. /\ DOMAIN req'[r] = Fields /\ req'[r].stage = req[r].stage /\ req'[r].step = req[r].step
        /\ req'[r].type = req[r].type /\ req'[r].kind = req[r].kind
        /\ req'[r].left = req[r].left + 1 /\ req'[r].target = req[r].target /\ req'[r].seen = req[r].seen
    BY <2>2 DEF Coursed, Shape, Fields
  <2>4. DOMAIN req' = Requests /\ \A q \in Requests \ {r} : req'[q] = req[q]
    BY <2>1 DEF Coursed, Shape
  <2>5. Stage(r) = "agent" /\ req[r].step = "download" /\ ~At(r, "sums") /\ ~At(r, "open")
    BY <1>3 DEF Download, At
  <2>6. Moves(r, "download")
    BY <2>3, <2>4, <2>5, OneMoves
  <2> QED BY <2>3, <2>5, <2>6 DEF Sums, Open
<1> QED BY <1>1, <1>2, <1>3

\* Every step of the system keeps every request on its course.
LEMMA AllOnward ==
  ASSUME Coursed, [Next]_vars
  PROVE  Coursed' /\ \A q \in Requests : Onward(q)
<1>1. CASE \E r \in Requests : Send(r) \/ Relaying(r) \/ TimesOut(r)
  BY <1>1, RelayingBystands, BystandOnward
<1>2. ASSUME NEW r \in Requests, Dispatch(r)
      PROVE  Coursed' /\ \A q \in Requests : Onward(q)
  BY <1>2, DispatchMoves, MovesOnward, AnswerBystands, BystandOnward
<1>3. ASSUME NEW r \in Requests,
             \/ SwitchReturns(r) \/ CallReturns(r) \/ BatchItem(r) \/ Applies(r) \/ BatchEnds(r)
             \/ LogBatch(r) \/ ForwardStarts(r) \/ ForwardStops(r) \/ UpdateContainer(r)
      PROVE  Coursed' /\ \A q \in Requests : Onward(q)
  BY <1>3, PlainBystands, UpdateBystands, BystandOnward
<1>4. ASSUME NEW r \in Requests,
             \/ CallFails(r) \/ CallHangs(r) \/ RolloutDone(r) \/ RolloutTimesOut(r)
             \/ Install(r) \/ InstallFails(r) \/ DownloadBreaks(r)
      PROVE  Coursed' /\ \A q \in Requests : Onward(q)
  BY <1>4, EndingBystands, HangBystands, BystandOnward
<1>5. ASSUME NEW r \in Requests, Read(r) \/ List(r)
      PROVE  Coursed' /\ \A q \in Requests : Onward(q)
  <2>1. Stage(r) = "agent"
    BY <1>5 DEF Read, List, At
  <2>3. CASE Answer(r, FALSE)
    BY <2>1, <2>3, AnswerBystands, BystandOnward
  <2>4. ASSUME NEW s, NEW seen, GotoWith(r, s, seen)
        PROVE  Coursed' /\ \A q \in Requests : Onward(q)
    BY <2>1, <2>4, SeenMoves, MovesOnward
  <2> QED BY <1>5, <2>3, <2>4 DEF Read, List
<1>6. ASSUME NEW r \in Requests, Put(r)
      PROVE  Coursed' /\ \A q \in Requests : Onward(q)
  <2>1. Stage(r) = "agent" /\ At(r, "put") /\ (Writes(r) \/ Answer(r, FALSE))
    BY <1>6 DEF Put, At
  <2> QED BY <2>1, WritesMoves, MovesOnward, AnswerBystands, BystandOnward
<1>7. ASSUME NEW r \in Requests, Sums(r) \/ Open(r) \/ Download(r)
      PROVE  Coursed' /\ \A q \in Requests : Onward(q)
  <2>1. Stage(r) = "agent"
    BY <1>7 DEF Sums, Open, Download, At
  <2> QED BY <1>7, <2>1, UpdateMoves, MovesOnward
<1>8. CASE Controller \/ AgentRestarts \/ UNCHANGED vars
  BY <1>8, StutterBystands, RestartBystands, BystandOnward
     DEF Controller, ControllerObserves, ControllerFinishes, vars
<1> QED BY <1>1, <1>2, <1>3, <1>4, <1>5, <1>6, <1>7, <1>8 DEF Next, Handle, Edit, UpdateAgent

-----------------------------------------------------------------------------
\* Read-only sessions and the audit log.

\* A request the agent has was let through: logs only in a read-only session,
\* anything else audited.
Cleared(r) ==
  Stage(r) = "agent" =>
    /\ readOnly => Type(r) \in readOnlySafeActions
    /\ Type(r) \notin readOnlySafeActions => r \in audited

Clearance == Coursed /\ (\A r \in Requests : Cleared(r)) /\ ReadOnlyAndAudited

LEMMA HubWritesOnly ==
  ASSUME [Next]_vars
  PROVE  /\ readOnly' = readOnly
         /\ audited' = audited \/ \E r \in Requests : HubForwards(r)
         /\ touched' = touched \/ \E r \in Requests : Dispatch(r)
<1>1. ASSUME NEW r \in Requests, Send(r) \/ HubRejects(r) \/ Deliver(r) \/ TimesOut(r)
      PROVE  UNCHANGED <<hub, touched>>
  BY <1>1 DEF Send, HubRejects, Deliver, TimesOut
<1>2. ASSUME NEW r \in Requests, HubForwards(r)
      PROVE  UNCHANGED <<readOnly, touched>>
  BY <1>2 DEF HubForwards
<1>3. ASSUME NEW r \in Requests, Dispatch(r)
      PROVE  UNCHANGED hub
  BY <1>3 DEF Dispatch
<1>4. ASSUME NEW r \in Requests,
             \/ SwitchReturns(r) \/ CallReturns(r) \/ BatchItem(r) \/ Applies(r) \/ BatchEnds(r)
             \/ LogBatch(r) \/ ForwardStarts(r) \/ ForwardStops(r) \/ CallFails(r) \/ CallHangs(r)
             \/ DownloadBreaks(r)
      PROVE  UNCHANGED <<hub, touched>>
  BY <1>4 DEF SwitchReturns, CallReturns, BatchItem, Applies, BatchEnds, LogBatch, ForwardStarts,
              ForwardStops, CallFails, CallHangs, DownloadBreaks, RemovesAndFails
<1>5. ASSUME NEW r \in Requests, UpdateContainer(r)
      PROVE  UNCHANGED <<hub, touched>>
  <2>1. ASSUME NEW refused, NEW effect, NEW next, NEW onError, DockerCall(r, refused, effect, next, onError)
        PROVE  UNCHANGED <<hub, touched>>
    BY <2>1 DEF DockerCall
  <2>2. CASE Inspect(r) \/ Pull(r) \/ UpdateEnds(r)
    BY <2>2 DEF Inspect, Pull, UpdateEnds
  <2>3. CASE Stop(r) \/ Rename(r) \/ Create(r) \/ Start(r)
    BY <2>1, <2>3 DEF Stop, Rename, Create, Start
  <2>4. CASE RemoveOld(r) \/ RemoveNew(r) \/ RenameBack(r) \/ StartBack(r)
    BY <2>1, <2>4 DEF RemoveOld, RemoveNew, RenameBack, StartBack
  <2> QED BY <1>5, <2>2, <2>3, <2>4 DEF UpdateContainer
<1>6. ASSUME NEW r \in Requests, Edit(r) \/ UpdateAgent(r)
      PROVE  UNCHANGED <<hub, touched>>
  <2>1. CASE Read(r) \/ Put(r) \/ RolloutDone(r) \/ RolloutTimesOut(r)
    BY <2>1 DEF Read, Put, RolloutDone, RolloutTimesOut
  <2>2. CASE List(r)
    BY <2>2 DEF List
  <2>3. CASE UpdateAgent(r)
    BY <2>3 DEF UpdateAgent, Sums, Open, Download, Install, InstallFails, RemovesAndFails
  <2> QED BY <1>6, <2>1, <2>2, <2>3 DEF Edit
<1>7. CASE Controller \/ AgentRestarts \/ UNCHANGED vars
  <2>1. CASE ControllerObserves
    BY <2>1 DEF ControllerObserves, hub
  <2>2. CASE ControllerFinishes
    BY <2>2 DEF ControllerFinishes, hub
  <2>3. CASE AgentRestarts
    BY <2>3 DEF AgentRestarts, hub
  <2>4. CASE UNCHANGED vars
    BY <2>4 DEF vars, hub
  <2> QED BY <1>7, <2>1, <2>2, <2>3, <2>4 DEF Controller
<1> QED BY <1>1, <1>2, <1>3, <1>4, <1>5, <1>6, <1>7 DEF Next, Relaying, Handle, hub

LEMMA ClearanceStep == Clearance /\ [Next]_vars => Clearance'
<1> SUFFICES ASSUME Clearance, [Next]_vars PROVE Clearance'
  OBVIOUS
<1>1. Coursed' /\ \A q \in Requests : Onward(q)
  BY AllOnward DEF Clearance
<1>2. readOnly' = readOnly /\ audited \subseteq audited'
  BY HubWritesOnly DEF HubForwards
<1>3. ASSUME NEW q \in Requests
      PROVE  Cleared(q)'
  <2>1. CASE HubForwards(q)
    <3>1. req'[q].type = req[q].type
      BY <1>1 DEF Onward
    <3> QED BY <1>2, <2>1, <3>1 DEF HubForwards, Cleared, Type, Stage
  <2>2. CASE ~HubForwards(q)
    <3>1. req'[q].type = req[q].type /\ (req'[q].stage = "agent" => Stage(q) = "agent")
      BY <1>1, <2>2 DEF Onward
    <3> QED BY <1>2, <3>1 DEF Clearance, Cleared, Type, Stage
  <2> QED BY <2>1, <2>2
<1>4. ReadOnlyAndAudited'
  <2>1. CASE touched' = touched
    BY <1>2, <2>1 DEF Clearance, ReadOnlyAndAudited
  <2>2. ASSUME NEW r \in Requests, Dispatch(r)
        PROVE  ReadOnlyAndAudited'
    <3>1. Stage(r) = "agent"
      BY <2>2 DEF Dispatch, At
    <3>2. CASE Type(r) \in readOnlySafeActions
      <4>1. Operation(req[r].kind, Type(r)) = "logs"
        BY <3>2 DEF Operation
      <4>2. touched' = touched
        BY <2>2, <4>1 DEF Dispatch
      <4> QED BY <2>1, <4>2
    <3>3. CASE Type(r) \notin readOnlySafeActions
      <4>1. ~readOnly /\ r \in audited
        BY <3>1, <3>3 DEF Clearance, Cleared
      <4>2. touched' \subseteq touched \cup {r}
        BY <2>2 DEF Dispatch
      <4> QED BY <1>2, <4>1, <4>2 DEF Clearance, ReadOnlyAndAudited
    <3> QED BY <3>2, <3>3
  <2> QED BY <2>1, <2>2, HubWritesOnly
<1> QED BY <1>1, <1>3, <1>4 DEF Clearance

\* server.go, handleBrowserMessage: through a read-only session no executor makes
\* a call for anything but logs, and whatever an executor was asked to do is in
\* the audit log before it is done.
THEOREM ReadOnlyTouchesNothing == Spec => []ReadOnlyAndAudited
<1>1. Init => Clearance
  <2> SUFFICES ASSUME Init PROVE Clearance
    OBVIOUS
  <2>1. Coursed /\ \A r \in Requests : Cleared(r)
    BY CoursedInit DEF Cleared
  <2>2. touched = {}
    BY DEF Init
  <2> QED BY <2>1, <2>2 DEF Clearance, ReadOnlyAndAudited
<1>2. Clearance => ReadOnlyAndAudited
  BY DEF Clearance
<1> QED BY <1>1, <1>2, ClearanceStep, PTL DEF Spec

-----------------------------------------------------------------------------
\* Changes to Kubernetes objects.

\* The name the agent has for an edit, and the fields it sets.
EditOf(r) == mapFrontendActionType(Type(r))
Sets(r) == IF EditOf(r) = "k8s_rollout_undo" THEN {"image", "restartedAt"} ELSE {EditedField[EditOf(r)]}

HasFields(x, kind) == x = [f \in FieldsOf(kind) |-> x[f]]

Objects ==
  /\ DOMAIN objects = NumberedKinds
  /\ lastPut = [k \in NumberedKinds |-> lastPut[k]]
  /\ \A k \in NumberedKinds :
       /\ DOMAIN objects[k] = {"version", "fields"}
       /\ objects[k].version \in Nat /\ HasFields(objects[k].fields, k)

Editing(r) == At(r, "read") \/ At(r, "list") \/ At(r, "put") => EditOf(r) \in Edits

\* What a request has read of its object is the object of an earlier version, or
\* of this one: then the two agree wherever the request sets nothing itself.
ReadSoFar(r) ==
  At(r, "list") \/ At(r, "put") =>
    /\ At(r, "list") => EditOf(r) = "k8s_rollout_undo"
    /\ DOMAIN req[r].seen = {"version", "fields", "revision"}
    /\ req[r].seen.version \in Nat /\ req[r].seen.version <= objects[Kind(r)].version
    /\ HasFields(req[r].seen.fields, Kind(r))
    /\ req[r].seen.version = objects[Kind(r)].version =>
         \A f \in FieldsOf(Kind(r)) \ Sets(r) : req[r].seen.fields[f] = objects[Kind(r)].fields[f]

Versions == Coursed /\ Objects /\ ChangesStick /\ \A r \in Requests : Editing(r) /\ ReadSoFar(r)

\* An object that changes gets a greater version.
Grew ==
  \A k \in NumberedKinds :
    \/ objects'[k] = objects[k]
    \/ objects'[k].version \in Nat /\ objects'[k].version > objects[k].version

LEMMA KindOfEdit ==
  ASSUME NEW r, EditOf(r) \in Edits
  PROVE  Kind(r) \in NumberedKinds
BY DEF Kind, EditOf, NumberedKinds, EditedKind

LEMMA VersionsInit == Init => Versions
<1> SUFFICES ASSUME Init PROVE Versions
  OBVIOUS
<1>1. Coursed /\ \A r \in Requests : Editing(r) /\ ReadSoFar(r)
  BY CoursedInit DEF Editing, ReadSoFar, At
<1>2. /\ objects = [k \in NumberedKinds |->
           [version |-> 0, fields |-> [f \in FieldsOf(k) |-> IF f = "restartedAt" THEN 2 ELSE None]]]
      /\ lastPut = [k \in NumberedKinds |-> objects[k].fields]
  BY DEF Init
<1>3. Objects
  BY <1>2 DEF Objects, HasFields
<1>4. ChangesStick
  BY <1>2 DEF ChangesStick
<1> QED BY <1>1, <1>3, <1>4 DEF Versions

\* A request that is neither listing nor about to write has nothing to know.
LEMMA NothingRead ==
  ASSUME NEW q \in Requests, req'[q].stage # "agent" \/ req'[q].step \notin {"list", "put"}
  PROVE  ReadSoFar(q)'
BY DEF ReadSoFar, At, Stage

\* A request that a step leaves alone still knows what it has read.
LEMMA EditKept ==
  ASSUME Versions, Grew, NEW q \in Requests, req'[q] = req[q]
  PROVE  Editing(q)' /\ ReadSoFar(q)'
<1>1. Editing(q)'
  BY DEF Versions, Editing, At, Stage, EditOf, Type
<1>2. ASSUME At(q, "list") \/ At(q, "put")
      PROVE  ReadSoFar(q)'
  <2>1. EditOf(q) \in Edits /\ ReadSoFar(q)
    BY <1>2 DEF Versions, Editing
  <2>2. Kind(q) \in NumberedKinds
    BY <2>1, KindOfEdit
  <2>3. /\ DOMAIN req[q].seen = {"version", "fields", "revision"}
        /\ req[q].seen.version \in Nat /\ req[q].seen.version <= objects[Kind(q)].version
        /\ HasFields(req[q].seen.fields, Kind(q))
        /\ At(q, "list") => EditOf(q) = "k8s_rollout_undo"
    BY <1>2, <2>1 DEF ReadSoFar
  <2>4. Kind(q)' = Kind(q) /\ Sets(q)' = Sets(q) /\ EditOf(q)' = EditOf(q)
    BY DEF Kind, Sets, EditOf, Type
  <2>5. objects[Kind(q)].version \in Nat
    BY <2>2 DEF Versions, Objects
  <2>6. CASE objects'[Kind(q)] = objects[Kind(q)]
    <3> HIDE DEF Kind, Sets
    <3> QED BY <2>1, <2>4, <2>6 DEF ReadSoFar, At, Stage
  <2>7. CASE /\ objects'[Kind(q)].version \in Nat
             /\ objects'[Kind(q)].version > objects[Kind(q)].version
    <3>1. /\ req'[q].seen.version <= objects'[Kind(q)].version
          /\ req'[q].seen.version # objects'[Kind(q)].version
      BY <2>3, <2>5, <2>7
    <3> QED BY <2>3, <2>4, <3>1 DEF ReadSoFar, At, Stage
  <2> QED BY <2>2, <2>6, <2>7 DEF Grew
<1>3. CASE ~(At(q, "list") \/ At(q, "put"))
  <2>1. req'[q].stage # "agent" \/ req'[q].step \notin {"list", "put"}
    BY <1>3 DEF At, Stage
  <2> QED BY <1>1, <2>1, NothingRead
<1> QED BY <1>1, <1>2, <1>3

LEMMA EditOver ==
  ASSUME NEW q \in Requests, req'[q].stage # "agent" \/ req'[q].step \notin {"read", "list", "put"}
  PROVE  Editing(q)' /\ ReadSoFar(q)'
BY DEF Editing, ReadSoFar, At, Stage

\* Only Put changes fields; the controller's Bump changes a version.
LEMMA ObjectsStay ==
  ASSUME Versions, UNCHANGED <<objects, lastPut>>
  PROVE  Objects' /\ ChangesStick' /\ Grew
BY DEF Versions, Objects, ChangesStick, Grew, HasFields

LEMMA BystandVersions ==
  ASSUME Versions, Bystand, Grew, Objects', ChangesStick'
  PROVE  Versions'
<1>1. ASSUME NEW q \in Requests
      PROVE  Editing(q)' /\ ReadSoFar(q)'
  <2>1. CASE req'[q] = req[q]
    BY <2>1, EditKept
  <2>2. CASE req'[q].stage # "agent" \/ req'[q].step \notin {"read", "list", "put"}
    BY <2>2, EditOver
  <2> QED BY <2>1, <2>2 DEF Bystand, Aside, Watched
<1> QED BY <1>1 DEF Versions, Bystand

LEMMA MovesVersions ==
  ASSUME Versions, NEW r \in Requests, NEW s, Moves(r, s), Editing(r)', ReadSoFar(r)', Grew, Objects',
         ChangesStick'
  PROVE  Versions'
<1>1. ASSUME NEW q \in Requests \ {r}
      PROVE  Editing(q)' /\ ReadSoFar(q)'
  BY EditKept DEF Moves
<1> QED BY <1>1 DEF Versions, Moves

LEMMA DispatchVersions ==
  ASSUME Versions, NEW r \in Requests, Dispatch(r)
  PROVE  Versions'
<1> DEFINE op == Operation(req[r].kind, Type(r))
<1>1. UNCHANGED <<objects, lastPut>>
  BY DEF Dispatch, kube
<1>2. Objects' /\ ChangesStick' /\ Grew /\ Coursed
  BY <1>1, ObjectsStay DEF Versions
<1>3. CASE Answer(r, FALSE)
  BY <1>2, <1>3, DispatchMoves, AnswerBystands, BystandVersions
<1>4. CASE op # "refused" /\ Moves(r, op)
  <2>1. op \notin {"list", "put"} /\ (op = "read" => EditOf(r) \in Edits)
    BY DEF Operation, EditOf
  <2> HIDE DEF op
  <2>2. req'[r].step = op /\ EditOf(r)' = EditOf(r)
    BY <1>4 DEF Moves, EditOf, Type
  <2>3. Editing(r)' /\ ReadSoFar(r)'
    BY <2>1, <2>2 DEF Editing, ReadSoFar, At
  <2> QED BY <1>2, <1>4, <2>3, MovesVersions
<1> QED BY <1>2, <1>3, <1>4, DispatchMoves

LEMMA ReadVersions ==
  ASSUME Versions, NEW r \in Requests, Read(r)
  PROVE  Versions'
<1>1. UNCHANGED <<objects, lastPut>>
  BY DEF Read, kube
<1>2. Objects' /\ ChangesStick' /\ Grew /\ Coursed
  BY <1>1, ObjectsStay DEF Versions
<1>3. Stage(r) = "agent" /\ EditOf(r) \in Edits
  BY DEF Read, At, Versions, Editing
<1>4. Kind(r) \in NumberedKinds
  BY <1>3, KindOfEdit
<1> DEFINE seen == [version |-> objects[Kind(r)].version, fields |-> objects[Kind(r)].fields,
                    revision |-> rollout.revision]
<1>5. PICK s \in {"list", "put"} : /\ GotoWith(r, s, seen)
                                   /\ s = "list" => Type(r) = "k8s_rollout_undo"
  BY DEF Read
<1>6. Moves(r, s) /\ req'[r].seen = seen
  BY <1>2, <1>3, <1>5, SeenMoves
<1>7. Kind(r)' = Kind(r) /\ Sets(r)' = Sets(r) /\ EditOf(r)' = EditOf(r)
  BY <1>6 DEF Moves, Kind, Sets, EditOf, Type
<1>8. s = "list" => EditOf(r) = "k8s_rollout_undo"
  BY <1>5 DEF EditOf, mapFrontendActionType
<1>9. /\ DOMAIN seen = {"version", "fields", "revision"}
      /\ seen.version = objects[Kind(r)].version /\ seen.fields = objects[Kind(r)].fields
      /\ seen.version \in Nat /\ HasFields(seen.fields, Kind(r))
  BY <1>4 DEF Versions, Objects
<1>10. ReadSoFar(r)'
  <2>1. req'[r].step = s /\ objects' = objects
    BY <1>1, <1>6 DEF Moves
  <2> HIDE DEF Kind, Sets, EditOf, seen
  <2> QED BY <1>6, <1>7, <1>8, <1>9, <2>1 DEF ReadSoFar, At
<1>11. Editing(r)'
  BY <1>3, <1>7 DEF Editing
<1> QED BY <1>2, <1>6, <1>10, <1>11, MovesVersions

LEMMA ListVersions ==
  ASSUME Versions, NEW r \in Requests, List(r)
  PROVE  Versions'
<1>1. UNCHANGED <<objects, lastPut>>
  BY DEF List, kube
<1>2. Objects' /\ ChangesStick' /\ Grew /\ Coursed
  BY <1>1, ObjectsStay DEF Versions
<1>3. /\ Stage(r) = "agent" /\ At(r, "list") /\ EditOf(r) \in Edits /\ ReadSoFar(r)
  BY DEF List, At, Versions, Editing
<1>4. CASE Answer(r, FALSE)
  BY <1>2, <1>3, <1>4, AnswerBystands, BystandVersions
<1>5. ASSUME NEW image, NEW restartedAt,
             GotoWith(r, "put", [req[r].seen EXCEPT !.fields.image = image,
                                                    !.fields.restartedAt = restartedAt])
      PROVE  Versions'
  <2> DEFINE fields == [req[r].seen.fields EXCEPT !.image = image, !.restartedAt = restartedAt]
  <2>1. /\ DOMAIN req[r].seen = {"version", "fields", "revision"}
        /\ req[r].seen.version \in Nat /\ req[r].seen.version <= objects[Kind(r)].version
        /\ HasFields(req[r].seen.fields, Kind(r))
        /\ EditOf(r) = "k8s_rollout_undo"
        /\ req[r].seen.version = objects[Kind(r)].version =>
             \A f \in FieldsOf(Kind(r)) \ Sets(r) : req[r].seen.fields[f] = objects[Kind(r)].fields[f]
    BY <1>3 DEF ReadSoFar
  <2>2. /\ Moves(r, "put")
        /\ req'[r].seen = [req[r].seen EXCEPT !.fields.image = image, !.fields.restartedAt = restartedAt]
    BY <1>2, <1>3, <1>5, SeenMoves
  <2>3. /\ DOMAIN req'[r].seen = {"version", "fields", "revision"}
        /\ req'[r].seen.version = req[r].seen.version
        /\ req'[r].seen.fields = fields
    BY <2>1, <2>2
  <2>4. DOMAIN req[r].seen.fields = FieldsOf(Kind(r))
    BY <2>1 DEF HasFields
  <2>5. HasFields(fields, Kind(r))
    BY <2>4 DEF HasFields
  <2>6. \A f \in FieldsOf(Kind(r)) \ {"image", "restartedAt"} : fields[f] = req[r].seen.fields[f]
    BY <2>4
  <2>7. Sets(r) = {"image", "restartedAt"}
    BY <2>1 DEF Sets
  <2>8. Kind(r)' = Kind(r) /\ Sets(r)' = Sets(r) /\ EditOf(r)' = EditOf(r)
    BY <2>2 DEF Moves, Kind, Sets, EditOf, Type
  <2>9. req'[r].step = "put" /\ objects' = objects
    BY <1>1, <2>2 DEF Moves
  <2> HIDE DEF fields
  <2>10. ReadSoFar(r)'
    BY <2>1, <2>3, <2>5, <2>6, <2>7, <2>8, <2>9 DEF ReadSoFar, At
  <2>11. Editing(r)'
    BY <1>3, <2>8 DEF Editing
  <2> QED BY <1>2, <2>2, <2>10, <2>11, MovesVersions
<1> QED BY <1>4, <1>5 DEF List

\* The heart of the matter: the API takes a write only when the version read is
\* still there, so what the write does not set is what was there.
LEMMA PutVersions ==
  ASSUME Versions, NEW r \in Requests, Put(r)
  PROVE  Versions'
<1>1. Stage(r) = "agent" /\ At(r, "put") /\ EditOf(r) \in Edits /\ ReadSoFar(r) /\ Coursed
  BY DEF Put, At, Versions, Editing
<1>2. Kind(r) \in NumberedKinds
  BY <1>1, KindOfEdit
<1>3. CASE Answer(r, FALSE) /\ UNCHANGED kube
  <2>1. Objects' /\ ChangesStick' /\ Grew
    BY <1>3, ObjectsStay DEF kube
  <2> QED BY <1>1, <1>3, <2>1, AnswerBystands, BystandVersions
<1>4. CASE objects[Kind(r)].version = req[r].seen.version /\ Writes(r)
  <2> DEFINE k == Kind(r)
  <2> HIDE DEF k
  <2>0. k \in NumberedKinds /\ k = Kind(r)
    BY <1>2 DEF k
  <2>1. /\ HasFields(req[r].seen.fields, k)
        /\ \A f \in FieldsOf(k) \ Sets(r) : req[r].seen.fields[f] = objects[k].fields[f]
    BY <1>1, <1>4, <2>0 DEF ReadSoFar
  <2>2. /\ objects' = [objects EXCEPT ![k] = [version |-> @.version + 1, fields |-> Changed(r)]]
        /\ lastPut' = [lastPut EXCEPT ![k] = Written(r)]
    BY <1>4, <2>0 DEF Writes
  <2>3. /\ DOMAIN objects = NumberedKinds
        /\ DOMAIN objects[k] = {"version", "fields"} /\ objects[k].version \in Nat
        /\ objects[k].fields = lastPut[k]
    BY <2>0 DEF Versions, Objects, ChangesStick
  <2>4. HasFields(Changed(r), k) /\ \A f \in FieldsOf(k) \ Sets(r) : Changed(r)[f] = req[r].seen.fields[f]
    <3>1. CASE EditOf(r) = "k8s_rollout_undo"
      <4>1. Changed(r) = req[r].seen.fields
        BY <3>1 DEF Changed, EditOf
      <4> QED BY <2>1, <4>1
    <3>2. CASE EditOf(r) # "k8s_rollout_undo"
      <4>1. Changed(r) = [req[r].seen.fields EXCEPT ![EditedField[EditOf(r)]] = r]
        BY <3>2 DEF Changed, EditOf
      <4>2. DOMAIN req[r].seen.fields = FieldsOf(k)
        BY <2>1 DEF HasFields
      <4>3. Sets(r) = {EditedField[EditOf(r)]}
        BY <3>2 DEF Sets
      <4> QED BY <4>1, <4>2, <4>3 DEF HasFields
    <3> QED BY <3>1, <3>2
  <2>5. Written(r) = Changed(r)
    <3>1. Written(r) = [f \in FieldsOf(k) |-> IF f \in Sets(r) THEN Changed(r)[f] ELSE lastPut[k][f]]
      BY <2>0 DEF Written, Sets, EditOf
    <3>2. \A f \in FieldsOf(k) \ Sets(r) : lastPut[k][f] = Changed(r)[f]
      BY <2>1, <2>3, <2>4
    <3>3. Written(r) = [f \in FieldsOf(k) |-> Changed(r)[f]]
      BY <3>1, <3>2
    <3> QED BY <2>4, <3>3 DEF HasFields
  <2> DEFINE c == Changed(r)
             w == Written(r)
  <2>6. HasFields(c, k) /\ w = c
    BY <2>4, <2>5
  <2>7. /\ objects' = [objects EXCEPT ![k] = [version |-> @.version + 1, fields |-> c]]
        /\ lastPut' = [lastPut EXCEPT ![k] = w]
    BY <2>2
  <2> HIDE DEF c, w
  <2>8. Grew
    <3>1. objects'[k].version = objects[k].version + 1
      BY <2>0, <2>3, <2>7
    <3>2. \A j \in NumberedKinds \ {k} : objects'[j] = objects[j]
      BY <2>3, <2>7
    <3> QED BY <2>3, <3>1, <3>2 DEF Grew
  <2>9. Objects'
    <3>1. DOMAIN objects' = NumberedKinds
      BY <2>3, <2>7
    <3>2. lastPut' = [j \in NumberedKinds |-> lastPut'[j]]
      BY <2>7 DEF Versions, Objects
    <3>3. objects'[k] = [version |-> objects[k].version + 1, fields |-> c]
      BY <2>0, <2>3, <2>7
    <3>4. \A j \in NumberedKinds \ {k} : objects'[j] = objects[j]
      BY <2>3, <2>7
    <3>5. ASSUME NEW j \in NumberedKinds
          PROVE  /\ DOMAIN objects'[j] = {"version", "fields"}
                 /\ objects'[j].version \in Nat /\ HasFields(objects'[j].fields, j)
      BY <2>3, <2>6, <3>3, <3>4 DEF Versions, Objects
    <3> QED BY <3>1, <3>2, <3>5 DEF Objects, HasFields
  <2>10. ChangesStick'
    <3>1. objects'[k].fields = c /\ lastPut'[k] = w
      BY <2>0, <2>3, <2>7 DEF Versions, Objects
    <3>2. \A j \in NumberedKinds \ {k} : objects'[j] = objects[j] /\ lastPut'[j] = lastPut[j]
      BY <2>3, <2>7 DEF Versions, Objects
    <3> QED BY <2>6, <3>1, <3>2 DEF Versions, ChangesStick
  <2>11. CASE Answer(r, TRUE)
    BY <1>1, <2>8, <2>9, <2>10, <2>11, AnswerBystands, BystandVersions
  <2>12. ASSUME NEW s \in {"wait", "batch"}, Moves(r, s)
         PROVE  Versions'
    <3>1. Editing(r)' /\ ReadSoFar(r)'
      BY <2>12, EditOver DEF Moves
    <3> QED BY <2>8, <2>9, <2>10, <2>12, <3>1, MovesVersions
  <2> QED BY <1>1, <1>4, <2>11, <2>12, WritesMoves
<1> QED BY <1>3, <1>4 DEF Put

\* A forced apply sets the same fields of the object and of the record of writes,
\* whichever version it meets.
SetsTo(k, fs, r, fields) == [f \in FieldsOf(k) |-> IF f \in fs THEN r ELSE fields[f]]

LEMMA AppliesVersions ==
  ASSUME Versions, NEW r \in Requests, Applies(r)
  PROVE  Versions'
<1>0. Coursed
  BY DEF Versions
<1>1. PICK k \in NumberedKinds : \E fs \in SUBSET FieldsOf(k) :
        /\ objects' = [objects EXCEPT ![k] = [version |-> @.version + 1,
                                              fields |-> SetsTo(k, fs, r, @.fields)]]
        /\ lastPut' = [lastPut EXCEPT ![k] = SetsTo(k, fs, r, @)]
  BY DEF Applies, SetsTo
<1>2. PICK fs \in SUBSET FieldsOf(k) :
        /\ objects' = [objects EXCEPT ![k] = [version |-> @.version + 1,
                                              fields |-> SetsTo(k, fs, r, @.fields)]]
        /\ lastPut' = [lastPut EXCEPT ![k] = SetsTo(k, fs, r, @)]
  BY <1>1
<1> DEFINE new == SetsTo(k, fs, r, objects[k].fields)
<1>3. /\ DOMAIN objects = NumberedKinds /\ DOMAIN lastPut = NumberedKinds
      /\ objects[k].version \in Nat /\ lastPut[k] = objects[k].fields
  BY DEF Versions, Objects, ChangesStick
<1>4. HasFields(new, k)
  BY DEF HasFields, SetsTo
<1> HIDE DEF new
<1>5. /\ objects'[k] = [version |-> objects[k].version + 1, fields |-> new] /\ lastPut'[k] = new
      /\ \A j \in NumberedKinds \ {k} : objects'[j] = objects[j] /\ lastPut'[j] = lastPut[j]
      /\ DOMAIN objects' = NumberedKinds /\ lastPut' = [j \in NumberedKinds |-> lastPut'[j]]
  BY <1>2, <1>3 DEF new
<1>6. Grew
  BY <1>3, <1>5 DEF Grew
<1>7. Objects' /\ ChangesStick'
  BY <1>3, <1>4, <1>5 DEF Versions, Objects, HasFields, ChangesStick
<1> QED BY <1>0, <1>6, <1>7, PlainBystands, BystandVersions

LEMMA ControllerVersions ==
  ASSUME Versions, Controller
  PROVE  Versions'
<1>1. req' = req /\ lastPut' = lastPut /\ Bump
  <2>1. CASE ControllerObserves
    BY <2>1 DEF ControllerObserves
  <2>2. CASE ControllerFinishes
    BY <2>2 DEF ControllerFinishes
  <2> QED BY <2>1, <2>2 DEF Controller
<1>2. objects' = [objects EXCEPT !["deployment"].version = @ + 1]
  BY <1>1 DEF Bump
<1>3. ASSUME NEW k \in NumberedKinds
      PROVE  /\ DOMAIN objects'[k] = {"version", "fields"} /\ objects'[k].version \in Nat
             /\ objects'[k].fields = objects[k].fields
             /\ objects'[k] = objects[k] \/ objects'[k].version > objects[k].version
  <2>1. DOMAIN objects = NumberedKinds /\ DOMAIN objects[k] = {"version", "fields"} /\ objects[k].version \in Nat
    BY DEF Versions, Objects
  <2>2. CASE k = "deployment"
    <3>1. objects'[k] = [objects[k] EXCEPT !.version = @ + 1]
      BY <1>2, <2>1, <2>2
    <3> QED BY <2>1, <3>1
  <2>3. CASE k # "deployment"
    <3>1. objects'[k] = objects[k]
      BY <1>2, <2>1, <2>3
    <3> QED BY <2>1, <3>1
  <2> QED BY <2>2, <2>3
<1>4. Grew
  BY <1>3 DEF Grew
<1>5. Objects'
  <2>1. DOMAIN objects' = NumberedKinds
    BY <1>2 DEF Versions, Objects
  <2> QED BY <1>1, <1>3, <2>1 DEF Versions, Objects, HasFields
<1>6. ChangesStick'
  BY <1>1, <1>3 DEF Versions, ChangesStick
<1> QED BY <1>1, <1>4, <1>5, <1>6, StutterBystands, BystandVersions DEF Versions

LEMMA VersionsStep == Versions /\ [Next]_vars => Versions'
<1> SUFFICES ASSUME Versions, [Next]_vars PROVE Versions'
  OBVIOUS
<1>0. Coursed
  BY DEF Versions
<1>1. ASSUME Bystand, UNCHANGED <<objects, lastPut>>
      PROVE  Versions'
  BY <1>1, ObjectsStay, BystandVersions
<1>2. ASSUME NEW r \in Requests, Send(r) \/ Relaying(r) \/ TimesOut(r)
      PROVE  Versions'
  <2>1. UNCHANGED <<objects, lastPut>>
    BY <1>2 DEF Send, Relaying, HubRejects, HubForwards, Deliver, TimesOut, kube
  <2> QED BY <1>0, <1>1, <1>2, <2>1, RelayingBystands
<1>3. ASSUME NEW r \in Requests,
             \/ SwitchReturns(r) \/ CallReturns(r) \/ BatchItem(r) \/ BatchEnds(r) \/ LogBatch(r)
             \/ ForwardStarts(r) \/ ForwardStops(r)
      PROVE  Versions'
  <2>1. UNCHANGED <<objects, lastPut>>
    BY <1>3 DEF SwitchReturns, CallReturns, BatchItem, BatchEnds, LogBatch, ForwardStarts, ForwardStops, kube
  <2> QED BY <1>0, <1>1, <1>3, <2>1, PlainBystands
<1>4. ASSUME NEW r \in Requests, UpdateContainer(r)
      PROVE  Versions'
  <2>1. UNCHANGED kube
    <3>1. ASSUME NEW refused, NEW effect, NEW next, NEW onError, DockerCall(r, refused, effect, next, onError)
          PROVE  UNCHANGED kube
      BY <3>1 DEF DockerCall
    <3>2. CASE Inspect(r) \/ Pull(r) \/ UpdateEnds(r)
      BY <3>2 DEF Inspect, Pull, UpdateEnds
    <3>3. CASE Stop(r) \/ Rename(r) \/ Create(r) \/ Start(r)
      BY <3>1, <3>3 DEF Stop, Rename, Create, Start
    <3>4. CASE RemoveOld(r) \/ RemoveNew(r) \/ RenameBack(r) \/ StartBack(r)
      BY <3>1, <3>4 DEF RemoveOld, RemoveNew, RenameBack, StartBack
    <3> QED BY <1>4, <3>2, <3>3, <3>4 DEF UpdateContainer
  <2> QED BY <1>0, <1>1, <1>4, <2>1, UpdateBystands DEF kube
<1>5. ASSUME NEW r \in Requests,
             \/ CallFails(r) \/ CallHangs(r) \/ RolloutDone(r) \/ RolloutTimesOut(r)
             \/ Install(r) \/ InstallFails(r) \/ DownloadBreaks(r)
      PROVE  Versions'
  <2>1. UNCHANGED <<objects, lastPut>>
    BY <1>5 DEF CallFails, CallHangs, RolloutDone, RolloutTimesOut, Install, InstallFails, DownloadBreaks,
                RemovesAndFails, kube
  <2> QED BY <1>0, <1>1, <1>5, <2>1, EndingBystands, HangBystands
<1>6. ASSUME NEW r \in Requests, Sums(r) \/ Open(r) \/ Download(r)
      PROVE  Versions'
  <2>1. UNCHANGED <<objects, lastPut>>
    BY <1>6 DEF Sums, Open, Download, kube
  <2>2. Moves(r, "open") \/ Moves(r, "download")
    BY <1>0, <1>6, UpdateMoves
  <2>3. Editing(r)' /\ ReadSoFar(r)'
    BY <2>2, EditOver DEF Moves
  <2> QED BY <2>1, <2>2, <2>3, ObjectsStay, MovesVersions
<1>7. CASE AgentRestarts
  <2>1. UNCHANGED <<objects, lastPut>>
    BY <1>7 DEF AgentRestarts, kube
  <2> QED BY <1>0, <1>1, <1>7, <2>1, RestartBystands
<1>8. CASE UNCHANGED vars
  BY <1>0, <1>1, <1>8, StutterBystands DEF vars, kube
<1> QED BY <1>2, <1>3, <1>4, <1>5, <1>6, <1>7, <1>8, DispatchVersions, ReadVersions, ListVersions,
           PutVersions, AppliesVersions, ControllerVersions DEF Next, Handle, Edit, UpdateAgent

\* pkg/actions/kubernetes*.go: a change to a Kubernetes object that was accepted is
\* there until the next one of that field, although every edit reads the object
\* and writes it back whole, and a manifest is applied by force: no edit takes back
\* what another set meanwhile.
THEOREM AcceptedChangesStick == Spec => []ChangesStick
<1>1. Versions => ChangesStick
  BY DEF Versions
<1> QED BY <1>1, VersionsInit, VersionsStep, PTL DEF Spec

-----------------------------------------------------------------------------
\* Updates of the agent.

UpdateSteps == {"sums", "open", "download"}

Updating(r) ==
  Stage(r) = "agent" /\ req[r].step \in UpdateSteps =>
    Type(r) = "update_agent" /\ (req[r].step # "download" => req[r].left = 0)

Filed ==
  /\ DOMAIN files = {"exe", "tmp", "body"}
  /\ files.exe \in Requests \cup {None} /\ files.tmp \in Requests \cup {None}
  /\ DOMAIN files.body = Requests \cup {None}
  /\ \A f \in Requests \cup {None} : DOMAIN files.body[f] = 1..Blocks

\* A file has the name of a request that has opened it: no update that is still
\* to open one empties the binary under its own name.
Opened(f) == Stage(f) \notin {"unsent", "hub"} /\ (Stage(f) = "agent" => req[f].step = "download")
Named == \A f \in Requests : f \in {files.exe, files.tmp} => Opened(f)
Apart == files.tmp = files.exe => files.tmp = None

\* When no two updates overlap, of the agent or of containers, at most one of
\* each kind operates.
Alone ==
  ~crossed =>
    \A r, q \in Requests : r # q /\ Operating(r) /\ Operating(q) /\ Replaces(r) => Type(q) # Type(r)

\* What an update has downloaded is in the temporary file.
Loading(r) ==
  At(r, "download") =>
    /\ files.tmp # None /\ req[r].target = files.tmp /\ req[r].left \in 0..Blocks
    /\ \A n \in 1..req[r].left : files.body[files.tmp][n] = req[r].seen

Verified ==
  /\ Coursed /\ Filed /\ Named /\ Apart /\ Alone
  /\ \A r \in Requests : Updating(r)
  /\ ~crossed => (\A r \in Requests : Loading(r)) /\ \A n \in 1..Blocks : files.body[files.exe][n] = "good"

\* What a step that is not of an update leaves of one.
Beside(q) ==
  \/ req'[q] = req[q]
  \/ req'[q].stage \in {"answered", "cut"}
  \/ /\ ~(Stage(q) = "agent" /\ req[q].step \in UpdateSteps)
     /\ ~(req'[q].stage = "agent" /\ req'[q].step \in UpdateSteps)

LEMMA VerifiedInit == Init => Verified
<1> SUFFICES ASSUME Init PROVE Verified
  OBVIOUS
<1>1. Coursed /\ \A r \in Requests : Stage(r) = "unsent"
  BY CoursedInit
<1>2. files = [exe |-> None, tmp |-> None,
               body |-> [i \in Requests \cup {None} |-> [n \in 1..Blocks |-> "good"]]]
  BY DEF Init
<1>3. Filed /\ Named /\ Apart /\ \A n \in 1..Blocks : files.body[files.exe][n] = "good"
  BY <1>2, ActionsAssumption DEF Filed, Named, Apart
<1>4. Alone /\ \A r \in Requests : Updating(r) /\ Loading(r)
  BY <1>1 DEF Alone, Operating, Updating, Loading, At
<1> QED BY <1>1, <1>3, <1>4 DEF Verified

LEMMA OpenedStays ==
  ASSUME NEW f \in Requests, Opened(f), Onward(f), Beside(f)
  PROVE  Opened(f)'
BY DEF Opened, Onward, Beside, UpdateSteps, HubForwards, Stage

LEMMA UpdatingStays ==
  ASSUME NEW q \in Requests, Updating(q), Beside(q)
  PROVE  Updating(q)'
BY DEF Updating, Beside, Stage, Type

LEMMA AloneStays ==
  ASSUME Alone, crossed' = crossed, \A q \in Requests : Onward(q) /\ NoneBegins(q)
  PROVE  Alone'
<1> SUFFICES ASSUME ~crossed, NEW r \in Requests, NEW q \in Requests, r # q,
                    Operating(r)', Operating(q)', Replaces(r)'
             PROVE  Type(q)' # Type(r)'
  BY DEF Alone
<1>1. Operating(r) /\ Operating(q)
  BY DEF NoneBegins, Operating, Stage
<1>2. Type(r)' = Type(r) /\ Type(q)' = Type(q) /\ Replaces(r)
  BY DEF Onward, Type, Replaces
<1> QED BY <1>1, <1>2 DEF Alone

\* Steps that leave the files alone.
LEMMA BesideVerified ==
  ASSUME Verified, Coursed', UNCHANGED <<files, crossed>>,
         \A q \in Requests : Onward(q) /\ NoneBegins(q) /\ Beside(q)
  PROVE  Verified'
<1>1. Filed' /\ Apart'
  BY DEF Verified, Filed, Apart
<1>2. Named'
  BY OpenedStays DEF Verified, Named
<1>3. Alone' /\ \A q \in Requests : Updating(q)'
  BY AloneStays, UpdatingStays DEF Verified
<1>4. ASSUME NEW q \in Requests, Loading(q)
      PROVE  Loading(q)'
  BY <1>4 DEF Loading, At, Stage, Beside, UpdateSteps
<1> QED BY <1>1, <1>2, <1>3, <1>4 DEF Verified

LEMMA BystandVerified ==
  ASSUME Verified, Bystand, UNCHANGED <<files, crossed>>
  PROVE  Verified'
<1>1. \A q \in Requests : Onward(q) /\ NoneBegins(q) /\ Beside(q)
  BY DEF Bystand, Aside, Beside, Watched, UntimedSteps, UpdateSteps
<1> QED BY <1>1, BesideVerified DEF Bystand

\* A request that operates moves on: nothing else begins.
LEMMA MovesBegins ==
  ASSUME NEW r \in Requests, NEW s, Moves(r, s), Operating(r)
  PROVE  \A q \in Requests : Onward(q) /\ NoneBegins(q)
BY DEF Moves, Onward, NoneBegins, Operating, Stage

LEMMA EditVerified ==
  ASSUME Verified, NEW r \in Requests, Read(r) \/ List(r) \/ Put(r)
  PROVE  Verified'
<1>1. UNCHANGED <<files, crossed>>
  <2>1. CASE Read(r) \/ Put(r)
    BY <2>1 DEF Read, Put, host, docker
  <2>2. CASE List(r)
    BY <2>2 DEF List, host, docker
  <2> QED BY <2>1, <2>2
<1>2. /\ Operating(r) /\ Stage(r) = "agent" /\ req[r].step \in {"read", "list", "put"} /\ Coursed
  BY DEF Read, List, Put, At, Operating, Verified
<1>3. ASSUME NEW ok, Answer(r, ok)
      PROVE  Verified'
  BY <1>1, <1>2, <1>3, AnswerBystands, BystandVerified
<1>4. ASSUME NEW s \in {"list", "put", "wait", "batch"}, Moves(r, s)
      PROVE  Verified'
  <2>1. Beside(r)
    BY <1>2, <1>4 DEF Beside, Moves, UpdateSteps
  <2>2. \A q \in Requests : Beside(q)
    BY <1>4, <2>1 DEF Moves, Beside
  <2> QED BY <1>1, <1>2, <1>4, <2>2, MovesBegins, BesideVerified DEF Moves
<1>5. CASE Read(r)
  <2>1. \E s \in {"list", "put"} : \E seen : GotoWith(r, s, seen)
    BY <1>5 DEF Read
  <2> QED BY <1>2, <1>4, <2>1, SeenMoves
<1>6. CASE List(r)
  <2>1. ASSUME NEW seen, GotoWith(r, "put", seen)
        PROVE  Verified'
    BY <1>2, <1>4, <2>1, SeenMoves
  <2> QED BY <1>3, <1>6, <2>1 DEF List
<1>7. CASE Put(r)
  <2>1. At(r, "put") /\ (Writes(r) \/ Answer(r, FALSE))
    BY <1>7 DEF Put
  <2> QED BY <1>2, <1>3, <1>4, <2>1, WritesMoves
<1> QED BY <1>5, <1>6, <1>7

LEMMA DispatchVerified ==
  ASSUME Verified, NEW r \in Requests, Dispatch(r)
  PROVE  Verified'
<1> DEFINE op == Operation(req[r].kind, Type(r))
           crosses == Replaces(r) /\ \E q \in Requests \ {r} : Operating(q) /\ Type(q) = Type(r)
<1>1. files' = files /\ crossed' = (crossed \/ crosses)
  BY DEF Dispatch, host
<1>2. Stage(r) = "agent" /\ req[r].step = "arrived" /\ Coursed
  BY DispatchMoves DEF Verified
<1>3. /\ Coursed'
      /\ \A q \in Requests \ {r} : req'[q] = req[q]
      /\ req'[r].type = req[r].type
      /\ \/ req'[r].stage = "answered"
         \/ /\ req'[r].stage = "agent" /\ req'[r].step = op
            /\ op = "sums" => req'[r].left = 0
  <2>1. CASE Answer(r, FALSE)
    <3>1. Bystand
      BY <1>2, <2>1, AnswerBystands
    <3>2. /\ \A q \in Requests \ {r} : req'[q] = req[q]
          /\ req'[r] = [req[r] EXCEPT !.stage = "answered", !.verdict = "failed", !.to = Browsers]
      BY <1>2, <2>1 DEF Answer, Coursed, Shape
    <3>3. req'[r].stage = "answered"
      BY <1>2, <3>2 DEF Coursed, Shape, Fields
    <3> QED BY <3>1, <3>2, <3>3 DEF Bystand, Onward
  <2>2. CASE Moves(r, op) /\ (op = "sums" => req'[r].left = 0)
    BY <2>2 DEF Moves
  <2> QED BY <1>2, <2>1, <2>2, DispatchMoves
<1>4. op \notin {"open", "download"} /\ (op = "sums" => Type(r) = "update_agent")
  BY DEF Operation, mapFrontendActionType
<1> HIDE DEF op
<1>5. Filed' /\ Apart'
  BY <1>1 DEF Verified, Filed, Apart
<1>6. Named'
  <2>1. ASSUME NEW f \in Requests, f \in {files.exe, files.tmp}
        PROVE  Opened(f)'
    <3>1. Opened(f) /\ f # r
      BY <1>2, <2>1 DEF Verified, Named, Opened
    <3> QED BY <1>3, <3>1 DEF Opened, Stage
  <2> QED BY <1>1, <2>1 DEF Named
<1>7. ASSUME NEW q \in Requests
      PROVE  Updating(q)' /\ (Loading(q) => Loading(q)')
  <2>1. CASE q # r
    BY <1>1, <1>3, <2>1 DEF Verified, Updating, Loading, At, Stage, Type
  <2>2. CASE q = r
    BY <1>3, <1>4, <2>2 DEF Updating, UpdateSteps, Loading, At, Stage, Type
  <2> QED BY <2>1, <2>2
<1>8. Alone'
  <2> SUFFICES ASSUME ~crossed', NEW p \in Requests, NEW q \in Requests, p # q,
                      Operating(p)', Operating(q)', Replaces(p)'
               PROVE  Type(q)' # Type(p)'
    BY DEF Alone
  <2>1. Type(p)' = Type(p) /\ Type(q)' = Type(q) /\ Replaces(p)
    BY <1>3 DEF Type, Replaces
  <2>2. ~crossed /\ ~crosses
    BY <1>1
  <2>3. CASE p # r /\ q # r
    <3>1. Operating(p) /\ Operating(q)
      BY <1>3, <2>3 DEF Operating, Stage
    <3> QED BY <2>1, <2>2, <3>1 DEF Verified, Alone
  <2>4. CASE p = r
    <3>1. Operating(q) /\ Replaces(r)
      BY <1>3, <2>1, <2>4 DEF Operating, Stage, Replaces
    <3> QED BY <2>1, <2>2, <2>4, <3>1
  <2>5. CASE q = r
    <3>1. Operating(p)
      BY <1>3, <2>5 DEF Operating, Stage
    <3> QED BY <2>1, <2>2, <2>5, <3>1 DEF Replaces
  <2> QED BY <2>3, <2>4, <2>5
<1>9. ASSUME ~crossed'
      PROVE  (\A q \in Requests : Loading(q)') /\ \A n \in 1..Blocks : files'.body[files'.exe][n] = "good"
  <2>1. ~crossed
    BY <1>1, <1>9
  <2> QED BY <1>1, <1>7, <2>1 DEF Verified
<1>10. Coursed' /\ \A q \in Requests : Updating(q)'
  BY <1>3, <1>7
<1> QED BY <1>5, <1>6, <1>8, <1>9, <1>10 DEF Verified

\* The steps of an update itself.
LEMMA SumsVerified ==
  ASSUME Verified, NEW r \in Requests, Sums(r)
  PROVE  Verified'
<1>1. UNCHANGED <<files, crossed>> /\ Operating(r) /\ At(r, "sums")
  BY DEF Sums, At, Operating, host, docker
<1>2. Moves(r, "open") /\ req'[r].left = req[r].left
  BY UpdateMoves DEF Verified
<1>3. Coursed' /\ \A q \in Requests : Onward(q) /\ NoneBegins(q)
  BY <1>1, <1>2, MovesBegins DEF Moves
<1>4. Filed' /\ Apart' /\ Alone'
  BY <1>1, <1>3, AloneStays DEF Verified, Filed, Apart
<1>5. Named'
  <2>1. ASSUME NEW f \in Requests, f \in {files.exe, files.tmp}
        PROVE  Opened(f)'
    <3>1. Opened(f) /\ f # r
      BY <1>1, <2>1 DEF Verified, Named, Opened, At
    <3> QED BY <1>2, <3>1 DEF Opened, Moves, Stage
  <2> QED BY <1>1, <2>1 DEF Named
<1>6. ASSUME NEW q \in Requests
      PROVE  Updating(q)' /\ (Loading(q) => Loading(q)')
  <2>1. CASE q # r
    BY <1>1, <1>2, <2>1 DEF Verified, Moves, Updating, Loading, At, Stage, Type
  <2>2. CASE q = r
    BY <1>1, <1>2, <2>2 DEF Verified, Moves, Updating, UpdateSteps, Loading, At, Stage, Type
  <2> QED BY <2>1, <2>2
<1> QED BY <1>1, <1>3, <1>4, <1>5, <1>6 DEF Verified

\* Another update does not operate while one does.
LEMMA OnlyUpdate ==
  ASSUME Verified, ~crossed, NEW r \in Requests, At(r, "open") \/ At(r, "download"),
         NEW q \in Requests \ {r}
  PROVE  ~At(q, "download")
<1> SUFFICES ASSUME At(q, "download") PROVE FALSE
  OBVIOUS
<1>1. Operating(r) /\ Operating(q)
  BY DEF At, Operating
<1>2. Type(r) = "update_agent" /\ Type(q) = "update_agent"
  BY DEF Verified, Updating, UpdateSteps, At
<1> QED BY <1>1, <1>2 DEF Verified, Alone, Replaces

LEMMA OpenVerified ==
  ASSUME Verified, NEW r \in Requests, Open(r)
  PROVE  Verified'
<1> DEFINE file == IF files.tmp = None THEN r ELSE files.tmp
<1>1. /\ crossed' = crossed /\ Operating(r) /\ At(r, "open")
      /\ files' = [files EXCEPT !.tmp = file, !.body[file] = [n \in 1..Blocks |-> "none"]]
  BY DEF Open, At, Operating, docker
<1>2. /\ Moves(r, "download") /\ req'[r].left = req[r].left
      /\ req'[r].target = file /\ req'[r].seen \in {"good", "bad"}
  BY UpdateMoves DEF Verified
<1>3. Coursed' /\ \A q \in Requests : Onward(q) /\ NoneBegins(q)
  BY <1>1, <1>2, MovesBegins DEF Moves
<1>4. file \in Requests /\ file # None /\ file # files.exe
  <2>1. files.exe # r
    BY <1>1 DEF Verified, Named, Opened, At
  <2> QED BY <2>1, ActionsAssumption DEF Verified, Filed, Apart
<1>5. req[r].left = 0 /\ Type(r) = "update_agent"
  BY <1>1 DEF Verified, Updating, UpdateSteps, At
<1>6. \A f \in Requests : f = file => f = r \/ f = files.tmp
  OBVIOUS
<1> HIDE DEF file
<1>7. /\ DOMAIN files' = {"exe", "tmp", "body"} /\ files'.exe = files.exe /\ files'.tmp = file
      /\ files'.body = [files.body EXCEPT ![file] = [n \in 1..Blocks |-> "none"]]
  BY <1>1 DEF Verified, Filed
<1>8. Filed' /\ Apart'
  BY <1>4, <1>7 DEF Verified, Filed, Apart
<1>9. Named'
  <2>1. ASSUME NEW f \in Requests, f \in {files.exe, file}
        PROVE  Opened(f)'
    <3>1. CASE f = r
      BY <1>2, <3>1 DEF Moves, Opened, Stage
    <3>2. CASE f # r
      BY <1>2, <1>6, <2>1, <3>2 DEF Verified, Named, Moves, Opened, Stage
    <3> QED BY <3>1, <3>2
  <2> QED BY <1>7, <2>1 DEF Named
<1>10. Alone'
  BY <1>1, <1>3, AloneStays DEF Verified
<1>11. ASSUME NEW q \in Requests
       PROVE  Updating(q)'
  <2>1. CASE q # r
    BY <1>2, <2>1 DEF Verified, Moves, Updating, Stage, Type
  <2>2. CASE q = r
    BY <1>2, <1>5, <2>2 DEF Moves, Updating, Stage, Type
  <2> QED BY <2>1, <2>2
<1>12. ASSUME ~crossed, NEW q \in Requests
       PROVE  Loading(q)'
  <2>1. CASE q # r
    <3>1. ~At(q, "download")
      BY <1>1, <1>12, <2>1, OnlyUpdate
    <3> QED BY <1>2, <2>1, <3>1 DEF Loading, Moves, At, Stage
  <2>2. CASE q = r
    <3>1. req'[r].left = 0 /\ 0 \in 0..Blocks /\ 1..0 = {}
      BY <1>2, <1>5, ActionsAssumption
    <3> QED BY <1>2, <1>4, <1>7, <2>2, <3>1 DEF Loading
  <2> QED BY <2>1, <2>2
<1>13. files'.body[files'.exe] = files.body[files.exe]
  BY <1>4, <1>7 DEF Verified, Filed
<1> QED BY <1>1, <1>3, <1>8, <1>9, <1>10, <1>11, <1>12, <1>13 DEF Verified

LEMMA DownloadVerified ==
  ASSUME Verified, NEW r \in Requests, Download(r)
  PROVE  Verified'
<1> DEFINE target == req[r].target
           next == req[r].left + 1
<1>1. /\ crossed' = crossed /\ Operating(r) /\ At(r, "download") /\ req[r].left < Blocks
      /\ files' = [files EXCEPT !.body[target][next] = req[r].seen]
  BY DEF Download, At, Operating, docker
<1>2. /\ Moves(r, "download") /\ req'[r].left = next
      /\ req'[r].target = target /\ req'[r].seen = req[r].seen
  BY UpdateMoves DEF Verified
<1>3. Coursed' /\ \A q \in Requests : Onward(q) /\ NoneBegins(q)
  BY <1>1, <1>2, MovesBegins DEF Moves
<1>4. ~crossed => /\ target = files.tmp /\ target # None /\ target # files.exe
                  /\ req[r].left \in Nat /\ next \in 1..Blocks
                  /\ \A n \in 1..req[r].left : files.body[target][n] = req[r].seen
  BY <1>1, ActionsAssumption DEF Verified, Loading, Apart
<1>5. Type(r) = "update_agent"
  BY <1>1 DEF Verified, Updating, UpdateSteps, At
<1> HIDE DEF target, next
<1>6. /\ DOMAIN files' = {"exe", "tmp", "body"} /\ files'.exe = files.exe /\ files'.tmp = files.tmp
      /\ files'.body = [files.body EXCEPT ![target] = [files.body[target] EXCEPT ![next] = req[r].seen]]
  BY <1>1 DEF Verified, Filed
<1>7. Filed' /\ Apart'
  <2>1. DOMAIN files'.body = Requests \cup {None}
    BY <1>6 DEF Verified, Filed
  <2>2. ASSUME NEW f \in Requests \cup {None}
        PROVE  DOMAIN files'.body[f] = 1..Blocks
    BY <1>6 DEF Verified, Filed
  <2> QED BY <1>6, <2>1, <2>2 DEF Verified, Filed, Apart
<1>8. Named'
  <2>1. ASSUME NEW f \in Requests, f \in {files.exe, files.tmp}
        PROVE  Opened(f)'
    <3>1. CASE f = r
      BY <1>2, <3>1 DEF Moves, Opened, Stage
    <3>2. CASE f # r
      BY <1>2, <2>1, <3>2 DEF Verified, Named, Moves, Opened, Stage
    <3> QED BY <3>1, <3>2
  <2> QED BY <1>6, <2>1 DEF Named
<1>9. Alone'
  BY <1>1, <1>3, AloneStays DEF Verified
<1>10. ASSUME NEW q \in Requests
       PROVE  Updating(q)'
  <2>1. CASE q # r
    BY <1>2, <2>1 DEF Verified, Moves, Updating, Stage, Type
  <2>2. CASE q = r
    BY <1>2, <1>5, <2>2 DEF Moves, Updating, Stage, Type
  <2> QED BY <2>1, <2>2
<1>11. ASSUME ~crossed, NEW q \in Requests
       PROVE  Loading(q)'
  <2>1. CASE q # r
    <3>1. ~At(q, "download")
      BY <1>1, <1>11, <2>1, OnlyUpdate
    <3> QED BY <1>2, <2>1, <3>1 DEF Loading, Moves, At, Stage
  <2>2. CASE q = r
    <3>1. /\ target = files.tmp /\ target # None /\ next \in 1..Blocks /\ req[r].left \in Nat
          /\ next = req[r].left + 1
          /\ \A n \in 1..req[r].left : files.body[target][n] = req[r].seen
      BY <1>4, <1>11 DEF next
    <3>2. target \in DOMAIN files.body /\ DOMAIN files.body[target] = 1..Blocks
      BY <3>1 DEF Verified, Filed
    <3>3. files'.body[target] = [files.body[target] EXCEPT ![next] = req[r].seen]
      BY <1>6, <3>2
    <3>4. ASSUME NEW n \in 1..next
          PROVE  files'.body[target][n] = req[r].seen
      <4>1. CASE n = next
        BY <3>1, <3>2, <3>3, <4>1
      <4>2. CASE n # next
        <5>1. n \in 1..req[r].left /\ n \in 1..Blocks
          BY <3>1, <4>2, ActionsAssumption
        <5> QED BY <3>1, <3>2, <3>3, <4>2, <5>1
      <4> QED BY <4>1, <4>2
    <3>5. next \in 0..Blocks
      BY <3>1, ActionsAssumption
    <3> QED BY <1>2, <1>6, <2>2, <3>1, <3>4, <3>5 DEF Loading
  <2> QED BY <2>1, <2>2
<1>12. ~crossed => files'.body[files'.exe] = files.body[files.exe]
  BY <1>4, <1>6 DEF Verified, Filed
<1> QED BY <1>1, <1>3, <1>7, <1>8, <1>9, <1>10, <1>11, <1>12 DEF Verified

\* The steps that end an update: the file goes, or becomes the binary.
LEMMA EndingVerified ==
  ASSUME Verified, NEW r \in Requests, Install(r) \/ InstallFails(r) \/ DownloadBreaks(r)
  PROVE  Verified'
<1>1. crossed' = crossed /\ At(r, "download")
  BY DEF Install, InstallFails, DownloadBreaks, RemovesAndFails, docker
<1>2. Bystand
  BY EndingBystands DEF Verified
<1>3. Coursed' /\ \A q \in Requests : Onward(q) /\ NoneBegins(q) /\ Beside(q)
  BY <1>2 DEF Bystand, Aside, Beside, Watched, UntimedSteps, UpdateSteps
<1>4. Alone' /\ \A q \in Requests : Updating(q)'
  BY <1>1, <1>3, AloneStays, UpdatingStays DEF Verified
<1>5. req'[r].stage = "answered"
  <2>1. \E ok \in BOOLEAN : Answer(r, ok)
    BY DEF Install, InstallFails, DownloadBreaks, RemovesAndFails
  <2> QED BY <2>1 DEF Answer, Verified, Coursed, Shape, Fields
<1>6. ASSUME ~crossed, NEW q \in Requests
      PROVE  Loading(q)'
  <2>1. CASE q = r
    BY <1>5, <2>1 DEF Loading, At, Stage
  <2>2. CASE q # r
    <3>1. ~At(q, "download")
      BY <1>1, <1>6, <2>2, OnlyUpdate
    <3>2. req'[q].stage # "agent" \/ req'[q].step # "download"
      BY <1>3, <3>1 DEF Beside, UpdateSteps, At, Stage
    <3> QED BY <3>2 DEF Loading, At, Stage
  <2> QED BY <2>1, <2>2
<1>7. ASSUME files' = [files EXCEPT !.tmp = None]
      PROVE  Verified'
  <2>1. /\ DOMAIN files' = {"exe", "tmp", "body"} /\ files'.tmp = None
        /\ files'.exe = files.exe /\ files'.body = files.body
    BY <1>7 DEF Verified, Filed
  <2>2. Filed' /\ Apart'
    BY <2>1 DEF Verified, Filed, Apart
  <2>3. Named'
    BY <1>3, <2>1, OpenedStays, ActionsAssumption DEF Verified, Named
  <2> QED BY <1>1, <1>3, <1>4, <1>6, <2>1, <2>2, <2>3 DEF Verified
<1>8. CASE Install(r)
  <2>1. /\ files' = [files EXCEPT !.exe = files.tmp, !.tmp = None]
        /\ req[r].left = Blocks /\ req[r].seen = "good" /\ files.tmp # None
    BY <1>8 DEF Install
  <2>2. /\ DOMAIN files' = {"exe", "tmp", "body"} /\ files'.tmp = None
        /\ files'.exe = files.tmp /\ files'.body = files.body
    BY <2>1 DEF Verified, Filed
  <2>3. Filed' /\ Apart'
    BY <2>1, <2>2 DEF Verified, Filed, Apart
  <2>4. Named'
    BY <1>3, <2>2, OpenedStays, ActionsAssumption DEF Verified, Named
  <2>5. ~crossed => \A n \in 1..Blocks : files'.body[files'.exe][n] = "good"
    BY <1>1, <2>1, <2>2 DEF Verified, Loading
  <2> QED BY <1>1, <1>3, <1>4, <1>6, <2>3, <2>4, <2>5 DEF Verified
<1>9. CASE InstallFails(r) \/ DownloadBreaks(r)
  BY <1>7, <1>9 DEF InstallFails, DownloadBreaks, RemovesAndFails
<1> QED BY <1>8, <1>9

LEMMA VerifiedStep == Verified /\ [Next]_vars => Verified'
<1> SUFFICES ASSUME Verified, [Next]_vars PROVE Verified'
  OBVIOUS
<1>0. Coursed
  BY DEF Verified
<1>1. ASSUME NEW r \in Requests, Send(r) \/ Relaying(r) \/ TimesOut(r)
      PROVE  Verified'
  <2>1. UNCHANGED <<files, crossed>>
    BY <1>1 DEF Send, Relaying, HubRejects, HubForwards, Deliver, TimesOut, host, docker
  <2> QED BY <1>0, <1>1, <2>1, RelayingBystands, BystandVerified
<1>2. ASSUME NEW r \in Requests,
             \/ SwitchReturns(r) \/ CallReturns(r) \/ BatchItem(r) \/ Applies(r) \/ BatchEnds(r)
             \/ LogBatch(r) \/ ForwardStarts(r) \/ ForwardStops(r)
      PROVE  Verified'
  <2>1. UNCHANGED <<files, crossed>>
    BY <1>2 DEF SwitchReturns, CallReturns, BatchItem, Applies, BatchEnds, LogBatch, ForwardStarts,
                ForwardStops, host, docker
  <2> QED BY <1>0, <1>2, <2>1, PlainBystands, BystandVerified
<1>3. ASSUME NEW r \in Requests, UpdateContainer(r)
      PROVE  Verified'
  <2>1. UNCHANGED <<files, crossed>>
    <3>1. ASSUME NEW refused, NEW effect, NEW next, NEW onError, DockerCall(r, refused, effect, next, onError)
          PROVE  UNCHANGED <<files, crossed>>
      BY <3>1 DEF DockerCall, host
    <3>2. CASE Inspect(r) \/ Pull(r) \/ UpdateEnds(r)
      BY <3>2 DEF Inspect, Pull, UpdateEnds, host, docker
    <3>3. CASE Stop(r) \/ Rename(r) \/ Create(r) \/ Start(r)
      BY <3>1, <3>3 DEF Stop, Rename, Create, Start
    <3>4. CASE RemoveOld(r) \/ RemoveNew(r) \/ RenameBack(r) \/ StartBack(r)
      BY <3>1, <3>4 DEF RemoveOld, RemoveNew, RenameBack, StartBack
    <3> QED BY <1>3, <3>2, <3>3, <3>4 DEF UpdateContainer
  <2> QED BY <1>0, <1>3, <2>1, UpdateBystands, BystandVerified
<1>4. ASSUME NEW r \in Requests, CallFails(r) \/ CallHangs(r) \/ RolloutDone(r) \/ RolloutTimesOut(r)
      PROVE  Verified'
  <2>1. UNCHANGED <<files, crossed>>
    BY <1>4 DEF CallFails, CallHangs, RolloutDone, RolloutTimesOut, host, docker
  <2> QED BY <1>0, <1>4, <2>1, EndingBystands, HangBystands, BystandVerified
<1>5. CASE Controller
  <2>1. UNCHANGED <<req, files, crossed>>
    <3>1. CASE ControllerObserves
      BY <3>1 DEF ControllerObserves, host, docker
    <3>2. CASE ControllerFinishes
      BY <3>2 DEF ControllerFinishes, host, docker
    <3> QED BY <1>5, <3>1, <3>2 DEF Controller
  <2> QED BY <1>0, <2>1, StutterBystands, BystandVerified
<1>6. CASE AgentRestarts
  <2>1. UNCHANGED <<files, crossed>>
    BY <1>6 DEF AgentRestarts, docker
  <2> QED BY <1>0, <1>6, <2>1, RestartBystands, BystandVerified
<1>7. CASE UNCHANGED vars
  BY <1>0, <1>7, StutterBystands, BystandVerified DEF vars, host, docker
<1> QED BY <1>1, <1>2, <1>3, <1>4, <1>5, <1>6, <1>7, DispatchVerified, EditVerified, SumsVerified,
           OpenVerified, DownloadVerified, EndingVerified DEF Next, Handle, Edit, UpdateAgent

\* host.go, updateAgent: the binary of the agent is complete and is one whose
\* checksum was compared, unless two updates of the agent overlapped, however
\* downloads fail and whenever the service restarts.
THEOREM InstalledBinaryIsVerified == Spec => []InstalledIsVerified
<1>1. Verified => InstalledIsVerified
  BY DEF Verified, InstalledIsVerified
<1> QED BY <1>1, VerifiedInit, VerifiedStep, PTL DEF Spec

-----------------------------------------------------------------------------
\* The turns a request takes.

Keeps(q, changed) == DOMAIN req'[q] = Fields /\ \A f \in Fields \ changed : req'[q][f] = req[q][f]

\* Only Dispatch begins an operation; one that tails a log does nothing else.
Begins(q) ==
  \/ Dispatch(q)
  \/ req[q].step # "arrived" /\ req'[q].step # "arrived" /\ (req[q].step = "logs" <=> req'[q].step = "logs")

\* Everything a step may do to a request.
Turns(q) ==
  \/ req'[q] = req[q]
  \/ /\ Stage(q) = "unsent" /\ req'[q].stage = "hub" /\ \E c \in box : req'[q].target = c.id
     /\ Keeps(q, {"stage", "target"})
  \/ /\ Stage(q) = "hub" /\ req'[q].stage \in {"agent", "dropped"}
     /\ Keeps(q, {"stage"})
  \/ /\ Stage(q) = "agent" /\ req'[q].stage = "agent" /\ req'[q].step \in Steps
     /\ Keeps(q, {"step", "target", "seen", "left"})
     /\ Begins(q) /\ (req[q].step = "open" \/ req'[q].target = req[q].target)
  \/ /\ Stage(q) \in {"hub", "agent"} /\ req'[q].stage = "answered"
     /\ req'[q].verdict \in {"success", "failed"} /\ req'[q].to \subseteq Browsers \cup {req[q].from}
     /\ Keeps(q, {"stage", "verdict", "to"})
  \/ /\ Stage(q) = "answered" /\ req'[q].stage = "shown"
     /\ Keeps(q, {"stage"})
  \/ /\ Stage(q) = "agent" /\ req'[q].stage = "cut"
     /\ Keeps(q, {"stage"})

\* A step of one request leaves the others alone.
TurnOf(r) == Turns(r) /\ \A q \in Requests \ {r} : req'[q] = req[q]

\* The forms in which a step of the agent changes its request.
LEMMA AnswerTurns ==
  ASSUME Coursed, NEW r \in Requests, NEW ok, Answer(r, ok), Stage(r) \in {"hub", "agent"}
  PROVE  TurnOf(r)
<1>1. \A q \in Requests \ {r} : req'[q] = req[q]
  BY DEF Answer, Coursed, Shape
<1>2. req'[r] = [req[r] EXCEPT !.stage = "answered", !.verdict = IF ok THEN "success" ELSE "failed",
                               !.to = Browsers]
  BY DEF Answer, Coursed, Shape
<1>3. /\ req'[r].stage = "answered" /\ req'[r].verdict \in {"success", "failed"} /\ req'[r].to = Browsers
      /\ Keeps(r, {"stage", "verdict", "to"})
  BY <1>2 DEF Keeps, Coursed, Shape, Fields
<1> QED BY <1>1, <1>3 DEF TurnOf, Turns

LEMMA GoesOnTurns ==
  ASSUME Coursed, NEW r \in Requests, Stage(r) = "agent",
         NEW step \in Steps, NEW seen, NEW left,
         \/ req' = [req EXCEPT ![r].step = step]
         \/ req' = [req EXCEPT ![r].step = step, ![r].seen = seen]
         \/ req' = [req EXCEPT ![r].step = step, ![r].left = left]
         \/ req' = [req EXCEPT ![r].step = step, ![r].seen = seen, ![r].left = left],
         Dispatch(r) \/ (req[r].step \notin {"arrived", "logs"} /\ step \notin {"arrived", "logs"})
  PROVE  TurnOf(r)
<1>1. \A q \in Requests \ {r} : req'[q] = req[q]
  BY DEF Coursed, Shape
<1>2. \/ req'[r] = [req[r] EXCEPT !.step = step]
      \/ req'[r] = [req[r] EXCEPT !.step = step, !.seen = seen]
      \/ req'[r] = [req[r] EXCEPT !.step = step, !.left = left]
      \/ req'[r] = [req[r] EXCEPT !.step = step, !.seen = seen, !.left = left]
  BY DEF Coursed, Shape
<1>3. /\ req'[r].stage = req[r].stage /\ req'[r].step = step /\ req'[r].target = req[r].target
      /\ Keeps(r, {"step", "target", "seen", "left"})
  <2>1. CASE req'[r] = [req[r] EXCEPT !.step = step]
    BY <2>1 DEF Keeps, Coursed, Shape, Fields
  <2>2. CASE req'[r] = [req[r] EXCEPT !.step = step, !.seen = seen]
    BY <2>2 DEF Keeps, Coursed, Shape, Fields
  <2>3. CASE req'[r] = [req[r] EXCEPT !.step = step, !.left = left]
    BY <2>3 DEF Keeps, Coursed, Shape, Fields
  <2>4. CASE req'[r] = [req[r] EXCEPT !.step = step, !.seen = seen, !.left = left]
    BY <2>4 DEF Keeps, Coursed, Shape, Fields
  <2> QED BY <1>2, <2>1, <2>2, <2>3, <2>4
<1> QED BY <1>1, <1>3 DEF TurnOf, Turns, Begins, Stage

LEMMA CountsTurns ==
  ASSUME Coursed, NEW r \in Requests, Operating(r), req[r].step \in Steps, NEW seen, NEW left,
         \/ req' = [req EXCEPT ![r].left = left]
         \/ req' = [req EXCEPT ![r].left = left, ![r].seen = seen]
  PROVE  TurnOf(r)
<1>1. \A q \in Requests \ {r} : req'[q] = req[q]
  BY DEF Coursed, Shape
<1>2. \/ req'[r] = [req[r] EXCEPT !.left = left]
      \/ req'[r] = [req[r] EXCEPT !.left = left, !.seen = seen]
  BY DEF Coursed, Shape
<1>3. /\ req'[r].stage = req[r].stage /\ req'[r].step = req[r].step /\ req'[r].target = req[r].target
      /\ Keeps(r, {"step", "target", "seen", "left"})
  <2>1. CASE req'[r] = [req[r] EXCEPT !.left = left]
    BY <2>1 DEF Keeps, Coursed, Shape, Fields
  <2>2. CASE req'[r] = [req[r] EXCEPT !.left = left, !.seen = seen]
    BY <2>2 DEF Keeps, Coursed, Shape, Fields
  <2> QED BY <1>2, <2>1, <2>2
<1> QED BY <1>1, <1>3 DEF TurnOf, Turns, Begins, Operating, Stage

LEMMA OpenTurns ==
  ASSUME Coursed, NEW r \in Requests, Open(r)
  PROVE  TurnOf(r)
<1> DEFINE file == IF files.tmp = None THEN r ELSE files.tmp
<1> HIDE DEF file
<1>1. PICK quality : req' = [req EXCEPT ![r].step = "download", ![r].target = file, ![r].seen = quality]
  BY DEF Open, file
<1>2. \A q \in Requests \ {r} : req'[q] = req[q]
  BY <1>1 DEF Coursed, Shape
<1>3. req'[r] = [req[r] EXCEPT !.step = "download", !.target = file, !.seen = quality]
  BY <1>1 DEF Coursed, Shape
<1>4. /\ req'[r].stage = req[r].stage /\ req'[r].step = "download"
      /\ Keeps(r, {"step", "target", "seen", "left"})
  BY <1>3 DEF Keeps, Coursed, Shape, Fields
<1>5. Stage(r) = "agent" /\ req[r].step = "open" /\ "download" \in Steps
  BY DEF Open, At, Steps
<1> QED BY <1>2, <1>4, <1>5 DEF TurnOf, Turns, Begins, Stage

LEMMA RelayingTurns ==
  ASSUME Coursed, NEW r \in Requests, Send(r) \/ Relaying(r) \/ TimesOut(r)
  PROVE  TurnOf(r)
<1>1. CASE Send(r)
  <2>1. PICK c \in box : req' = [req EXCEPT ![r].stage = "hub", ![r].target = c.id]
    BY <1>1 DEF Send
  <2>2. req'[r] = [req[r] EXCEPT !.stage = "hub", !.target = c.id]
    BY <2>1 DEF Coursed, Shape
  <2>3. req'[r].stage = "hub" /\ req'[r].target = c.id /\ Keeps(r, {"stage", "target"})
    BY <2>2 DEF Keeps, Coursed, Shape, Fields
  <2>4. \A q \in Requests \ {r} : req'[q] = req[q]
    BY <2>1 DEF Coursed, Shape
  <2>5. Stage(r) = "unsent"
    BY <1>1 DEF Send
  <2> QED BY <2>3, <2>4, <2>5 DEF TurnOf, Turns
<1>2. CASE HubRejects(r)
  <2>1. req'[r] = [req[r] EXCEPT !.stage = "answered", !.verdict = "failed", !.to = {req[r].from}]
    BY <1>2 DEF HubRejects, Coursed, Shape
  <2>2. /\ req'[r].stage = "answered" /\ req'[r].verdict = "failed" /\ req'[r].to = {req[r].from}
        /\ Keeps(r, {"stage", "verdict", "to"})
    BY <2>1 DEF Keeps, Coursed, Shape, Fields
  <2>3. \A q \in Requests \ {r} : req'[q] = req[q]
    BY <1>2 DEF HubRejects, Coursed, Shape
  <2>4. Stage(r) = "hub"
    BY <1>2 DEF HubRejects
  <2> QED BY <2>2, <2>3, <2>4 DEF TurnOf, Turns
<1>3. CASE HubForwards(r)
  <2>1. req'[r] = [req[r] EXCEPT !.stage = IF online THEN "agent" ELSE "dropped"]
    BY <1>3 DEF HubForwards, Coursed, Shape
  <2>2. req'[r].stage \in {"agent", "dropped"} /\ Keeps(r, {"stage"})
    BY <2>1 DEF Keeps, Coursed, Shape, Fields
  <2>3. \A q \in Requests \ {r} : req'[q] = req[q]
    BY <1>3 DEF HubForwards, Coursed, Shape
  <2>4. Stage(r) = "hub"
    BY <1>3 DEF HubForwards
  <2> QED BY <2>2, <2>3, <2>4 DEF TurnOf, Turns
<1>4. CASE Deliver(r)
  <2>1. req'[r] = [req[r] EXCEPT !.stage = "shown"]
    BY <1>4 DEF Deliver, Coursed, Shape
  <2>2. req'[r].stage = "shown" /\ Keeps(r, {"stage"})
    BY <2>1 DEF Keeps, Coursed, Shape, Fields
  <2>3. \A q \in Requests \ {r} : req'[q] = req[q]
    BY <1>4 DEF Deliver, Coursed, Shape
  <2>4. Stage(r) = "answered"
    BY <1>4 DEF Deliver
  <2> QED BY <2>2, <2>3, <2>4 DEF TurnOf, Turns
<1>5. CASE TimesOut(r)
  BY <1>5 DEF TimesOut, TurnOf, Turns
<1> QED BY <1>1, <1>2, <1>3, <1>4, <1>5 DEF Relaying

LEMMA DispatchTurns ==
  ASSUME Coursed, NEW r \in Requests, Dispatch(r)
  PROVE  TurnOf(r)
<1> DEFINE op == Operation(req[r].kind, Type(r))
<1>1. op # "refused" => op \in Steps
  BY DEF Operation, Steps, EndingSteps
<1> HIDE DEF op
<1>2. Stage(r) = "agent"
  BY DEF Dispatch, At
<1>3. CASE op = "refused"
  BY <1>2, <1>3, AnswerTurns DEF Dispatch, op
<1>4. CASE op # "refused"
  <2>1. PICK left : req' = [req EXCEPT ![r].step = op, ![r].left = left]
    <3>1. req' = [req EXCEPT ![r].step = op,
                    ![r].left = CASE op = "calls" -> Calls(Type(r))
                                  [] op \in {"batch", "logs"} -> Items
                                  [] OTHER -> 0]
      BY <1>4 DEF Dispatch, op
    <3> QED BY <3>1
  <2> QED BY <1>1, <1>2, <1>4, <2>1, GoesOnTurns
<1> QED BY <1>3, <1>4

\* Calls of plain actions, batches, logs and forwards.
LEMMA PlainTurns ==
  ASSUME Coursed, NEW r \in Requests,
         \/ SwitchReturns(r) \/ CallReturns(r) \/ BatchItem(r) \/ Applies(r) \/ BatchEnds(r) \/ LogBatch(r)
         \/ ForwardStarts(r) \/ ForwardStops(r)
  PROVE  TurnOf(r)
<1>1. Operating(r) /\ Stage(r) = "agent" /\ req[r].step \in Steps
  BY DEF SwitchReturns, CallReturns, BatchItem, Applies, BatchEnds, LogBatch, ForwardStarts, ForwardStops,
         At, Operating, Steps, EndingSteps
<1>2. ASSUME NEW ok, Answer(r, ok)
      PROVE  TurnOf(r)
  BY <1>1, <1>2, AnswerTurns
<1>3. ASSUME NEW left, req' = [req EXCEPT ![r].left = left]
      PROVE  TurnOf(r)
  BY <1>1, <1>3, CountsTurns
<1>4. CASE SwitchReturns(r) \/ CallReturns(r)
  BY <1>2, <1>3, <1>4 DEF SwitchReturns, CallReturns
<1>5. CASE BatchItem(r) \/ Applies(r)
  <2>1. CASE req' = [req EXCEPT ![r].left = @ - 1]
    BY <1>3, <2>1
  <2>2. CASE req' = [req EXCEPT ![r].left = @ - 1, ![r].seen = "applied"]
    <3>1. PICK left : req' = [req EXCEPT ![r].left = left, ![r].seen = "applied"]
      BY <2>2
    <3> QED BY <1>1, <3>1, CountsTurns
  <2> QED BY <1>5, <2>1, <2>2 DEF BatchItem, Applies
<1>6. CASE BatchEnds(r)
  BY <1>2, <1>6 DEF BatchEnds
<1>7. CASE LogBatch(r)
  BY <1>2, <1>3, <1>7 DEF LogBatch
<1>8. CASE ForwardStarts(r) \/ ForwardStops(r)
  BY <1>2, <1>8 DEF ForwardStarts, ForwardStops
<1> QED BY <1>4, <1>5, <1>6, <1>7, <1>8

LEMMA GotoTurns ==
  ASSUME Coursed, NEW r \in Requests, NEW s, At(r, s), s \notin {"arrived", "logs"},
         NEW step \in Steps \ {"arrived", "logs"}, Goto(r, step)
  PROVE  TurnOf(r)
<1>1. req' = [req EXCEPT ![r].step = step]
  BY DEF Goto
<1>2. Stage(r) = "agent" /\ req[r].step = s /\ step \in Steps
  BY DEF At
<1> QED BY <1>1, <1>2, GoesOnTurns

LEMMA GotoWithTurns ==
  ASSUME Coursed, NEW r \in Requests, NEW s, At(r, s), s \notin {"arrived", "logs"},
         NEW step \in Steps \ {"arrived", "logs"}, NEW seen, GotoWith(r, step, seen)
  PROVE  TurnOf(r)
<1>1. req' = [req EXCEPT ![r].step = step, ![r].seen = seen]
  BY DEF GotoWith
<1>2. Stage(r) = "agent" /\ req[r].step = s /\ step \in Steps
  BY DEF At
<1> QED BY <1>1, <1>2, GoesOnTurns

LEMMA DockerCallTurns ==
  ASSUME Coursed, NEW r \in Requests, NEW s, At(r, s), s \notin {"arrived", "logs"},
         NEW refused, NEW effect, NEW next \in Steps \ {"arrived", "logs"},
         NEW onError \in Steps \ {"arrived", "logs"}, DockerCall(r, refused, effect, next, onError)
  PROVE  TurnOf(r)
<1>1. Goto(r, next) \/ Goto(r, onError)
  BY DEF DockerCall
<1> QED BY <1>1, GotoTurns

\* The steps of an image update that has looked its container up.
UpdatingSteps == {"pull", "stop", "rename", "create", "start", "removeOld", "removeNew",
                  "renameBack", "startBack", "updated", "failed"}

LEMMA ContainerTurns ==
  ASSUME Coursed, NEW r \in Requests, UpdateContainer(r)
  PROVE  TurnOf(r)
<1>0. UpdatingSteps \subseteq Steps \ {"arrived", "logs"}
  BY DEF UpdatingSteps, Steps, EndingSteps
<1>1. CASE Inspect(r)
  <2>1. At(r, "inspect") /\ Stage(r) = "agent" /\ "pull" \in UpdatingSteps
    BY <1>1 DEF Inspect, At, UpdatingSteps
  <2>2. CASE Answer(r, FALSE)
    BY <2>1, <2>2, AnswerTurns
  <2>3. CASE \E c \in Old(r) : GotoWith(r, "pull", c.name)
    BY <1>0, <2>1, <2>3, GotoWithTurns
  <2> QED BY <1>1, <2>2, <2>3 DEF Inspect
<1>2. CASE Pull(r)
  BY <1>0, <1>2, GotoTurns DEF Pull, UpdatingSteps
<1>3. CASE Stop(r)
  BY <1>0, <1>3, DockerCallTurns DEF Stop, UpdatingSteps
<1>4. CASE Rename(r)
  BY <1>0, <1>4, DockerCallTurns DEF Rename, UpdatingSteps
<1>5. CASE Create(r)
  BY <1>0, <1>5, DockerCallTurns DEF Create, UpdatingSteps
<1>6. CASE Start(r)
  BY <1>0, <1>6, DockerCallTurns DEF Start, UpdatingSteps
<1>7. CASE RemoveOld(r)
  BY <1>0, <1>7, DockerCallTurns DEF RemoveOld, UpdatingSteps
<1>8. CASE RemoveNew(r)
  BY <1>0, <1>8, DockerCallTurns DEF RemoveNew, UpdatingSteps
<1>9. CASE RenameBack(r)
  BY <1>0, <1>9, DockerCallTurns DEF RenameBack, UpdatingSteps
<1>10. CASE StartBack(r)
  BY <1>0, <1>10, DockerCallTurns DEF StartBack, UpdatingSteps
<1>11. CASE UpdateEnds(r)
  BY <1>11, AnswerTurns DEF UpdateEnds, Operating
<1> QED BY <1>1, <1>2, <1>3, <1>4, <1>5, <1>6, <1>7, <1>8, <1>9, <1>10, <1>11 DEF UpdateContainer

LEMMA EditTurns ==
  ASSUME Coursed, NEW r \in Requests, Edit(r)
  PROVE  TurnOf(r)
<1>0. {"list", "put", "wait", "batch"} \subseteq Steps \ {"arrived", "logs"}
  BY DEF Steps, EndingSteps
<1>1. ASSUME NEW ok, NEW s, At(r, s), Answer(r, ok)
      PROVE  TurnOf(r)
  BY <1>1, AnswerTurns DEF At
<1>2. CASE Read(r)
  <2>1. PICK step \in {"list", "put"} : \E seen : GotoWith(r, step, seen)
    BY <1>2 DEF Read
  <2> QED BY <1>0, <1>2, <2>1, GotoWithTurns DEF Read
<1>3. CASE List(r)
  <2>1. ASSUME NEW seen, GotoWith(r, "put", seen)
        PROVE  TurnOf(r)
    BY <1>0, <1>3, <2>1, GotoWithTurns DEF List
  <2> QED BY <1>1, <1>3, <2>1 DEF List
<1>4. CASE Put(r)
  <2>1. At(r, "put") /\ Stage(r) = "agent" /\ req[r].step = "put"
    BY <1>4 DEF Put, At
  <2>2. ASSUME NEW ok, Answer(r, ok)
        PROVE  TurnOf(r)
    BY <1>1, <2>1, <2>2
  <2>3. CASE Writes(r)
    <3>1. CASE Goto(r, "wait")
      BY <1>0, <2>1, <3>1, GotoTurns
    <3>2. CASE req' = [req EXCEPT ![r].step = "batch", ![r].seen = None, ![r].left = Items]
      BY <1>0, <2>1, <3>2, GoesOnTurns
    <3> QED BY <2>2, <2>3, <3>1, <3>2 DEF Writes
  <2> QED BY <1>4, <2>2, <2>3 DEF Put
<1>5. CASE RolloutDone(r) \/ RolloutTimesOut(r)
  BY <1>1, <1>5 DEF RolloutDone, RolloutTimesOut
<1> QED BY <1>2, <1>3, <1>4, <1>5 DEF Edit

LEMMA AgentTurns ==
  ASSUME Coursed, NEW r \in Requests,
         UpdateAgent(r) \/ DownloadBreaks(r) \/ CallFails(r) \/ CallHangs(r)
  PROVE  TurnOf(r)
<1>1. CASE Sums(r)
  BY <1>1, GotoTurns DEF Sums, Steps
<1>2. CASE Download(r)
  <2>1. Operating(r) /\ req[r].step \in Steps
    BY <1>2 DEF Download, At, Operating, Steps
  <2>2. PICK left : req' = [req EXCEPT ![r].left = left]
    BY <1>2 DEF Download
  <2> QED BY <2>1, <2>2, CountsTurns
<1>3. CASE Install(r) \/ InstallFails(r) \/ DownloadBreaks(r) \/ CallFails(r)
  <2>1. Stage(r) = "agent" /\ \E ok \in BOOLEAN : Answer(r, ok)
    BY <1>3 DEF Install, InstallFails, DownloadBreaks, RemovesAndFails, CallFails, Operating, At
  <2> QED BY <2>1, AnswerTurns
<1>4. CASE CallHangs(r)
  <2>1. Stage(r) = "agent" /\ req[r].step \in UntimedSteps /\ req' = [req EXCEPT ![r].step = "hung"]
    BY <1>4 DEF CallHangs, Operating, Goto
  <2>2. "hung" \in Steps /\ req[r].step \notin {"arrived", "logs"}
    BY <2>1 DEF Steps, UntimedSteps
  <2> QED BY <2>1, <2>2, GoesOnTurns
<1> QED BY <1>1, <1>2, <1>3, <1>4, OpenTurns DEF UpdateAgent

\* The steps of a request.
Acts(r) ==
  \/ Send(r) \/ Relaying(r) \/ Handle(r) \/ TimesOut(r)
  \/ CallFails(r) \/ CallHangs(r) \/ DownloadBreaks(r)

LEMMA ActingTurns ==
  ASSUME Coursed, NEW r \in Requests, Acts(r)
  PROVE  TurnOf(r)
BY RelayingTurns, DispatchTurns, PlainTurns, ContainerTurns, EditTurns, AgentTurns DEF Acts, Handle

\* systemctl restart.
LEMMA RestartTurns ==
  ASSUME Coursed, AgentRestarts
  PROVE  \A q \in Requests : Turns(q)
<1> SUFFICES ASSUME NEW q \in Requests PROVE Turns(q)
  OBVIOUS
<1>1. req' = [r \in Requests |-> IF Stage(r) = "agent" THEN [req[r] EXCEPT !.stage = "cut"] ELSE req[r]]
  BY DEF AgentRestarts
<1>2. CASE Stage(q) = "agent"
  <2>1. req'[q] = [req[q] EXCEPT !.stage = "cut"]
    BY <1>1, <1>2
  <2>2. req'[q].stage = "cut" /\ Keeps(q, {"stage"})
    BY <2>1 DEF Keeps, Coursed, Shape, Fields
  <2> QED BY <1>2, <2>2 DEF Turns
<1>3. CASE Stage(q) # "agent"
  BY <1>1, <1>3 DEF Turns
<1> QED BY <1>2, <1>3

\* Whatever happens, every request takes one of its turns.
LEMMA AllTurns ==
  ASSUME Coursed, [Next]_vars
  PROVE  \A q \in Requests : Turns(q)
<1>1. CASE Controller \/ UNCHANGED vars
  <2>1. req' = req
    BY <1>1 DEF Controller, ControllerObserves, ControllerFinishes, vars
  <2> QED BY <2>1 DEF Turns
<1>2. CASE AgentRestarts
  BY <1>2, RestartTurns
<1>3. ASSUME NEW r \in Requests, Acts(r)
      PROVE  \A q \in Requests : Turns(q)
  <2>1. TurnOf(r)
    BY <1>3, ActingTurns
  <2> QED BY <2>1 DEF TurnOf, Turns
<1> QED BY <1>1, <1>2, <1>3 DEF Next, Acts

\* A request has no verdict until it is answered.
Silent == \A r \in Requests : Stage(r) \in {"unsent", "hub", "agent"} => req[r].verdict = None

LEMMA SilentInit == Init => Silent
<1> SUFFICES ASSUME Init PROVE Silent
  OBVIOUS
<1>1. PICK asks \in Menus, from \in [Requests -> Browsers] :
        req = [r \in Requests |->
          [kind |-> asks[r][1], type |-> asks[r][2], from |-> from[r], stage |-> "unsent",
           step |-> "arrived", verdict |-> None, target |-> None, seen |-> None, left |-> 0,
           to |-> {}]]
  BY DEF Init
<1> QED BY <1>1 DEF Silent

LEMMA SilentStep ==
  ASSUME Coursed, Silent, [Next]_vars
  PROVE  Silent'
<1> SUFFICES ASSUME NEW r \in Requests, req'[r].stage \in {"unsent", "hub", "agent"}
             PROVE  req'[r].verdict = None
  BY DEF Silent, Stage
<1>1. Turns(r)
  BY AllTurns
<1> QED BY <1>1 DEF Turns, Keeps, Fields, Silent, Stage

\* What succeeds now, its own handler has done.
LEMMA SucceedsByHandler ==
  ASSUME Coursed, Silent, [Next]_vars, NEW r \in Requests, Stage(r) = "agent",
         req'[r].verdict = "success"
  PROVE  Handle(r)
<1>0. req[r].verdict # "success"
  BY ActionsAssumption DEF Silent
<1>1. req'[r] # req[r]
  BY <1>0
<1>2. ~AgentRestarts
  <2>1. AgentRestarts => req'[r] = [req[r] EXCEPT !.stage = "cut"]
    BY DEF AgentRestarts
  <2> QED BY <1>0, <2>1 DEF Coursed, Shape, Fields
<1>3. ~Controller /\ ~UNCHANGED vars
  BY <1>1 DEF Controller, ControllerObserves, ControllerFinishes, vars
<1>4. PICK q \in Requests : Acts(q)
  BY <1>2, <1>3 DEF Next, Acts
<1>5. q = r
  BY <1>1, <1>4, ActingTurns DEF TurnOf
<1>6. ASSUME Answer(r, FALSE) PROVE FALSE
  <2>1. req'[r] = [req[r] EXCEPT !.stage = "answered", !.verdict = "failed", !.to = Browsers]
    BY <1>6 DEF Answer, Coursed, Shape
  <2> QED BY <2>1 DEF Coursed, Shape, Fields
<1>7. ~Send(r) /\ ~Relaying(r) /\ ~TimesOut(r)
  BY <1>1 DEF Send, Relaying, HubRejects, HubForwards, Deliver, TimesOut
<1>8. ~CallFails(r) /\ ~DownloadBreaks(r)
  BY <1>6 DEF CallFails, DownloadBreaks, RemovesAndFails
<1>9. ~CallHangs(r)
  <2>1. CallHangs(r) => req'[r] = [req[r] EXCEPT !.step = "hung"]
    BY DEF CallHangs, Goto, Coursed, Shape
  <2> QED BY <1>0, <2>1 DEF Coursed, Shape, Fields
<1> QED BY <1>4, <1>5, <1>7, <1>8, <1>9 DEF Acts

-----------------------------------------------------------------------------
\* The rollout of the deployment.

\* A nonempty set of naturals that is bounded has a greatest element, which is its Max.
LEMMA GreatestNatural ==
  ASSUME NEW S \in SUBSET Nat, S # {}, NEW b \in Nat, \A x \in S : x <= b
  PROVE  Max(S) \in S /\ \A y \in S : y <= Max(S)
<1> DEFINE T == {b - x : x \in S}
<1>1. T \subseteq Nat /\ T # {}
  <2>1. \A x \in S : b - x \in Nat
    OBVIOUS
  <2> QED BY <2>1
<1> DEFINE Less == OpToRel(<, Nat)
<1>2. \A x, y \in Nat : <<x, y>> \in Less <=> x < y
  BY DEF OpToRel
<1> HIDE DEF T, Less
<1>3. PICK t \in T : \A y \in T : <<y, t>> \notin Less
  BY <1>1, NatLessThanWellFounded, WFMin DEF Less
<1>4. PICK m \in S : t = b - m
  BY <1>3 DEF T
<1>5. \A y \in S : m >= y
  <2> SUFFICES ASSUME NEW y \in S PROVE m >= y
    OBVIOUS
  <2>1. b - y \in T
    BY DEF T
  <2>2. ~(b - y < t)
    BY <1>1, <1>2, <1>3, <2>1
  <2> QED BY <1>4, <2>2
<1>6. Max(S) \in S /\ \A y \in S : Max(S) >= y
  BY <1>5 DEF Max
<1> QED BY <1>6

\* What the controller has observed, it has made the current revision; when it is
\* done the pods are of that revision.
Rolled ==
  /\ DOMAIN rollout = {"generation", "observed", "done", "revision", "sets", "pods"}
  /\ rollout.generation \in Nat /\ rollout.observed \in Nat /\ rollout.observed <= rollout.generation
  /\ DOMAIN rollout.sets \subseteq Nat /\ (\E b \in Nat : \A v \in DOMAIN rollout.sets : v <= b)
  /\ rollout.revision \in DOMAIN rollout.sets
  /\ \A v \in DOMAIN rollout.sets : rollout.sets[v] = <<rollout.sets[v][1], rollout.sets[v][2]>>
  /\ rollout.observed = rollout.generation =>
       rollout.sets[rollout.revision] = Template(objects["deployment"].fields)
  /\ rollout.done => rollout.pods = rollout.sets[rollout.revision]

LEMMA DeploymentNumbered == "deployment" \in NumberedKinds
<1>1. "k8s_rollout_undo" \in Edits /\ "k8s_rollout_undo" \in DeploymentEdits \ NodeEdits
  BY DEF Edits, DeploymentEdits, NodeEdits
<1>2. EditedKind["k8s_rollout_undo"] = "deployment" /\ DOMAIN EditedKind = Edits
  BY <1>1 DEF EditedKind
<1> QED BY <1>1, <1>2 DEF NumberedKinds

LEMMA RolledInit == Init => Rolled
<1> SUFFICES ASSUME Init PROVE Rolled
  OBVIOUS
<1>1. rollout = [generation |-> 0, observed |-> 0, done |-> TRUE, revision |-> Current,
                 sets |-> [v \in FirstRevision..Current |-> Template(Past(v - FirstRevision))],
                 pods |-> Template(Past(2))]
  BY DEF Init
<1>2. Current \in Nat /\ Current \in FirstRevision..Current /\ Current - FirstRevision = 2
  BY ActionsAssumption DEF Current
<1>3. rollout.sets[Current] = Template(Past(2))
  BY <1>1, <1>2
<1>4. objects["deployment"].fields = [f \in FieldsOf("deployment") |-> IF f = "restartedAt" THEN 2 ELSE None]
  BY DeploymentNumbered DEF Init
<1>5. Template(objects["deployment"].fields) = Template(Past(2))
  BY <1>4 DEF Template, Past, FieldsOf
<1>6. \A v \in FirstRevision..Current : v \in Nat /\ v <= Current
  BY <1>2, ActionsAssumption
<1>7. \A v \in DOMAIN rollout.sets : rollout.sets[v] = <<rollout.sets[v][1], rollout.sets[v][2]>>
  BY <1>1 DEF Template
<1>8. DOMAIN rollout.sets = FirstRevision..Current
  BY <1>1
<1> QED BY <1>1, <1>2, <1>3, <1>5, <1>6, <1>7, <1>8 DEF Rolled

\* Only accepted writes, manifests and the controller change the deployment.
LEMMA RolloutOnly ==
  ASSUME [Next]_vars
  PROVE  \/ UNCHANGED <<objects, rollout>>
         \/ (\E r \in Requests : Put(r) \/ Applies(r))
         \/ Controller
<1>1. ASSUME NEW r \in Requests, Send(r) \/ Relaying(r) \/ TimesOut(r)
      PROVE  UNCHANGED <<objects, rollout>>
  BY <1>1 DEF Send, Relaying, HubRejects, HubForwards, Deliver, TimesOut, kube
<1>2. ASSUME NEW r \in Requests,
             \/ SwitchReturns(r) \/ CallReturns(r) \/ BatchItem(r) \/ BatchEnds(r) \/ LogBatch(r)
             \/ ForwardStarts(r) \/ ForwardStops(r) \/ Dispatch(r)
      PROVE  UNCHANGED <<objects, rollout>>
  BY <1>2 DEF SwitchReturns, CallReturns, BatchItem, BatchEnds, LogBatch, ForwardStarts, ForwardStops, Dispatch, kube
<1>3. ASSUME NEW r \in Requests, UpdateContainer(r)
      PROVE  UNCHANGED <<objects, rollout>>
  <2>1. ASSUME NEW refused, NEW effect, NEW next, NEW onError, DockerCall(r, refused, effect, next, onError)
        PROVE  UNCHANGED <<objects, rollout>>
    BY <2>1 DEF DockerCall, kube
  <2>2. CASE Inspect(r) \/ Pull(r) \/ UpdateEnds(r)
    BY <2>2 DEF Inspect, Pull, UpdateEnds, kube
  <2>3. CASE Stop(r) \/ Rename(r) \/ Create(r) \/ Start(r)
    BY <2>1, <2>3 DEF Stop, Rename, Create, Start
  <2>4. CASE RemoveOld(r) \/ RemoveNew(r) \/ RenameBack(r) \/ StartBack(r)
    BY <2>1, <2>4 DEF RemoveOld, RemoveNew, RenameBack, StartBack
  <2> QED BY <1>3, <2>2, <2>3, <2>4 DEF UpdateContainer
<1>4. ASSUME NEW r \in Requests,
             \/ CallFails(r) \/ CallHangs(r) \/ RolloutDone(r) \/ RolloutTimesOut(r)
             \/ UpdateAgent(r) \/ DownloadBreaks(r)
      PROVE  UNCHANGED <<objects, rollout>>
  BY <1>4 DEF CallFails, CallHangs, RolloutDone, RolloutTimesOut, UpdateAgent, Sums, Open, Download, Install,
              InstallFails, DownloadBreaks, RemovesAndFails, kube
<1>5. ASSUME NEW r \in Requests, Read(r)
      PROVE  UNCHANGED <<objects, rollout>>
  BY <1>5 DEF Read, kube
<1>6. ASSUME NEW r \in Requests, List(r)
      PROVE  UNCHANGED <<objects, rollout>>
  BY <1>6 DEF List, kube
<1>7. CASE AgentRestarts \/ UNCHANGED vars
  BY <1>7 DEF AgentRestarts, kube, vars
<1> QED BY <1>1, <1>2, <1>3, <1>4, <1>5, <1>6, <1>7 DEF Next, Handle, Edit

LEMMA PutRolled ==
  ASSUME Rolled, Versions, NEW r \in Requests, Put(r)
  PROVE  Rolled'
<1>1. CASE UNCHANGED kube
  BY <1>1 DEF Rolled, kube
<1>2. CASE Writes(r)
  <2>1. CASE Kind(r) = "deployment"
    <3>1. rollout' = [rollout EXCEPT !.generation = @ + 1]
      BY <1>2, <2>1 DEF Writes
    <3>2. /\ DOMAIN rollout' = DOMAIN rollout /\ rollout'.generation = rollout.generation + 1
          /\ rollout'.observed = rollout.observed /\ rollout'.done = rollout.done
          /\ rollout'.revision = rollout.revision /\ rollout'.sets = rollout.sets /\ rollout'.pods = rollout.pods
      BY <3>1 DEF Rolled
    <3>3. rollout'.observed # rollout'.generation /\ rollout'.observed <= rollout'.generation
      BY <3>2 DEF Rolled
    <3> QED BY <3>2, <3>3 DEF Rolled
  <2>2. CASE Kind(r) # "deployment"
    <3>1. rollout' = rollout
      BY <1>2, <2>2 DEF Writes
    <3>2. objects'["deployment"] = objects["deployment"]
      BY <1>2, <2>2, DeploymentNumbered DEF Writes, Versions, Objects
    <3> QED BY <3>1, <3>2 DEF Rolled
  <2> QED BY <2>1, <2>2
<1> QED BY <1>1, <1>2 DEF Put

\* A manifest changes one object: the deployment, which the controller has then to
\* look at again, or another.
LEMMA AppliesOne ==
  ASSUME Versions, NEW r \in Requests, Applies(r)
  PROVE  \/ objects'["deployment"] = objects["deployment"] /\ rollout' = rollout
         \/ /\ objects["deployment"].version \in Nat
            /\ objects'["deployment"].version = objects["deployment"].version + 1
            /\ rollout' = [rollout EXCEPT !.generation = @ + 1]
<1>1. PICK k \in NumberedKinds : \E fs \in SUBSET FieldsOf(k) :
        /\ objects' = [objects EXCEPT ![k] = [version |-> @.version + 1,
                                              fields |-> SetsTo(k, fs, r, @.fields)]]
        /\ rollout' = IF k = "deployment" THEN [rollout EXCEPT !.generation = @ + 1] ELSE rollout
  BY DEF Applies, SetsTo
<1>2. PICK new : objects' = [objects EXCEPT ![k] = [version |-> @.version + 1, fields |-> new]]
  <2>1. PICK fs \in SUBSET FieldsOf(k) :
          objects' = [objects EXCEPT ![k] = [version |-> @.version + 1,
                                            fields |-> SetsTo(k, fs, r, @.fields)]]
    BY <1>1
  <2>2. objects' = [objects EXCEPT ![k] = [version |-> objects[k].version + 1,
                                          fields |-> SetsTo(k, fs, r, objects[k].fields)]]
    BY <2>1
  <2> QED BY <2>2
<1>3. DOMAIN objects = NumberedKinds /\ objects["deployment"].version \in Nat
  BY DeploymentNumbered DEF Versions, Objects
<1>4. CASE k = "deployment"
  BY <1>1, <1>2, <1>3, <1>4, DeploymentNumbered
<1>5. CASE k # "deployment"
  BY <1>1, <1>2, <1>3, <1>5, DeploymentNumbered
<1> QED BY <1>4, <1>5

LEMMA AppliesRolled ==
  ASSUME Rolled, Versions, NEW r \in Requests, Applies(r)
  PROVE  Rolled'
<1>1. CASE objects'["deployment"] = objects["deployment"] /\ rollout' = rollout
  BY <1>1 DEF Rolled
<1>2. CASE rollout' = [rollout EXCEPT !.generation = @ + 1]
  <2>1. /\ DOMAIN rollout' = DOMAIN rollout /\ rollout'.generation = rollout.generation + 1
        /\ rollout'.observed = rollout.observed /\ rollout'.done = rollout.done
        /\ rollout'.revision = rollout.revision /\ rollout'.sets = rollout.sets /\ rollout'.pods = rollout.pods
    BY <1>2 DEF Rolled
  <2>2. rollout'.observed # rollout'.generation /\ rollout'.observed <= rollout'.generation
    BY <2>1 DEF Rolled
  <2> QED BY <2>1, <2>2 DEF Rolled
<1> QED BY <1>1, <1>2, AppliesOne

\* A bump changes a version and no field.
LEMMA BumpKeeps ==
  ASSUME Versions, Bump
  PROVE  /\ objects'["deployment"].fields = objects["deployment"].fields
         /\ objects["deployment"].version \in Nat
         /\ objects'["deployment"].version = objects["deployment"].version + 1
<1>1. /\ DOMAIN objects = NumberedKinds
      /\ DOMAIN objects["deployment"] = {"version", "fields"} /\ objects["deployment"].version \in Nat
  BY DeploymentNumbered DEF Versions, Objects
<1>2. objects'["deployment"] = [objects["deployment"] EXCEPT !.version = @ + 1]
  BY <1>1, DeploymentNumbered DEF Bump
<1> QED BY <1>1, <1>2

LEMMA ControllerRolled ==
  ASSUME Rolled, Versions, Controller
  PROVE  Rolled'
<1>1. CASE ControllerFinishes
  <2>1. rollout' = [rollout EXCEPT !.done = TRUE, !.pods = rollout.sets[rollout.revision]] /\ Bump
    BY <1>1 DEF ControllerFinishes
  <2>2. /\ DOMAIN rollout' = DOMAIN rollout /\ rollout'.generation = rollout.generation
        /\ rollout'.observed = rollout.observed /\ rollout'.pods = rollout.sets[rollout.revision]
        /\ rollout'.revision = rollout.revision /\ rollout'.sets = rollout.sets
    BY <2>1 DEF Rolled
  <2> QED BY <2>1, <2>2, BumpKeeps DEF Rolled
<1>2. CASE ControllerObserves
  <2> DEFINE t == Template(objects["deployment"].fields)
             same == {v \in DOMAIN rollout.sets : rollout.sets[v] = t}
             next == Max(DOMAIN rollout.sets) + 1
             new == IF rollout.revision \in same THEN rollout.revision ELSE next
             kept == DOMAIN rollout.sets \ same
  <2>1. /\ rollout' = [rollout EXCEPT !.observed = rollout.generation, !.done = FALSE, !.revision = new,
                         !.sets = [v \in kept \cup {new} |-> IF v = new THEN t ELSE rollout.sets[v]]]
        /\ Bump
    BY <1>2 DEF ControllerObserves
  <2>2. PICK b \in Nat : \A v \in DOMAIN rollout.sets : v <= b
    BY DEF Rolled
  <2>3. Max(DOMAIN rollout.sets) \in DOMAIN rollout.sets
    BY <2>2, GreatestNatural DEF Rolled
  <2>4. next \in Nat /\ next <= b + 1
    BY <2>2, <2>3 DEF Rolled
  <2>5. new \in Nat /\ new <= b + 1
    BY <2>2, <2>4 DEF Rolled
  <2>6. t = <<t[1], t[2]>>
    BY DEF Template
  <2>7. kept \subseteq DOMAIN rollout.sets
    OBVIOUS
  <2> HIDE DEF t, next, new, kept
  <2>8. /\ DOMAIN rollout' = DOMAIN rollout /\ rollout'.generation = rollout.generation
        /\ rollout'.observed = rollout.generation /\ rollout'.done = FALSE /\ rollout'.revision = new
        /\ rollout'.sets = [v \in kept \cup {new} |-> IF v = new THEN t ELSE rollout.sets[v]]
    BY <2>1 DEF Rolled
  <2>9. DOMAIN rollout'.sets = kept \cup {new}
    BY <2>8
  <2>10. \A v \in kept \cup {new} : v \in Nat /\ v <= b + 1
    BY <2>2, <2>5, <2>7 DEF Rolled
  <2>11. ASSUME NEW v \in kept \cup {new}
         PROVE  rollout'.sets[v] = <<rollout'.sets[v][1], rollout'.sets[v][2]>>
    <3>1. CASE v = new
      BY <2>6, <2>8, <3>1
    <3>2. CASE v # new
      <4>1. v \in DOMAIN rollout.sets /\ rollout'.sets[v] = rollout.sets[v]
        BY <2>7, <2>8, <3>2
      <4> QED BY <4>1 DEF Rolled
    <3> QED BY <3>1, <3>2
  <2>12. rollout'.sets[new] = Template(objects'["deployment"].fields)
    <3>1. rollout'.sets[new] = t
      BY <2>8
    <3> QED BY <2>1, <3>1, BumpKeeps DEF t
  <2>13. b + 1 \in Nat
    OBVIOUS
  <2>14. \E d \in Nat : \A v \in DOMAIN rollout'.sets : v <= d
    BY <2>9, <2>10, <2>13
  <2>15. DOMAIN rollout'.sets \subseteq Nat /\ rollout'.revision \in DOMAIN rollout'.sets
    BY <2>8, <2>9, <2>10
  <2>16. ~rollout'.done
    BY <2>8
  <2>17. /\ DOMAIN rollout' = {"generation", "observed", "done", "revision", "sets", "pods"}
         /\ rollout'.generation \in Nat /\ rollout'.observed \in Nat
         /\ rollout'.observed <= rollout'.generation
    BY <2>8 DEF Rolled
  <2>18. rollout'.sets[rollout'.revision] = Template(objects'["deployment"].fields)
    BY <2>8, <2>12
  <2> QED BY <2>9, <2>11, <2>14, <2>15, <2>16, <2>17, <2>18 DEF Rolled
<1> QED BY <1>1, <1>2 DEF Controller

LEMMA RolledStep ==
  ASSUME Rolled, Versions, [Next]_vars
  PROVE  Rolled'
<1>1. CASE UNCHANGED <<objects, rollout>>
  BY <1>1 DEF Rolled
<1> QED BY <1>1, PutRolled, AppliesRolled, ControllerRolled, RolloutOnly

\* kubernetes.go, waitForRollout: an image update is reported to have succeeded
\* only when the pods run what the deployment says, whatever other edits are
\* accepted while it waits.
THEOREM RolloutReportedIsComplete == Spec => RolloutIsComplete
<1> DEFINE I == Rolled /\ Versions /\ Silent
<1>1. Init => I
  BY RolledInit, VersionsInit, SilentInit
<1>2. I /\ [Next]_vars => I'
  BY RolledStep, VersionsStep, SilentStep DEF Versions
<1>3. ASSUME I, [Next]_vars, NEW r \in Requests, At(r, "wait"), req'[r].verdict = "success"
      PROVE  rollout.pods = Template(objects["deployment"].fields)
  <2>1. Stage(r) = "agent" /\ req[r].step = "wait"
    BY <1>3 DEF At
  <2>2. Handle(r)
    BY <1>3, <2>1, SucceedsByHandler DEF Versions
  <2>3. ~RolloutTimesOut(r)
    <3>1. ASSUME Answer(r, FALSE) PROVE FALSE
      <4>1. req'[r] = [req[r] EXCEPT !.stage = "answered", !.verdict = "failed", !.to = Browsers]
        BY <1>3, <3>1 DEF Answer, Versions, Coursed, Shape
      <4> QED BY <1>3, <4>1 DEF Versions, Coursed, Shape, Fields
    <3> QED BY <3>1 DEF RolloutTimesOut
  <2>4. Edit(r)
    BY <2>1, <2>2 DEF Handle, Dispatch, SwitchReturns, CallReturns, BatchItem, Applies, BatchEnds, LogBatch,
         ForwardStarts, ForwardStops, UpdateContainer, Inspect, Pull, Stop, Rename, Create, Start, RemoveOld, RemoveNew,
         RenameBack, StartBack, UpdateEnds, UpdateAgent, Sums, Open, Download, Install, InstallFails, At
  <2>5. RolloutDone(r)
    BY <2>1, <2>3, <2>4 DEF Edit, Read, List, Put, At
  <2> QED BY <1>3, <2>5 DEF RolloutDone, Rolled
<1>4. I /\ [Next]_vars =>
        [\A r \in Requests :
           At(r, "wait") /\ req'[r].verdict = "success"
             => rollout.pods = Template(objects["deployment"].fields)]_vars
  BY <1>3
<1> HIDE DEF I
<1> QED BY <1>1, <1>2, <1>4, PTL DEF Spec, RolloutIsComplete

\* A request comes to its listing and its write from what it has read or listed.
LEMMA ComesToWatch ==
  ASSUME Coursed, [Next]_vars, NEW r \in Requests, req'[r] # req[r],
         req'[r].stage = "agent", req'[r].step \in {"list", "put"}
  PROVE  Read(r) \/ List(r)
<1>1. ~Bystand
  BY DEF Bystand, Aside, Watched
<1>2. ~Controller /\ ~AgentRestarts /\ ~UNCHANGED vars
  BY <1>1, StutterBystands, RestartBystands DEF Controller, ControllerObserves, ControllerFinishes, vars
<1>3. PICK q \in Requests : Acts(q)
  BY <1>2 DEF Next, Acts
<1>4. q = r
  BY <1>3, ActingTurns DEF TurnOf
<1>5. ~Send(r) /\ ~Relaying(r) /\ ~TimesOut(r) /\ ~CallFails(r) /\ ~CallHangs(r) /\ ~DownloadBreaks(r)
  BY <1>1, RelayingBystands, EndingBystands, HangBystands
<1>6. /\ ~SwitchReturns(r) /\ ~CallReturns(r) /\ ~BatchItem(r) /\ ~Applies(r) /\ ~BatchEnds(r)
      /\ ~LogBatch(r) /\ ~ForwardStarts(r) /\ ~ForwardStops(r) /\ ~UpdateContainer(r)
  BY <1>1, PlainBystands, UpdateBystands
<1>7. ~RolloutDone(r) /\ ~RolloutTimesOut(r) /\ ~Install(r) /\ ~InstallFails(r)
  BY <1>1, EndingBystands
<1>8. ~Dispatch(r)
  <2>1. Operation(req[r].kind, Type(r)) \notin {"list", "put"}
    BY DEF Operation
  <2>2. ~Answer(r, FALSE) \/ Stage(r) # "agent"
    BY <1>1, AnswerBystands
  <2> QED BY <2>1, <2>2, DispatchMoves DEF Moves
<1>9. ~Sums(r) /\ ~Open(r) /\ ~Download(r)
  <2>1. ~Moves(r, "open") /\ ~Moves(r, "download")
    BY DEF Moves
  <2> QED BY <2>1, UpdateMoves
<1>10. ~Put(r)
  <2>1. ~Moves(r, "wait") /\ ~Moves(r, "batch")
    BY DEF Moves
  <2>2. \A ok : Answer(r, ok) => Stage(r) # "agent"
    BY <1>1, AnswerBystands
  <2> QED BY <2>1, <2>2, WritesMoves DEF Put, At
<1> QED BY <1>3, <1>4, <1>5, <1>6, <1>7, <1>8, <1>9, <1>10 DEF Acts, Handle, Edit, UpdateAgent

\* The revision an undo has read, if nothing has changed since, is the current one;
\* what it is about to write is the revision that the strings compare as the greatest
\* of the others.
Others == DOMAIN rollout.sets \ {rollout.revision}
Chosen == <<rollout.sets[Greatest(Others)][1], rollout.sets[Greatest(Others)][2]>>
Choice(r) ==
  Type(r) = "k8s_rollout_undo" /\ req[r].seen.version = objects["deployment"].version =>
    /\ At(r, "list") => req[r].seen.revision = rollout.revision
    /\ At(r, "put") => Others # {} /\ Template(req[r].seen.fields) = Chosen
RightChoices == \A r \in Requests : Choice(r)

LEMMA UndoIsOfDeployment ==
  ASSUME NEW r, Type(r) = "k8s_rollout_undo"
  PROVE  EditOf(r) = "k8s_rollout_undo" /\ Kind(r) = "deployment"
<1>1. mapFrontendActionType(Type(r)) = "k8s_rollout_undo"
  BY DEF mapFrontendActionType
<1>2. "k8s_rollout_undo" \in Edits /\ "k8s_rollout_undo" \in DeploymentEdits \ NodeEdits
  BY DEF Edits, DeploymentEdits, NodeEdits
<1>3. EditedKind["k8s_rollout_undo"] = "deployment"
  BY <1>2 DEF EditedKind
<1> QED BY <1>1, <1>3 DEF EditOf, Kind

\* Whatever changes the deployment or its revisions gives it a new version.
LEMMA NewVersion ==
  ASSUME Versions, [Next]_vars
  PROVE  \/ objects'["deployment"] = objects["deployment"] /\ rollout' = rollout
         \/ /\ objects["deployment"].version \in Nat
            /\ objects'["deployment"].version = objects["deployment"].version + 1
<1>1. CASE UNCHANGED <<objects, rollout>>
  BY <1>1
<1>2. CASE Controller
  <2>1. Bump
    BY <1>2 DEF Controller, ControllerObserves, ControllerFinishes
  <2> QED BY <2>1, BumpKeeps
<1>3. ASSUME NEW p \in Requests, Put(p)
      PROVE  \/ objects'["deployment"] = objects["deployment"] /\ rollout' = rollout
             \/ /\ objects["deployment"].version \in Nat
                /\ objects'["deployment"].version = objects["deployment"].version + 1
  <2>1. CASE UNCHANGED kube
    BY <2>1 DEF kube
  <2>2. CASE Writes(p)
    <3>1. DOMAIN objects = NumberedKinds /\ objects["deployment"].version \in Nat
      BY DeploymentNumbered DEF Versions, Objects
    <3> DEFINE k == Kind(p)
               c == Changed(p)
    <3>2. /\ objects' = [objects EXCEPT ![k] = [version |-> @.version + 1, fields |-> c]]
          /\ k # "deployment" => rollout' = rollout
      BY <2>2 DEF Writes
    <3> HIDE DEF k, c
    <3>3. CASE k = "deployment"
      <4>1. objects'["deployment"].version = objects["deployment"].version + 1
        BY <3>1, <3>2, <3>3, DeploymentNumbered
      <4> QED BY <3>1, <4>1
    <3>4. CASE k # "deployment"
      BY <3>1, <3>2, <3>4, DeploymentNumbered
    <3> QED BY <3>3, <3>4
  <2> QED BY <1>3, <2>1, <2>2 DEF Put
<1> QED BY <1>1, <1>2, <1>3, AppliesOne, RolloutOnly

LEMMA ListChooses ==
  ASSUME Versions, NEW r \in Requests, List(r), req'[r].stage = "agent",
         Type(r) = "k8s_rollout_undo", req[r].seen.revision = rollout.revision
  PROVE  Others # {} /\ Template(req'[r].seen.fields) = Chosen
<1> DEFINE target == rollout.sets[Greatest(Others)]
<1>1. At(r, "list") /\ Stage(r) = "agent" /\ EditOf(r) \in Edits /\ ReadSoFar(r) /\ Coursed
  BY DEF List, At, Versions, Editing
<1>2. ~Answer(r, FALSE)
  <2>1. Answer(r, FALSE) => req'[r] = [req[r] EXCEPT !.stage = "answered", !.verdict = "failed", !.to = Browsers]
    BY <1>1 DEF Answer, Coursed, Shape
  <2> QED BY <1>1, <2>1 DEF Coursed, Shape, Fields
<1>3. /\ Others # {}
      /\ GotoWith(r, "put", [req[r].seen EXCEPT !.fields.image = target[1],
                                                !.fields.restartedAt = target[2]])
  BY <1>2 DEF List, Others
<1> HIDE DEF target
<1>4. req'[r].seen = [req[r].seen EXCEPT !.fields.image = target[1], !.fields.restartedAt = target[2]]
  BY <1>1, <1>3, SeenMoves
<1>5. DOMAIN req[r].seen = {"version", "fields", "revision"} /\ HasFields(req[r].seen.fields, "deployment")
  BY <1>1, UndoIsOfDeployment DEF ReadSoFar
<1>6. DOMAIN req[r].seen.fields = {"image", "restartedAt", "replicas"}
  BY <1>5 DEF HasFields, FieldsOf
<1>7. req'[r].seen.fields = [req[r].seen.fields EXCEPT !.image = target[1], !.restartedAt = target[2]]
  BY <1>4, <1>5
<1>8. Template(req'[r].seen.fields) = <<target[1], target[2]>>
  BY <1>6, <1>7 DEF Template
<1> QED BY <1>3, <1>8 DEF Chosen, target

\* An undo that has read knows the current revision.
LEMMA ReadKnows ==
  ASSUME Versions, NEW r \in Requests, Read(r), Type(r) = "k8s_rollout_undo"
  PROVE  /\ req'[r].step = "list" /\ rollout' = rollout
         /\ req'[r].seen.revision = rollout.revision
<1>1. GotoWith(r, "list", [version |-> objects[Kind(r)].version, fields |-> objects[Kind(r)].fields,
                           revision |-> rollout.revision])
  BY DEF Read
<1>2. Coursed /\ Stage(r) = "agent" /\ rollout' = rollout
  BY DEF Versions, Read, At, kube
<1>3. req'[r].step = "list" /\ req'[r].seen.revision = rollout.revision
  BY <1>1, <1>2, SeenMoves DEF Moves
<1> QED BY <1>2, <1>3

\* A request comes to its listing from what it has read.
LEMMA ComesToList ==
  ASSUME Versions, [Next]_vars, NEW r \in Requests, req'[r] # req[r],
         req'[r].stage = "agent", req'[r].step = "list"
  PROVE  Read(r)
<1>1. Read(r) \/ List(r)
  BY ComesToWatch DEF Versions
<1>2. ~List(r)
  <2>1. ASSUME List(r) PROVE Answer(r, FALSE) \/ Moves(r, "put")
    BY <2>1, SeenMoves DEF List, At, Versions
  <2>2. Answer(r, FALSE) => req'[r].stage = "answered"
    BY DEF Answer, Versions, Coursed, Shape, Fields
  <2> QED BY <2>1, <2>2 DEF Moves
<1> QED BY <1>1, <1>2

LEMMA RightChoicesStep ==
  ASSUME Versions, RightChoices, [Next]_vars
  PROVE  RightChoices'
<1> SUFFICES ASSUME NEW r \in Requests, Type(r)' = "k8s_rollout_undo",
                    req'[r].seen.version = objects'["deployment"].version,
                    req'[r].stage = "agent", req'[r].step \in {"list", "put"}
             PROVE  /\ req'[r].step = "list" => req'[r].seen.revision = rollout'.revision
                    /\ req'[r].step = "put" =>
                         (Others # {})' /\ Template(req'[r].seen.fields) = Chosen'
  BY DEF RightChoices, Choice, At, Stage
<1>1. Type(r) = "k8s_rollout_undo"
  BY AllOnward DEF Versions, Onward, Type
<1>2. EditOf(r) = "k8s_rollout_undo" /\ Kind(r) = "deployment"
  BY <1>1, UndoIsOfDeployment
<1>4. CASE req'[r] = req[r]
  <2>1. At(r, "list") \/ At(r, "put")
    BY <1>4 DEF At, Stage
  <2>2. req[r].seen.version \in Nat /\ req[r].seen.version <= objects["deployment"].version
    BY <1>2, <2>1 DEF Versions, ReadSoFar
  <2>3. objects'["deployment"] = objects["deployment"] /\ rollout' = rollout
    BY <1>4, <2>2, NewVersion
  <2>4. Choice(r) /\ req[r].seen.version = objects["deployment"].version
    BY <1>4, <2>3 DEF RightChoices
  <2> QED BY <1>1, <1>4, <2>1, <2>3, <2>4 DEF Choice, Chosen, Others, At
<1>5. CASE req'[r] # req[r] /\ req'[r].step = "list"
  <2>1. Read(r)
    BY <1>5, ComesToList
  <2> QED BY <1>1, <1>5, <2>1, ReadKnows
<1>6. CASE req'[r] # req[r] /\ req'[r].step = "put"
  <2>1. Read(r) \/ List(r)
    BY <1>6, ComesToWatch DEF Versions
  <2>2. ~Read(r)
    BY <1>1, <1>6, ReadKnows
  <2>3. At(r, "list") /\ Stage(r) = "agent" /\ Coursed /\ EditOf(r) \in Edits /\ ReadSoFar(r)
    BY <2>1, <2>2 DEF List, At, Versions, Editing
  <2>4. rollout' = rollout /\ objects' = objects
    BY <2>1, <2>2 DEF List, kube
  <2>5. req'[r].seen.version = req[r].seen.version
    <3>1. Answer(r, FALSE) => req'[r].stage = "answered"
      BY <2>3 DEF Answer, Coursed, Shape, Fields
    <3>2. PICK image, restartedAt :
            GotoWith(r, "put", [req[r].seen EXCEPT !.fields.image = image,
                                                   !.fields.restartedAt = restartedAt])
      BY <2>1, <2>2, <3>1 DEF List
    <3>3. req'[r].seen = [req[r].seen EXCEPT !.fields.image = image, !.fields.restartedAt = restartedAt]
      BY <2>3, <3>2, SeenMoves
    <3>4. DOMAIN req[r].seen = {"version", "fields", "revision"}
      BY <2>3 DEF ReadSoFar
    <3> QED BY <3>3, <3>4
  <2>6. req[r].seen.revision = rollout.revision
    BY <1>1, <2>3, <2>4, <2>5 DEF RightChoices, Choice
  <2> QED BY <1>1, <1>6, <2>1, <2>2, <2>4, <2>6, ListChooses DEF Chosen, Others
<1> QED BY <1>4, <1>5, <1>6

\* Decimal strings of different numbers compare one way or the other.
LEMMA StringsCompare ==
  ASSUME NEW m \in Nat, NEW n \in Nat, m # n
  PROVE  StringLess(m, n) \/ StringLess(n, m)
<1> DEFINE a == Digits(m)
           b == Digits(n)
<1>1. m \div 10 \in Nat /\ m % 10 \in Nat /\ n \div 10 \in Nat /\ n % 10 \in Nat
  OBVIOUS
<1>2. CASE m < 10 /\ n < 10
  <2>1. a = <<m>> /\ b = <<n>>
    BY <1>2 DEF Digits
  <2> QED BY <1>2, <2>1 DEF StringLess
<1>3. CASE m < 10 /\ ~(n < 10)
  <2>1. a = <<m>> /\ b = <<n \div 10, n % 10>>
    BY <1>3 DEF Digits
  <2>2. Len(a) = 1 /\ Len(b) = 2 /\ a[1] = m /\ b[1] = n \div 10
    BY <2>1
  <2> HIDE DEF a, b
  <2>3. a[1] \in Nat /\ b[1] \in Nat
    BY <1>1, <2>2
  <2> QED BY <2>2, <2>3 DEF StringLess, a, b
<1>4. CASE ~(m < 10) /\ n < 10
  <2>1. b = <<n>> /\ a = <<m \div 10, m % 10>>
    BY <1>4 DEF Digits
  <2>2. Len(b) = 1 /\ Len(a) = 2 /\ b[1] = n /\ a[1] = m \div 10
    BY <2>1
  <2> HIDE DEF a, b
  <2>3. a[1] \in Nat /\ b[1] \in Nat
    BY <1>1, <2>2
  <2> QED BY <2>2, <2>3 DEF StringLess, a, b
<1>5. CASE ~(m < 10) /\ ~(n < 10)
  <2>1. a = <<m \div 10, m % 10>> /\ b = <<n \div 10, n % 10>>
    BY <1>5 DEF Digits
  <2>2. /\ Len(a) = 2 /\ Len(b) = 2
        /\ a[1] = m \div 10 /\ a[2] = m % 10 /\ b[1] = n \div 10 /\ b[2] = n % 10
    BY <2>1
  <2> HIDE DEF a, b
  <2>3. a[1] \in Nat /\ b[1] \in Nat /\ a[2] \in Nat /\ b[2] \in Nat
    BY <1>1, <2>2
  <2>4. m \div 10 # n \div 10 \/ m % 10 # n % 10
    OBVIOUS
  <2>5. a[1] # b[1] \/ a[2] # b[2]
    BY <2>2, <2>4
  <2> QED BY <2>2, <2>3, <2>5 DEF StringLess, a, b
<1> QED BY <1>2, <1>3, <1>4, <1>5

\* When no other revision compares as a greater string than the last, the one that
\* RolloutUndo takes is the last.
LEMMA GreatestIsLast ==
  ASSUME NEW S \in SUBSET Nat, S # {}, NEW b \in Nat, \A v \in S : v <= b,
         \A v \in S : ~StringLess(Max(S), v)
  PROVE  Greatest(S) = Max(S) /\ Max(S) \in S
<1>1. Max(S) \in S
  BY GreatestNatural
<1> DEFINE m == Max(S)
<1> HIDE DEF m
<1>2. m \in S /\ m \in Nat /\ \A v \in S : ~StringLess(m, v)
  BY <1>1 DEF m
<1>3. \A w \in S \ {m} : StringLess(w, m)
  BY <1>2, StringsCompare
<1>4. \A v \in S : (\A w \in S \ {v} : StringLess(w, v)) => v = m
  BY <1>2
<1>5. Greatest(S) = m
  BY <1>2, <1>3, <1>4 DEF Greatest
<1> QED BY <1>1, <1>5 DEF m

\* kubernetes.go, RolloutUndo: an undo that is accepted brings back the revision
\* before the current one, if the controller had caught up when it was written and
\* no older revision compares as a greater string: nothing that happens between the
\* read, the listing and the write makes it another one.
THEOREM UndoGoesToTheLast == Spec => UndoGoesBack
<1> DEFINE I == Rolled /\ Versions /\ Silent /\ RightChoices
<1>1. Init => I
  <2> SUFFICES ASSUME Init PROVE I
    OBVIOUS
  <2>1. RightChoices
    BY CoursedInit DEF RightChoices, Choice, At
  <2> QED BY <2>1, RolledInit, VersionsInit, SilentInit
<1>2. I /\ [Next]_vars => I'
  BY RolledStep, VersionsStep, SilentStep, RightChoicesStep DEF Versions
<1>3. ASSUME I, [Next]_vars, NEW r \in Requests, At(r, "put"), Type(r) = "k8s_rollout_undo",
             req'[r].verdict = "success", \A v \in Others : ~StringLess(Max(Others), v)
      PROVE  Template(objects'["deployment"].fields) = rollout.sets[Max(Others)]
  <2>1. Stage(r) = "agent" /\ req[r].step = "put"
    BY <1>3 DEF At
  <2>2. Handle(r)
    BY <1>3, <2>1, SucceedsByHandler DEF Versions
  <2>3. Edit(r)
    BY <2>1, <2>2 DEF Handle, Dispatch, SwitchReturns, CallReturns, BatchItem, Applies, BatchEnds, LogBatch,
         ForwardStarts, ForwardStops, UpdateContainer, Inspect, Pull, Stop, Rename, Create, Start, RemoveOld, RemoveNew,
         RenameBack, StartBack, UpdateEnds, UpdateAgent, Sums, Open, Download, Install, InstallFails, At
  <2>4. Put(r)
    BY <2>1, <2>3 DEF Edit, Read, List, RolloutDone, RolloutTimesOut, At
  <2>5. ~Answer(r, FALSE)
    <3>1. Answer(r, FALSE) =>
            req'[r] = [req[r] EXCEPT !.stage = "answered", !.verdict = "failed", !.to = Browsers]
      BY <1>3 DEF Answer, Versions, Coursed, Shape
    <3> QED BY <1>3, <3>1 DEF Versions, Coursed, Shape, Fields
  <2>6. objects[Kind(r)].version = req[r].seen.version /\ Writes(r)
    BY <2>4, <2>5 DEF Put
  <2>7. EditOf(r) = "k8s_rollout_undo" /\ Kind(r) = "deployment"
    BY <1>3, UndoIsOfDeployment
  <2>8. Others # {} /\ Template(req[r].seen.fields) = Chosen
    BY <1>3, <2>6, <2>7 DEF RightChoices, Choice
  <2>9. Changed(r) = req[r].seen.fields
    BY <2>7 DEF Changed, EditOf
  <2>10. objects'["deployment"].fields = req[r].seen.fields
    <3> DEFINE c == Changed(r)
    <3>1. objects' = [objects EXCEPT !["deployment"] = [version |-> @.version + 1, fields |-> c]]
      BY <2>6, <2>7 DEF Writes
    <3>2. DOMAIN objects = NumberedKinds
      BY <1>3 DEF Versions, Objects
    <3> HIDE DEF c
    <3>3. objects'["deployment"].fields = c
      BY <3>1, <3>2, DeploymentNumbered
    <3> QED BY <2>9, <3>3 DEF c
  <2>11. PICK b \in Nat : \A v \in DOMAIN rollout.sets : v <= b
    BY <1>3 DEF Rolled
  <2>12. Others \in SUBSET Nat /\ \A v \in Others : v <= b
    BY <1>3, <2>11 DEF Rolled, Others
  <2>13. Greatest(Others) = Max(Others) /\ Max(Others) \in Others
    BY <1>3, <2>8, <2>12, GreatestIsLast
  <2>14. Chosen = rollout.sets[Max(Others)]
    BY <1>3, <2>13 DEF Rolled, Chosen, Others
  <2> QED BY <2>8, <2>10, <2>14
<1>4. I /\ [Next]_vars =>
        [\A r \in Requests :
           LET past == DOMAIN rollout.sets \ {rollout.revision} IN
             /\ At(r, "put") /\ Type(r) = "k8s_rollout_undo" /\ req'[r].verdict = "success"
             /\ rollout.observed = rollout.generation
             /\ \A v \in past : ~StringLess(Max(past), v)
             => Template(objects'["deployment"].fields) = rollout.sets[Max(past)]]_vars
  BY <1>3 DEF Others
<1> HIDE DEF I
<1> QED BY <1>1, <1>2, <1>4, PTL DEF Spec, UndoGoesBack

-----------------------------------------------------------------------------
\* Containers, and the image updates of them.

\* Containers are told apart by their names and by the requests that made them.
Told(cs) ==
  /\ \A c \in cs :
       /\ c = [id |-> c.id, name |-> c.name, image |-> c.id, up |-> c.up]
       /\ c.name \in Nat /\ c.up \in BOOLEAN /\ c.id \in Requests \cup {None}
  /\ \A c, d \in cs : c.name = d.name \/ c.id = d.id => c = d

OneUp(cs) == \A c, d \in cs : c.up /\ d.up => c = d

\* The steps at which the new container may be there.
MadeSteps == {"start", "removeOld", "removeNew", "renameBack", "startBack", "updated", "failed",
              "hung"}
Made(q) == Stage(q) \notin {"unsent", "hub"} /\ (Stage(q) = "agent" => req[q].step \in MadeSteps)

Boxed ==
  /\ Told(box) /\ (ports => OneUp(box))
  /\ \A c \in box : c.id \in Requests => Made(c.id)

Working(q) == Stage(q) = "agent" /\ req[q].step \in UpdatingSteps
Stuck(q) == Stage(q) = "agent" /\ req[q].step = "hung"

\* What is asked is offered, what operates has been touched, an image update knows
\* the name of a container, and its target is not the container it makes.
Asking(q) ==
  /\ <<req[q].kind, req[q].type>> \in Asks
  /\ Operating(q) /\ req[q].step # "logs" => q \in touched
  /\ Working(q) \/ At(q, "inspect") => Type(q) = "docker_update_container_image"
  /\ Working(q) => Name(q) \in Nat
  /\ Type(q) # "update_agent" => req[q].target # q

\* What a change of one container makes of them.
Edited(o, name, up) == [o EXCEPT !.name = name, !.up = up]
Replaced(cs, o, name, up) == (cs \ {o}) \cup {Edited(o, name, up)}

LEMMA ReplacedTold ==
  ASSUME NEW cs, Told(cs), NEW o \in cs, NEW name \in Nat, NEW up \in BOOLEAN,
         \A c \in cs \ {o} : c.name # name
  PROVE  Told(Replaced(cs, o, name, up))
<1> DEFINE n == [o EXCEPT !.name = name, !.up = up]
<1>1. PICK i \in Requests \cup {None}, m \in Nat, u \in BOOLEAN : o = [id |-> i, name |-> m, image |-> i, up |-> u]
  BY DEF Told
<1>2. n = [id |-> i, name |-> name, image |-> i, up |-> up] /\ o.id = i
  <2>1. DOMAIN n = {"id", "name", "image", "up"} /\ n.id = i /\ n.name = name /\ n.image = i /\ n.up = up
    BY <1>1
  <2>2. n = [f \in DOMAIN n |-> n[f]]
    OBVIOUS
  <2> HIDE DEF n
  <2> QED BY <1>1, <2>1, <2>2
<1>3. n.id = o.id /\ n.name = name /\ n.up = up /\ n = [id |-> n.id, name |-> n.name, image |-> n.id, up |-> n.up]
  BY <1>2
<1> HIDE DEF n
<1>4. \A c \in cs \ {o} : c.name # n.name /\ c.id # n.id
  BY <1>3 DEF Told
<1>5. Told((cs \ {o}) \cup {n})
  <2>1. \A c \in (cs \ {o}) \cup {n} :
          /\ c = [id |-> c.id, name |-> c.name, image |-> c.id, up |-> c.up]
          /\ c.name \in Nat /\ c.up \in BOOLEAN /\ c.id \in Requests \cup {None}
    BY <1>1, <1>3 DEF Told
  <2>2. \A c, d \in (cs \ {o}) \cup {n} : c.name = d.name \/ c.id = d.id => c = d
    BY <1>4 DEF Told
  <2> QED BY <2>1, <2>2 DEF Told
<1> QED BY <1>5 DEF Replaced, Edited, n

Those(id) == {c \in box : c.id = id}

\* Starting, stopping and renaming change at most the one container that is meant.
LEMMA SettingOne ==
  ASSUME Told(box), NEW id, NEW cs, cs = Those(id), NEW up
  PROVE  \/ cs = {} /\ Setting(cs, up) = box
         \/ \E o \in box : /\ o.id = id /\ (\A c \in cs : c = o)
                           /\ Setting(cs, up) = Replaced(box, o, o.name, up)
<1>1. CASE cs = {}
  BY <1>1 DEF Setting
<1>2. CASE cs # {}
  <2>1. PICK o \in box : o.id = id
    BY <1>2 DEF Those
  <2>2. cs = {o}
    BY <2>1 DEF Told, Those
  <2>3. o = [id |-> o.id, name |-> o.name, image |-> o.id, up |-> o.up]
    BY DEF Told
  <2>4. [o EXCEPT !.name = o.name, !.up = up] = [o EXCEPT !.up = up]
    BY <2>3
  <2>5. Setting(cs, up) = (box \ {o}) \cup {[o EXCEPT !.up = up]}
    BY <2>2 DEF Setting
  <2>6. Setting(cs, up) = Replaced(box, o, o.name, up)
    BY <2>4, <2>5 DEF Replaced, Edited
  <2>7. \A c \in cs : c = o
    BY <2>2
  <2> QED BY <2>1, <2>6, <2>7
<1> QED BY <1>1, <1>2

LEMMA RenamingOne ==
  ASSUME Told(box), NEW r, NEW name
  PROVE  \/ Old(r) = {} /\ Renaming(r, name) = box
         \/ \E o \in box : /\ o.id = req[r].target /\ (\A c \in Old(r) : c = o)
                           /\ Renaming(r, name) = Replaced(box, o, name, o.up)
<1>1. CASE Old(r) = {}
  BY <1>1 DEF Renaming
<1>2. CASE Old(r) # {}
  <2>1. PICK o \in box : o.id = req[r].target
    BY <1>2 DEF Old
  <2>2. Old(r) = {o}
    BY <2>1 DEF Told, Old
  <2>3. o = [id |-> o.id, name |-> o.name, image |-> o.id, up |-> o.up]
    BY DEF Told
  <2>4. [o EXCEPT !.name = name, !.up = o.up] = [o EXCEPT !.name = name]
    BY <2>3
  <2>5. Renaming(r, name) = (box \ {o}) \cup {[o EXCEPT !.name = name]}
    BY <2>2 DEF Renaming
  <2>6. Renaming(r, name) = Replaced(box, o, name, o.up)
    BY <2>4, <2>5 DEF Replaced, Edited
  <2>7. \A c \in Old(r) : c = o
    BY <2>2
  <2> QED BY <2>1, <2>6, <2>7
<1> QED BY <1>1, <1>2

\* No action the clients offer has the name that the executor gives the image update.
LEMMA NotOffered == \A kind, type : <<kind, type>> \in Asks => type # "docker_update_image"
<1>1. \A k \in DOMAIN OfContainers : "docker_update_image" \notin OfContainers[k]
  BY DEF OfContainers
<1>2. \A k \in DOMAIN OfWorkloads : "docker_update_image" \notin OfWorkloads[k]
  BY DEF OfWorkloads, Workload
<1>3. \A k \in DOMAIN OfOthers : "docker_update_image" \notin OfOthers[k]
  BY DEF OfOthers
<1>4. ASSUME NEW offered, \A k \in DOMAIN offered : "docker_update_image" \notin offered[k],
             NEW kind, NEW type, <<kind, type>> \in AsksOf(offered)
      PROVE  type # "docker_update_image"
  BY <1>4 DEF AsksOf
<1> HIDE DEF OfContainers, OfWorkloads, OfOthers
<1> QED BY <1>1, <1>2, <1>3, <1>4 DEF Asks

\* Answered is answered.
LEMMA AnswerAnswers ==
  ASSUME Coursed, NEW r \in Requests, NEW ok, Answer(r, ok)
  PROVE  /\ req'[r].stage = "answered" /\ (req'[r].verdict = IF ok THEN "success" ELSE "failed")
         /\ req'[r].target = req[r].target /\ req'[r].seen = req[r].seen
<1>1. req'[r] = [req[r] EXCEPT !.stage = "answered", !.verdict = IF ok THEN "success" ELSE "failed",
                               !.to = Browsers]
  BY DEF Answer, Coursed, Shape
<1> QED BY <1>1 DEF Coursed, Shape, Fields

\* Only its own calls take an image update from one step to another.
LEMMA PlainSteps ==
  ASSUME Coursed, NEW r \in Requests,
         \/ SwitchReturns(r) \/ CallReturns(r) \/ BatchItem(r) \/ Applies(r) \/ BatchEnds(r) \/ LogBatch(r)
         \/ ForwardStarts(r) \/ ForwardStops(r)
  PROVE  req'[r].stage # "agent" \/ req'[r].step = req[r].step
<1>1. ASSUME NEW ok, Answer(r, ok)
      PROVE  req'[r].stage # "agent"
  BY <1>1, AnswerAnswers
<1>2. ASSUME NEW left, req' = [req EXCEPT ![r].left = left]
      PROVE  req'[r].step = req[r].step
  <2>1. req'[r] = [req[r] EXCEPT !.left = left]
    BY <1>2 DEF Coursed, Shape
  <2> QED BY <2>1 DEF Coursed, Shape, Fields
<1>3. CASE SwitchReturns(r) \/ CallReturns(r)
  BY <1>1, <1>2, <1>3 DEF SwitchReturns, CallReturns
<1>4. CASE BatchItem(r) \/ Applies(r)
  <2>1. CASE req' = [req EXCEPT ![r].left = @ - 1]
    BY <1>2, <2>1
  <2>2. CASE req' = [req EXCEPT ![r].left = @ - 1, ![r].seen = "applied"]
    <3>1. req'[r] = [req[r] EXCEPT !.left = @ - 1, !.seen = "applied"]
      BY <2>2 DEF Coursed, Shape
    <3> QED BY <3>1 DEF Coursed, Shape, Fields
  <2> QED BY <1>4, <2>1, <2>2 DEF BatchItem, Applies
<1>5. CASE LogBatch(r)
  BY <1>1, <1>2, <1>5 DEF LogBatch
<1>6. CASE BatchEnds(r) \/ ForwardStarts(r) \/ ForwardStops(r)
  BY <1>1, <1>6 DEF BatchEnds, ForwardStarts, ForwardStops
<1> QED BY <1>3, <1>4, <1>5, <1>6

LEMMA EditSteps ==
  ASSUME Coursed, NEW r \in Requests, Edit(r)
  PROVE  req'[r].stage # "agent" \/ req'[r].step \in {"list", "put", "wait", "batch"}
<1>1. Stage(r) = "agent"
  BY DEF Edit, Read, List, Put, RolloutDone, RolloutTimesOut, At
<1>2. ASSUME NEW ok, Answer(r, ok)
      PROVE  req'[r].stage # "agent"
  BY <1>2, AnswerAnswers
<1>3. ASSUME NEW s, NEW seen, GotoWith(r, s, seen)
      PROVE  req'[r].step = s
  BY <1>1, <1>3, SeenMoves DEF Moves
<1>4. CASE Read(r)
  <2>1. \E s \in {"list", "put"} : \E seen : GotoWith(r, s, seen)
    BY <1>4 DEF Read
  <2> QED BY <1>3, <2>1
<1>5. CASE List(r)
  <2>1. ASSUME NEW seen, GotoWith(r, "put", seen)
        PROVE  req'[r].step = "put"
    BY <1>3, <2>1
  <2> QED BY <1>2, <1>5, <2>1 DEF List
<1>6. CASE Put(r)
  <2>1. At(r, "put") /\ (Writes(r) \/ Answer(r, FALSE))
    BY <1>6 DEF Put
  <2> QED BY <1>2, <2>1, WritesMoves DEF Moves
<1>7. CASE RolloutDone(r) \/ RolloutTimesOut(r)
  BY <1>2, <1>7 DEF RolloutDone, RolloutTimesOut
<1> QED BY <1>4, <1>5, <1>6, <1>7 DEF Edit

LEMMA AgentSteps ==
  ASSUME Coursed, NEW r \in Requests, UpdateAgent(r) \/ CallFails(r) \/ DownloadBreaks(r)
  PROVE  req'[r].stage # "agent" \/ req'[r].step \in {"open", "download"}
<1>1. CASE Sums(r) \/ Open(r) \/ Download(r)
  BY <1>1, UpdateMoves DEF Moves
<1>2. CASE Install(r) \/ InstallFails(r) \/ DownloadBreaks(r) \/ CallFails(r)
  <2>1. \E ok \in BOOLEAN : Answer(r, ok)
    BY <1>2 DEF Install, InstallFails, DownloadBreaks, RemovesAndFails, CallFails
  <2> QED BY <2>1, AnswerAnswers
<1> QED BY <1>1, <1>2 DEF UpdateAgent

LEMMA WorkIsOwn ==
  ASSUME Coursed, [Next]_vars, NEW r \in Requests, req'[r] # req[r],
         Stage(r) = "agent", req'[r].stage = "agent", req'[r].step # "hung",
         \/ req[r].step \in UpdatingSteps \cup {"inspect"}
         \/ req'[r].step \in UpdatingSteps \cup {"inspect"}
  PROVE  \/ UpdateContainer(r)
         \/ /\ Dispatch(r) /\ req'[r].step = "inspect"
            /\ Operation(req[r].kind, Type(r)) = "inspect"
<1>1. req'[r].stage # "cut"
  OBVIOUS
<1>2. ~AgentRestarts
  <2>1. AgentRestarts => req'[r] = [req[r] EXCEPT !.stage = "cut"]
    BY DEF AgentRestarts
  <2> QED BY <1>1, <2>1 DEF Coursed, Shape, Fields
<1>3. ~Controller /\ ~UNCHANGED vars
  BY DEF Controller, ControllerObserves, ControllerFinishes, vars
<1>4. PICK p \in Requests : Acts(p)
  BY <1>2, <1>3 DEF Next, Acts
<1>5. p = r
  BY <1>4, ActingTurns DEF TurnOf
<1>6. ~Send(r) /\ ~Relaying(r) /\ ~TimesOut(r)
  BY DEF Send, Relaying, HubRejects, HubForwards, Deliver, TimesOut
<1>7. ~CallFails(r) /\ ~CallHangs(r) /\ ~DownloadBreaks(r)
  <2>1. \A ok : ~Answer(r, ok)
    BY AnswerAnswers
  <2>2. ~Goto(r, "hung")
    BY GotoCourse
  <2> QED BY <2>1, <2>2 DEF CallFails, CallHangs, DownloadBreaks, RemovesAndFails
<1>8. ASSUME \/ SwitchReturns(r) \/ CallReturns(r) \/ BatchItem(r) \/ Applies(r) \/ BatchEnds(r) \/ LogBatch(r)
             \/ ForwardStarts(r) \/ ForwardStops(r)
      PROVE  FALSE
  <2>1. req[r].step \notin UpdatingSteps \cup {"inspect"}
    BY <1>8 DEF SwitchReturns, CallReturns, BatchItem, Applies, BatchEnds, LogBatch, ForwardStarts, ForwardStops, At, UpdatingSteps
  <2> QED BY <1>8, <2>1, PlainSteps
<1>9. ASSUME Edit(r) PROVE FALSE
  <2>1. req[r].step \notin UpdatingSteps \cup {"inspect"}
    BY <1>9 DEF Edit, Read, List, Put, RolloutDone, RolloutTimesOut, At, UpdatingSteps
  <2> QED BY <1>9, <2>1, EditSteps DEF UpdatingSteps
<1>10. ASSUME UpdateAgent(r) PROVE FALSE
  <2>1. req[r].step \notin UpdatingSteps \cup {"inspect"}
    BY <1>10 DEF UpdateAgent, Sums, Open, Download, Install, InstallFails, At, UpdatingSteps
  <2> QED BY <1>10, <2>1, AgentSteps DEF UpdatingSteps
<1>11. ASSUME Dispatch(r)
       PROVE  /\ req'[r].step = "inspect"
              /\ Operation(req[r].kind, Type(r)) = "inspect"
  <2> DEFINE op == Operation(req[r].kind, Type(r))
  <2>1. op \notin UpdatingSteps
    BY DEF Operation, UpdatingSteps
  <2>2. req[r].step = "arrived"
    BY <1>11, DispatchMoves
  <2>3. ~Answer(r, FALSE)
    BY AnswerAnswers
  <2> HIDE DEF op
  <2>4. Moves(r, op)
    BY <1>11, <2>3, DispatchMoves DEF op
  <2> QED BY <2>1, <2>2, <2>4 DEF Moves, UpdatingSteps, op
<1> QED BY <1>4, <1>5, <1>6, <1>7, <1>8, <1>9, <1>10, <1>11 DEF Acts, Handle

\* The forms of the calls: from one step to the next, or to the one for its failure.
LEMMA ContainerSteps ==
  ASSUME Coursed, NEW r \in Requests, UpdateContainer(r)
  PROVE  /\ Stage(r) = "agent" /\ req[r].step \in UpdatingSteps \cup {"inspect"}
         /\ \A q \in Requests \ {r} : req'[q] = req[q]
         /\ req'[r].target = req[r].target /\ (req[r].step # "inspect" => Name(r)' = Name(r))
         /\ \/ req'[r].stage = "answered" /\ box' = box /\ faults' = faults
               /\ req[r].step \in {"inspect", "updated", "failed"}
            \/ /\ req'[r].stage = "agent" /\ req'[r].step \in UpdatingSteps
               /\ req[r].step \in MadeSteps => req'[r].step \in MadeSteps
         /\ UNCHANGED <<ports, crossed, touched>>
<1>1. TurnOf(r)
  BY ContainerTurns
<1>2. \A q \in Requests \ {r} : req'[q] = req[q]
  BY <1>1 DEF TurnOf
<1>3. ASSUME NEW s \in UpdatingSteps, At(r, s), NEW n \in UpdatingSteps, Goto(r, n),
             s \in MadeSteps => n \in MadeSteps
      PROVE  /\ Stage(r) = "agent" /\ req[r].step \in UpdatingSteps
             /\ req'[r].target = req[r].target /\ Name(r)' = Name(r)
             /\ req'[r].stage = "agent" /\ req'[r].step \in UpdatingSteps
             /\ req[r].step \in MadeSteps => req'[r].step \in MadeSteps
  BY <1>3, GotoCourse DEF Fields, At, Name
<1>4. ASSUME NEW s \in UpdatingSteps, At(r, s), NEW refused, NEW effect,
             NEW next \in UpdatingSteps, NEW onError \in UpdatingSteps,
             DockerCall(r, refused, effect, next, onError),
             s \in MadeSteps => next \in MadeSteps /\ onError \in MadeSteps
      PROVE  /\ Stage(r) = "agent" /\ req[r].step \in UpdatingSteps
             /\ req'[r].target = req[r].target /\ Name(r)' = Name(r)
             /\ req'[r].stage = "agent" /\ req'[r].step \in UpdatingSteps
             /\ req[r].step \in MadeSteps => req'[r].step \in MadeSteps
             /\ UNCHANGED <<ports, crossed, touched>>
  <2>1. (Goto(r, next) \/ Goto(r, onError)) /\ UNCHANGED <<ports, crossed, touched>>
    BY <1>4 DEF DockerCall
  <2> QED BY <1>3, <1>4, <2>1
<1>5. CASE Inspect(r)
  <2>1. Stage(r) = "agent" /\ req[r].step = "inspect" /\ UNCHANGED <<box, faults, ports, crossed, touched>>
    BY <1>5 DEF Inspect, At, docker
  <2>2. CASE Answer(r, FALSE)
    BY <1>2, <2>1, <2>2, AnswerAnswers
  <2>3. ASSUME NEW c \in Old(r), GotoWith(r, "pull", c.name)
        PROVE  req'[r].stage = "agent" /\ req'[r].step = "pull" /\ req'[r].target = req[r].target
    <3>1. req'[r] = [req[r] EXCEPT !.step = "pull", !.seen = c.name]
      BY <2>3 DEF GotoWith, Coursed, Shape
    <3> QED BY <2>1, <3>1 DEF Coursed, Shape, Fields, Stage
  <2> QED BY <1>2, <1>5, <2>1, <2>2, <2>3 DEF Inspect, UpdatingSteps, MadeSteps
<1>6. CASE Pull(r)
  <2>1. At(r, "pull") /\ Goto(r, "stop") /\ UNCHANGED <<ports, crossed, touched>>
    BY <1>6 DEF Pull, docker
  <2> QED BY <1>2, <1>3, <2>1 DEF UpdatingSteps, MadeSteps
<1>7. CASE Stop(r)
  <2>1. At(r, "stop") /\ \E refused, effect : DockerCall(r, refused, effect, "rename", "rename")
    BY <1>7 DEF Stop
  <2>2. /\ {"stop", "rename", "rename"} \subseteq UpdatingSteps
        /\ "stop" \in MadeSteps => {"rename", "rename"} \subseteq MadeSteps
    BY DEF UpdatingSteps, MadeSteps
  <2> QED BY <1>2, <1>4, <2>1, <2>2
<1>8. CASE Rename(r)
  <2>1. At(r, "rename") /\ \E refused, effect : DockerCall(r, refused, effect, "create", "create")
    BY <1>8 DEF Rename
  <2>2. /\ {"rename", "create", "create"} \subseteq UpdatingSteps
        /\ "rename" \in MadeSteps => {"create", "create"} \subseteq MadeSteps
    BY DEF UpdatingSteps, MadeSteps
  <2> QED BY <1>2, <1>4, <2>1, <2>2
<1>9. CASE Create(r)
  <2>1. At(r, "create") /\ \E refused, effect : DockerCall(r, refused, effect, "start", "renameBack")
    BY <1>9 DEF Create
  <2>2. /\ {"create", "start", "renameBack"} \subseteq UpdatingSteps
        /\ "create" \in MadeSteps => {"start", "renameBack"} \subseteq MadeSteps
    BY DEF UpdatingSteps, MadeSteps
  <2> QED BY <1>2, <1>4, <2>1, <2>2
<1>10. CASE Start(r)
  <2>1. At(r, "start") /\ \E refused, effect : DockerCall(r, refused, effect, "removeOld", "removeNew")
    BY <1>10 DEF Start
  <2>2. /\ {"start", "removeOld", "removeNew"} \subseteq UpdatingSteps
        /\ "start" \in MadeSteps => {"removeOld", "removeNew"} \subseteq MadeSteps
    BY DEF UpdatingSteps, MadeSteps
  <2> QED BY <1>2, <1>4, <2>1, <2>2
<1>11. CASE RemoveOld(r)
  <2>1. At(r, "removeOld") /\ \E refused, effect : DockerCall(r, refused, effect, "updated", "updated")
    BY <1>11 DEF RemoveOld
  <2>2. /\ {"removeOld", "updated", "updated"} \subseteq UpdatingSteps
        /\ "removeOld" \in MadeSteps => {"updated", "updated"} \subseteq MadeSteps
    BY DEF UpdatingSteps, MadeSteps
  <2> QED BY <1>2, <1>4, <2>1, <2>2
<1>12. CASE RemoveNew(r)
  <2>1. At(r, "removeNew") /\ \E refused, effect : DockerCall(r, refused, effect, "renameBack", "renameBack")
    BY <1>12 DEF RemoveNew
  <2>2. /\ {"removeNew", "renameBack", "renameBack"} \subseteq UpdatingSteps
        /\ "removeNew" \in MadeSteps => {"renameBack", "renameBack"} \subseteq MadeSteps
    BY DEF UpdatingSteps, MadeSteps
  <2> QED BY <1>2, <1>4, <2>1, <2>2
<1>13. CASE RenameBack(r)
  <2>1. At(r, "renameBack") /\ \E refused, effect : DockerCall(r, refused, effect, "startBack", "startBack")
    BY <1>13 DEF RenameBack
  <2>2. /\ {"renameBack", "startBack", "startBack"} \subseteq UpdatingSteps
        /\ "renameBack" \in MadeSteps => {"startBack", "startBack"} \subseteq MadeSteps
    BY DEF UpdatingSteps, MadeSteps
  <2> QED BY <1>2, <1>4, <2>1, <2>2
<1>14. CASE StartBack(r)
  <2>1. At(r, "startBack") /\ \E refused, effect : DockerCall(r, refused, effect, "failed", "failed")
    BY <1>14 DEF StartBack
  <2>2. /\ {"startBack", "failed", "failed"} \subseteq UpdatingSteps
        /\ "startBack" \in MadeSteps => {"failed", "failed"} \subseteq MadeSteps
    BY DEF UpdatingSteps, MadeSteps
  <2> QED BY <1>2, <1>4, <2>1, <2>2
<1>15. CASE UpdateEnds(r)
  <2>1. /\ Stage(r) = "agent" /\ req[r].step \in {"updated", "failed"}
        /\ UNCHANGED <<box, faults, ports, crossed, touched>>
        /\ \E ok \in BOOLEAN : Answer(r, ok)
    BY <1>15 DEF UpdateEnds, Operating, docker
  <2> QED BY <1>2, <2>1, AnswerAnswers DEF UpdatingSteps, Name
<1> QED BY <1>5, <1>6, <1>7, <1>8, <1>9, <1>10, <1>11, <1>12, <1>13, <1>14, <1>15 DEF UpdateContainer

\* A call that hangs is ended by a restart alone.
LEMMA HungStays ==
  ASSUME Coursed, [Next]_vars, NEW q \in Requests, Stuck(q)
  PROVE  req'[q] = req[q] \/ req'[q].stage = "cut"
<1> SUFFICES ASSUME req'[q] # req[q], req'[q].stage # "cut" PROVE FALSE
  OBVIOUS
<1>0. Stage(q) = "agent" /\ req[q].step = "hung"
  BY DEF Stuck
<1>1. ~AgentRestarts
  <2>1. AgentRestarts => req'[q] = [req[q] EXCEPT !.stage = "cut"]
    BY <1>0 DEF AgentRestarts
  <2> QED BY <2>1 DEF Coursed, Shape, Fields
<1>2. ~Controller /\ ~UNCHANGED vars
  BY DEF Controller, ControllerObserves, ControllerFinishes, vars
<1>3. PICK p \in Requests : Acts(p)
  BY <1>1, <1>2 DEF Next, Acts
<1>4. p = q
  BY <1>3, ActingTurns DEF TurnOf
<1>5. ~Send(q) /\ ~Relaying(q) /\ ~TimesOut(q)
  BY <1>0 DEF Send, Relaying, HubRejects, HubForwards, Deliver, TimesOut
<1>6. ~CallFails(q) /\ ~CallHangs(q) /\ ~DownloadBreaks(q)
  BY <1>0 DEF CallFails, CallHangs, DownloadBreaks, EndingSteps, UntimedSteps, At
<1>7. ~(Dispatch(q) \/ SwitchReturns(q) \/ CallReturns(q) \/ BatchItem(q) \/ Applies(q) \/ BatchEnds(q)
        \/ LogBatch(q) \/ ForwardStarts(q) \/ ForwardStops(q))
  BY <1>0 DEF Dispatch, SwitchReturns, CallReturns, BatchItem, Applies, BatchEnds, LogBatch, ForwardStarts,
       ForwardStops, At
<1>8. ~Edit(q) /\ ~UpdateAgent(q)
  BY <1>0 DEF Edit, Read, List, Put, RolloutDone, RolloutTimesOut, UpdateAgent, Sums, Open, Download,
       Install, InstallFails, At
<1>9. ~UpdateContainer(q)
  BY <1>0, ContainerSteps DEF UpdatingSteps
<1> QED BY <1>3, <1>4, <1>5, <1>6, <1>7, <1>8, <1>9 DEF Acts, Handle

\* What is asked of the agent, and by whom.
LEMMA AskingInit == Init => \A q \in Requests : Asking(q)
<1> SUFFICES ASSUME Init, NEW q \in Requests PROVE Asking(q)
  OBVIOUS
<1>1. PICK asks \in Menus, from \in [Requests -> Browsers] :
        req = [r \in Requests |->
          [kind |-> asks[r][1], type |-> asks[r][2], from |-> from[r], stage |-> "unsent",
           step |-> "arrived", verdict |-> None, target |-> None, seen |-> None, left |-> 0,
           to |-> {}]]
  BY DEF Init
<1>2. asks[q] \in Asks
  BY ActionsAssumption
<1>3. \A a \in Asks : a = <<a[1], a[2]>>
  <2>1. ASSUME NEW offered, NEW a \in AsksOf(offered) PROVE a = <<a[1], a[2]>>
    BY <2>1 DEF AsksOf
  <2> QED BY <2>1 DEF Asks
<1>4. <<req[q].kind, req[q].type>> \in Asks
  <2>1. req[q].kind = asks[q][1] /\ req[q].type = asks[q][2]
    BY <1>1
  <2> QED BY <1>2, <1>3, <2>1
<1>5. req[q].stage = "unsent" /\ req[q].target = None
  BY <1>1
<1>6. q # None
  BY ActionsAssumption
<1> QED BY <1>4, <1>5, <1>6 DEF Asking, Operating, Working, At, Stage

LEMMA TouchedGrows ==
  ASSUME Coursed, [Next]_vars, NEW q \in Requests,
         Operating(q) /\ req[q].step # "logs" => q \in touched
  PROVE  touched \subseteq touched' /\ (Operating(q)' /\ req'[q].step # "logs" => q \in touched')
<1>1. touched \subseteq touched'
  BY HubWritesOnly DEF Dispatch
<1>2. ASSUME req'[q].stage = "agent", req'[q].step # "arrived", req'[q].step # "logs"
      PROVE  q \in touched'
  <2>1. CASE req'[q] = req[q]
    BY <1>1, <1>2, <2>1 DEF Operating, Stage
  <2>2. CASE req'[q] # req[q]
    <3>1. Turns(q)
      BY AllTurns
    <3>2. Stage(q) = "agent" /\ Begins(q)
      BY <1>2, <2>2, <3>1 DEF Turns, Keeps, Fields, Coursed, Fresh, Stage
    <3>3. CASE Dispatch(q)
      <4> DEFINE op == Operation(req[q].kind, Type(q))
      <4>1. ~Answer(q, FALSE)
        BY <1>2, AnswerAnswers
      <4> HIDE DEF op
      <4>2. op # "refused" /\ Moves(q, op)
        BY <3>3, <4>1, DispatchMoves DEF op, Dispatch
      <4>3. op # "logs"
        BY <1>2, <4>2 DEF Moves
      <4> QED BY <3>3, <4>2, <4>3 DEF Dispatch, op
    <3>4. CASE ~Dispatch(q)
      BY <1>1, <1>2, <3>2, <3>4 DEF Begins, Operating
    <3> QED BY <3>3, <3>4
  <2> QED BY <2>1, <2>2
<1> QED BY <1>1, <1>2 DEF Operating, Stage

LEMMA AskingStep ==
  ASSUME Verified, Boxed, \A q \in Requests : Asking(q), [Next]_vars
  PROVE  \A q \in Requests : Asking(q)'
<1> SUFFICES ASSUME NEW q \in Requests PROVE Asking(q)'
  OBVIOUS
<1>0. Coursed /\ Asking(q)
  BY DEF Verified
<1>1. Coursed' /\ req'[q].type = req[q].type /\ req'[q].kind = req[q].kind
  BY <1>0, AllOnward DEF Onward
<1>2. <<req'[q].kind, req'[q].type>> \in Asks
  BY <1>0, <1>1 DEF Asking
<1>3. Operating(q)' /\ req'[q].step # "logs" => q \in touched'
  BY <1>0, TouchedGrows DEF Asking
<1>4. Turns(q)
  BY <1>0, AllTurns
<1>5. ASSUME Stage(q) = "agent", req'[q].stage = "agent", req'[q] # req[q],
             req'[q].step \in UpdatingSteps \cup {"inspect"}
      PROVE  /\ Type(q) = "docker_update_container_image"
             /\ req'[q].step \in UpdatingSteps => Name(q)' \in Nat
  <2>1. CASE UpdateContainer(q)
    <3>1. req[q].step \in UpdatingSteps \cup {"inspect"} /\ (req[q].step # "inspect" => Name(q)' = Name(q))
      BY <1>0, <2>1, ContainerSteps
    <3>2. Type(q) = "docker_update_container_image"
      BY <1>0, <1>5, <3>1 DEF Asking, Working, At
    <3>3. CASE req[q].step # "inspect"
      BY <1>0, <1>5, <3>1, <3>2, <3>3 DEF Asking, Working
    <3>4. CASE req[q].step = "inspect"
      <4>1. Inspect(q)
        BY <2>1, <3>4 DEF UpdateContainer, Inspect, Pull, Stop, Rename, Create, Start, RemoveOld,
             RemoveNew, RenameBack, StartBack, UpdateEnds, At
      <4>2. ~Answer(q, FALSE)
        BY <1>0, <1>5, AnswerAnswers
      <4>3. PICK c \in Old(q) : GotoWith(q, "pull", c.name)
        BY <4>1, <4>2 DEF Inspect
      <4>4. req'[q] = [req[q] EXCEPT !.step = "pull", !.seen = c.name]
        BY <1>0, <4>3 DEF GotoWith, Coursed, Shape
      <4>5. req'[q].seen = c.name
        BY <1>0, <4>4 DEF Coursed, Shape, Fields
      <4>6. c.name \in Nat
        BY <4>3 DEF Old, Boxed, Told
      <4> QED BY <3>2, <4>5, <4>6 DEF Name
    <3> QED BY <3>2, <3>3, <3>4
  <2>2. CASE ~UpdateContainer(q)
    <3>0. req'[q].step # "hung"
      BY <1>5 DEF UpdatingSteps
    <3>1. req'[q].step = "inspect" /\ Operation(req[q].kind, Type(q)) = "inspect"
      BY <1>0, <1>5, <2>2, <3>0, WorkIsOwn
    <3>2. mapFrontendActionType(Type(q)) = "docker_update_image"
      BY <3>1 DEF Operation
    <3>3. Type(q) # "docker_update_image"
      BY <1>0, NotOffered DEF Asking, Type
    <3>4. Type(q) = "docker_update_container_image"
      BY <3>2, <3>3 DEF mapFrontendActionType
    <3>5. "inspect" \notin UpdatingSteps
      BY DEF UpdatingSteps
    <3> QED BY <3>1, <3>4, <3>5
  <2> QED BY <2>1, <2>2
<1>6. ASSUME req'[q].stage = "agent", req'[q].step \in UpdatingSteps \cup {"inspect"}
      PROVE  /\ Type(q)' = "docker_update_container_image"
             /\ req'[q].step \in UpdatingSteps => Name(q)' \in Nat
  <2>1. CASE req'[q] = req[q]
    BY <1>0, <1>6, <2>1 DEF Asking, Working, At, Stage, Type, Name
  <2>2. CASE req'[q] # req[q]
    <3>1. "arrived" \notin UpdatingSteps
      BY DEF UpdatingSteps
    <3>2. Stage(q) = "agent"
      BY <1>0, <1>4, <1>6, <2>2, <3>1 DEF Turns, Keeps, Fields, Coursed, Fresh, Stage
    <3> QED BY <1>1, <1>5, <1>6, <2>2, <3>2 DEF Type
  <2> QED BY <2>1, <2>2
<1>7. Type(q)' # "update_agent" => req'[q].target # q
  <2> SUFFICES ASSUME Type(q) # "update_agent" PROVE req'[q].target # q
    BY <1>1 DEF Type
  <2>1. req[q].target # q
    BY <1>0 DEF Asking
  <2>2. ASSUME NEW c \in box, Stage(q) = "unsent", req'[q].target = c.id
        PROVE  c.id # q
    BY <2>2 DEF Boxed, Made
  <2>3. ~(Stage(q) = "agent" /\ req[q].step = "open")
    BY DEF Verified, Updating, UpdateSteps
  <2> QED BY <1>4, <2>1, <2>2, <2>3 DEF Turns, Keeps, Fields
<1>8. Working(q)' \/ At(q, "inspect")' => Type(q)' = "docker_update_container_image"
  BY <1>6 DEF Working, At, Stage
<1>9. Working(q)' => Name(q)' \in Nat
  BY <1>6 DEF Working, Stage
<1> QED BY <1>2, <1>3, <1>7, <1>8, <1>9 DEF Asking

LEMMA ReplacedFields ==
  ASSUME NEW cs, Told(cs), NEW o \in cs, NEW name, NEW up
  PROVE  LET n == Edited(o, name, up)
         IN  n.id = o.id /\ n.name = name /\ n.up = up
<1>1. o = [id |-> o.id, name |-> o.name, image |-> o.id, up |-> o.up]
  BY DEF Told
<1> QED BY <1>1 DEF Edited

\* What a call of an image update may do to the containers.
Changes(r, o, name, up) ==
  /\ box' = Replaced(box, o, name, up)
  /\ o.id \in {req[r].target, r}
  /\ \A c \in box \ {o} : c.name # name
  /\ up => o.up \/ (ports => \A c \in box \ {o} : ~c.up)
Makes(r) ==
  /\ At(r, "create") /\ req'[r].stage = "agent" /\ req'[r].step = "start"
  /\ box' = box \cup {[id |-> r, name |-> Name(r), image |-> r, up |-> FALSE]}
  /\ \A c \in box : c.name # Name(r)
Removes(r) == \E i \in {req[r].target, r} : box' = {c \in box : c.id # i}

LEMMA SettingChanges ==
  ASSUME Told(box), NEW r, NEW id \in {req[r].target, r}, NEW cs, cs = Those(id),
         NEW up \in BOOLEAN, box' = Setting(cs, up), up => ~CannotStart(cs)
  PROVE  box' = box \/ \E o \in box, name \in Nat, u \in BOOLEAN : Changes(r, o, name, u)
<1>1. CASE Setting(cs, up) = box
  BY <1>1
<1>2. ASSUME NEW o \in box, o.id = id, \A c \in cs : c = o,
             Setting(cs, up) = Replaced(box, o, o.name, up)
      PROVE  \E n \in Nat, u \in BOOLEAN : Changes(r, o, n, u)
  <2>1. o.name \in Nat /\ \A c \in box \ {o} : c.name # o.name
    BY DEF Told
  <2>2. up => (ports => \A c \in box \ {o} : ~c.up)
    BY <1>2 DEF CannotStart
  <2>3. Changes(r, o, o.name, up)
    BY <1>2, <2>1, <2>2 DEF Changes
  <2> QED BY <2>1, <2>3
<1> QED BY <1>1, <1>2, SettingOne

LEMMA RenamingChanges ==
  ASSUME Told(box), NEW r, NEW name \in Nat, box' = Renaming(r, name), ~Taken(name, Old(r))
  PROVE  box' = box \/ \E o \in box, n \in Nat, u \in BOOLEAN : Changes(r, o, n, u)
<1>1. CASE Renaming(r, name) = box
  BY <1>1
<1>2. ASSUME NEW o \in box, o.id = req[r].target, \A c \in Old(r) : c = o,
             Renaming(r, name) = Replaced(box, o, name, o.up)
      PROVE  \E n \in Nat, u \in BOOLEAN : Changes(r, o, n, u)
  <2>1. o.up \in BOOLEAN
    BY DEF Told
  <2>2. Changes(r, o, name, o.up)
    BY <1>2 DEF Changes, Taken
  <2> QED BY <2>1, <2>2
<1> QED BY <1>1, <1>2, RenamingOne

LEMMA ContainerChanges ==
  ASSUME Coursed, Told(box), NEW r \in Requests, Working(r) => Name(r) \in Nat, UpdateContainer(r)
  PROVE  \/ box' = box
         \/ \E o \in box, name \in Nat, up \in BOOLEAN : Changes(r, o, name, up)
         \/ Makes(r)
         \/ Removes(r)
<1>0. Old(r) = Those(req[r].target) /\ New(r) = Those(r)
  BY DEF Old, New, Those
<1>1. ASSUME NEW s \in UpdatingSteps, At(r, s)
      PROVE  Name(r) \in Nat /\ Name(r) + 1 \in Nat
  BY <1>1 DEF Working, At
<1>2. CASE Inspect(r) \/ Pull(r) \/ UpdateEnds(r)
  BY <1>2 DEF Inspect, Pull, UpdateEnds, docker
<1>3. CASE Stop(r)
  <2>1. box' = box \/ box' = Setting(Old(r), FALSE)
    BY <1>3 DEF Stop, DockerCall
  <2> QED BY <1>0, <2>1, SettingChanges
<1>4. CASE Rename(r)
  <2>1. box' = box \/ (~Taken(Name(r) + 1, Old(r)) /\ box' = Renaming(r, Name(r) + 1))
    BY <1>4 DEF Rename, DockerCall
  <2>2. Name(r) + 1 \in Nat
    BY <1>1, <1>4 DEF Rename, UpdatingSteps
  <2> QED BY <2>1, <2>2, RenamingChanges
<1>5. CASE Create(r)
  <2>1. \/ box' = box
        \/ /\ ~Taken(Name(r), {}) /\ Goto(r, "start")
           /\ box' = box \cup {[id |-> r, name |-> Name(r), image |-> r, up |-> FALSE]}
    BY <1>5 DEF Create, DockerCall
  <2>2. At(r, "create") /\ Stage(r) = "agent"
    BY <1>5 DEF Create, At
  <2>3. Goto(r, "start") => req'[r].stage = "agent" /\ req'[r].step = "start"
    BY <2>2, GotoCourse
  <2> QED BY <2>1, <2>2, <2>3 DEF Makes, Taken
<1>6. CASE Start(r)
  <2>1. box' = box \/ (~CannotStart(New(r)) /\ box' = Setting(New(r), TRUE))
    BY <1>6 DEF Start, DockerCall
  <2> QED BY <1>0, <2>1, SettingChanges
<1>7. CASE StartBack(r)
  <2>1. box' = box \/ (~CannotStart(Old(r)) /\ box' = Setting(Old(r), TRUE))
    BY <1>7 DEF StartBack, DockerCall
  <2> QED BY <1>0, <2>1, SettingChanges
<1>8. CASE RemoveOld(r)
  <2>1. box' = box \/ box' = box \ Old(r)
    BY <1>8 DEF RemoveOld, DockerCall
  <2>2. box \ Old(r) = {c \in box : c.id # req[r].target}
    BY DEF Old
  <2> QED BY <2>1, <2>2 DEF Removes
<1>9. CASE RemoveNew(r)
  <2>1. box' = box \/ box' = box \ New(r)
    BY <1>9 DEF RemoveNew, DockerCall
  <2>2. box \ New(r) = {c \in box : c.id # r}
    BY DEF New
  <2> QED BY <2>1, <2>2 DEF Removes
<1>10. CASE RenameBack(r)
  <2>1. box' = box \/ (~Taken(Name(r), Old(r)) /\ box' = Renaming(r, Name(r)))
    BY <1>10 DEF RenameBack, DockerCall
  <2>2. Name(r) \in Nat
    BY <1>1, <1>10 DEF RenameBack, UpdatingSteps
  <2> QED BY <2>1, <2>2, RenamingChanges
<1> QED BY <1>2, <1>3, <1>4, <1>5, <1>6, <1>7, <1>8, <1>9, <1>10 DEF UpdateContainer

\* Docker's state changes by the calls of image updates and of plain actions alone.
LEMMA DockerOnly ==
  ASSUME [Next]_vars
  PROVE  /\ ports' = ports /\ (crossed => crossed') /\ faults' \in {faults, faults + 1}
         /\ box' = box \/ \E r \in Requests : UpdateContainer(r) \/ SwitchReturns(r)
<1>1. ASSUME NEW r \in Requests, Send(r) \/ Relaying(r) \/ TimesOut(r) \/ Dispatch(r)
      PROVE  UNCHANGED <<box, ports, faults>> /\ (crossed => crossed')
  <2>1. Send(r) \/ Relaying(r) \/ TimesOut(r) => UNCHANGED <<box, ports, crossed, faults>>
    BY DEF Send, Relaying, HubRejects, HubForwards, Deliver, TimesOut, docker
  <2>2. CASE Dispatch(r)
    BY <2>2 DEF Dispatch
  <2> QED BY <1>1, <2>1, <2>2
<1>2. ASSUME NEW r \in Requests,
             \/ CallReturns(r) \/ BatchItem(r) \/ Applies(r) \/ BatchEnds(r) \/ LogBatch(r) \/ ForwardStarts(r)
             \/ ForwardStops(r) \/ CallFails(r) \/ CallHangs(r) \/ DownloadBreaks(r)
      PROVE  UNCHANGED <<box, ports, crossed>> /\ faults' \in {faults, faults + 1}
  BY <1>2 DEF CallReturns, BatchItem, Applies, BatchEnds, LogBatch, ForwardStarts, ForwardStops, CallFails,
              CallHangs, DownloadBreaks, RemovesAndFails, Fault, docker
<1>3. ASSUME NEW r \in Requests, SwitchReturns(r)
      PROVE  UNCHANGED <<ports, crossed, faults>>
  BY <1>3 DEF SwitchReturns
<1>4. ASSUME NEW r \in Requests, UpdateContainer(r)
      PROVE  UNCHANGED <<ports, crossed>> /\ faults' \in {faults, faults + 1}
  <2>1. ASSUME NEW refused, NEW effect, NEW next, NEW onError, DockerCall(r, refused, effect, next, onError)
        PROVE  UNCHANGED <<ports, crossed>> /\ faults' \in {faults, faults + 1}
    BY <2>1 DEF DockerCall, Fault
  <2>2. CASE Inspect(r) \/ Pull(r) \/ UpdateEnds(r)
    BY <2>2 DEF Inspect, Pull, UpdateEnds, docker
  <2>3. CASE Stop(r) \/ Rename(r) \/ Create(r) \/ Start(r)
    BY <2>1, <2>3 DEF Stop, Rename, Create, Start
  <2>4. CASE RemoveOld(r) \/ RemoveNew(r) \/ RenameBack(r) \/ StartBack(r)
    BY <2>1, <2>4 DEF RemoveOld, RemoveNew, RenameBack, StartBack
  <2> QED BY <1>4, <2>2, <2>3, <2>4 DEF UpdateContainer
<1>5. ASSUME NEW r \in Requests, Edit(r) \/ UpdateAgent(r)
      PROVE  UNCHANGED <<box, ports, crossed, faults>>
  <2>1. CASE Read(r) \/ Put(r) \/ RolloutDone(r) \/ RolloutTimesOut(r)
    BY <2>1 DEF Read, Put, RolloutDone, RolloutTimesOut, docker
  <2>2. CASE List(r)
    BY <2>2 DEF List, docker
  <2>3. CASE UpdateAgent(r)
    BY <2>3 DEF UpdateAgent, Sums, Open, Download, Install, InstallFails, RemovesAndFails, docker
  <2> QED BY <1>5, <2>1, <2>2, <2>3 DEF Edit
<1>6. CASE Controller \/ AgentRestarts \/ UNCHANGED vars
  <2>1. CASE ControllerObserves
    BY <2>1 DEF ControllerObserves, docker
  <2>2. CASE ControllerFinishes
    BY <2>2 DEF ControllerFinishes, docker
  <2>3. CASE AgentRestarts
    BY <2>3 DEF AgentRestarts, docker
  <2>4. CASE UNCHANGED vars
    BY <2>4 DEF vars, docker
  <2> QED BY <1>6, <2>1, <2>2, <2>3, <2>4 DEF Controller
<1> QED BY <1>1, <1>2, <1>3, <1>4, <1>5, <1>6 DEF Next, Handle

LEMMA MadeStays ==
  ASSUME Coursed, [Next]_vars, NEW q \in Requests, Made(q)
  PROVE  Made(q)'
<1>1. Turns(q)
  BY AllTurns
<1>2. ASSUME Stage(q) = "agent", req'[q].stage = "agent", req'[q] # req[q]
      PROVE  req'[q].step \in MadeSteps
  <2> SUFFICES ASSUME req'[q].step # "hung" PROVE req'[q].step \in MadeSteps
    BY DEF MadeSteps
  <2>0. ~Stuck(q)
    BY <1>2, HungStays
  <2>1. req[q].step \in MadeSteps /\ req[q].step \in UpdatingSteps /\ req[q].step # "inspect"
    BY <1>2, <2>0 DEF Made, MadeSteps, UpdatingSteps, Stuck
  <2>2. ~Dispatch(q)
    BY <2>1 DEF Dispatch, At, MadeSteps
  <2>3. UpdateContainer(q)
    BY <1>2, <2>1, <2>2, WorkIsOwn
  <2> QED BY <1>2, <2>1, <2>3, ContainerSteps
<1> QED BY <1>1, <1>2 DEF Made, Turns, Keeps, Fields, Stage

LEMMA BoxedInit == Init => Boxed
BY ActionsAssumption DEF Init, Boxed, Told, OneUp

LEMMA BoxedStep ==
  ASSUME Coursed, Boxed, \A q \in Requests : Asking(q), [Next]_vars
  PROVE  Boxed'
<1>1. ports' = ports /\ (box' = box \/ \E r \in Requests : UpdateContainer(r) \/ SwitchReturns(r))
  BY DockerOnly
<1>2. \A q \in Requests : Made(q) => Made(q)'
  BY MadeStays
<1>3. ASSUME Told(box'), ports => OneUp(box'), \A c \in box' : c.id \in Requests => Made(c.id)'
      PROVE  Boxed'
  BY <1>1, <1>3 DEF Boxed
<1>4. CASE box' = box
  BY <1>2, <1>3, <1>4 DEF Boxed
<1>5. ASSUME NEW r \in Requests, NEW o \in box, NEW name \in Nat, NEW up \in BOOLEAN, Changes(r, o, name, up)
      PROVE  Boxed'
  <2>1. box' = Replaced(box, o, name, up) /\ Told(box)
    BY <1>5 DEF Changes, Boxed
  <2>2. Told(box')
    BY <1>5, <2>1, ReplacedTold DEF Changes
  <2>3. PICK n : n = Edited(o, name, up)
    OBVIOUS
  <2>4. n.id = o.id /\ n.up = up
    BY <2>1, <2>3, ReplacedFields
  <2>5. \A c \in box' : c = n \/ c \in box \ {o}
    BY <2>1, <2>3 DEF Replaced
  <2>6. ports => OneUp(box')
    <3>1. ASSUME ports, NEW c \in box \ {o}, c.up, n.up PROVE FALSE
      BY <1>5, <2>4, <3>1 DEF Changes, Boxed, OneUp
    <3> QED BY <2>5, <3>1 DEF Boxed, OneUp
  <2>7. \A c \in box' : c.id \in Requests => Made(c.id)'
    BY <1>2, <2>4, <2>5 DEF Boxed
  <2> QED BY <1>3, <2>2, <2>6, <2>7
<1>6. ASSUME NEW r \in Requests, UpdateContainer(r), box' # box
      PROVE  Boxed'
  <2>1. Working(r) => Name(r) \in Nat
    BY DEF Asking
  <2>3. CASE Makes(r)
    <3>1. PICK n : n = [id |-> r, name |-> Name(r), image |-> r, up |-> FALSE]
      OBVIOUS
    <3>2. n.id = r /\ n.name = Name(r) /\ ~n.up /\ n.up \in BOOLEAN
          /\ n = [id |-> n.id, name |-> n.name, image |-> n.id, up |-> n.up]
      BY <3>1
    <3>3. box' = box \cup {n} /\ \A c \in box : c.name # Name(r)
      BY <2>3, <3>1 DEF Makes
    <3>4. Stage(r) = "agent" /\ req[r].step = "create"
      BY <2>3 DEF Makes, At
    <3>5. Name(r) \in Nat
      BY <2>1, <3>4 DEF Working, UpdatingSteps
    <3>6. \A c \in box : c.id # r
      BY <3>4 DEF Boxed, Made, MadeSteps
    <3>7. Told(box')
      <4>1. \A c \in box' :
              /\ c = [id |-> c.id, name |-> c.name, image |-> c.id, up |-> c.up]
              /\ c.name \in Nat /\ c.up \in BOOLEAN /\ c.id \in Requests \cup {None}
        BY <3>2, <3>3, <3>5 DEF Boxed, Told
      <4>2. \A c, d \in box' : c.name = d.name \/ c.id = d.id => c = d
        BY <3>2, <3>3, <3>6 DEF Boxed, Told
      <4> QED BY <4>1, <4>2 DEF Told
    <3>8. ports => OneUp(box')
      BY <3>2, <3>3 DEF Boxed, OneUp
    <3>9. Made(r)'
      BY <2>3 DEF Makes, Made, MadeSteps, Stage
    <3>10. \A c \in box' : c.id \in Requests => Made(c.id)'
      BY <1>2, <3>2, <3>3, <3>9 DEF Boxed
    <3> QED BY <1>3, <3>7, <3>8, <3>10
  <2>4. CASE Removes(r)
    <3>1. box' \subseteq box
      BY <2>4 DEF Removes
    <3>2. Told(box') /\ (ports => OneUp(box'))
      BY <3>1 DEF Boxed, Told, OneUp
    <3>3. \A c \in box' : c.id \in Requests => Made(c.id)'
      BY <1>2, <3>1 DEF Boxed
    <3> QED BY <1>3, <3>2, <3>3
  <2>5. Told(box)
    BY DEF Boxed
  <2> QED BY <1>5, <1>6, <2>1, <2>3, <2>4, <2>5, ContainerChanges
<1>7. ASSUME NEW r \in Requests, SwitchReturns(r), box' # box
      PROVE  Boxed'
  <2>1. PICK up \in BOOLEAN : box' = Setting(Old(r), up) /\ (up => ~CannotStart(Old(r)))
    <3>1. Switches[Type(r)] \in BOOLEAN
      BY <1>7 DEF SwitchReturns, Switches
    <3> QED BY <1>7, <3>1 DEF SwitchReturns
  <2>2. Old(r) = Those(req[r].target) /\ Told(box)
    BY DEF Old, Those, Boxed
  <2>3. \E o \in box, name \in Nat, u \in BOOLEAN : Changes(r, o, name, u)
    BY <1>7, <2>1, <2>2, SettingChanges
  <2> QED BY <1>5, <2>3
<1> QED BY <1>1, <1>4, <1>6, <1>7

\* No two image updates overlapped, none was cut off or hangs, and nobody switched a
\* container.
Calm ==
  /\ ~crossed
  /\ \A r \in Requests :
       /\ Stage(r) # "cut" /\ (r \in touched => Type(r) \notin DOMAIN Switches)
       /\ ~(Stuck(r) /\ Type(r) = "docker_update_container_image")

LEMMA CalmBefore ==
  ASSUME Coursed, [Next]_vars, Calm'
  PROVE  Calm
<1>1. ~crossed
  BY DockerOnly DEF Calm
<1>2. ASSUME NEW r \in Requests
      PROVE  /\ Stage(r) # "cut" /\ (r \in touched => Type(r) \notin DOMAIN Switches)
             /\ ~(Stuck(r) /\ Type(r) = "docker_update_container_image")
  <2>1. /\ req'[r].stage # "cut" /\ (r \in touched' => req'[r].type \notin DOMAIN Switches)
        /\ ~(Stuck(r)' /\ req'[r].type = "docker_update_container_image")
    BY DEF Calm, Stage, Type
  <2>2. Stage(r) # "cut"
    <3>1. Turns(r)
      BY AllTurns
    <3> QED BY <2>1, <3>1 DEF Turns, Stage
  <2>3. touched \subseteq touched'
    BY HubWritesOnly DEF Dispatch
  <2>4. req'[r].type = req[r].type
    BY AllOnward DEF Onward
  <2>5. Stuck(r) => Stuck(r)'
    BY <2>1, HungStays DEF Stuck, Stage
  <2> QED BY <2>1, <2>2, <2>3, <2>4, <2>5 DEF Type
<1> QED BY <1>1, <1>2 DEF Calm

LEMMA CalmBox ==
  ASSUME Calm, \A q \in Requests : Asking(q), [Next]_vars, box' # box
  PROVE  \E r \in Requests : UpdateContainer(r)
<1>1. ASSUME NEW r \in Requests, SwitchReturns(r)
      PROVE  FALSE
  <2>1. Type(r) \in DOMAIN Switches
    BY <1>1 DEF SwitchReturns
  <2>2. Operating(r) /\ req[r].step # "logs"
    BY <1>1 DEF SwitchReturns, At, Operating
  <2> QED BY <2>1, <2>2 DEF Asking, Calm
<1> QED BY <1>1, DockerOnly

\* At most one image update is under way.
LEMMA OneWorks ==
  ASSUME Calm, Alone, \A q \in Requests : Asking(q),
         NEW p \in Requests, NEW q \in Requests,
         Working(p) \/ At(p, "inspect"), Working(q) \/ At(q, "inspect")
  PROVE  p = q
<1>1. ASSUME NEW r \in Requests, Working(r) \/ At(r, "inspect")
      PROVE  Operating(r) /\ Type(r) = "docker_update_container_image"
  BY <1>1 DEF Asking, Working, At, Operating, UpdatingSteps
<1> QED BY <1>1 DEF Alone, Calm, Replaces

\* An image update goes on by its own calls, unless the pull fails or a call hangs.
LEMMA WorkStays ==
  ASSUME Coursed, [Next]_vars, NEW q \in Requests, ~UpdateContainer(q), Working(q), Stage(q)' # "cut",
         ~Stuck(q)'
  PROVE  \/ req'[q] = req[q]
         \/ /\ req'[q].stage = "answered" /\ req[q].step = "pull" /\ box' = box
            /\ faults' = faults + 1 /\ \A p \in Requests \ {q} : req'[p] = req[p]
<1> SUFFICES ASSUME req'[q] # req[q]
             PROVE  /\ req'[q].stage = "answered" /\ req[q].step = "pull" /\ box' = box
                    /\ faults' = faults + 1 /\ \A p \in Requests \ {q} : req'[p] = req[p]
  OBVIOUS
<1>0. Stage(q) = "agent" /\ req[q].step \in UpdatingSteps
  BY DEF Working
<1>1. req'[q].stage = "answered"
  <2>1. req'[q].stage # "agent"
    <3> SUFFICES ASSUME req'[q].stage = "agent" PROVE FALSE
      OBVIOUS
    <3>1. Dispatch(q)
      BY <1>0, WorkIsOwn DEF Stuck, Stage
    <3> QED BY <1>0, <3>1 DEF Dispatch, At, UpdatingSteps
  <2>2. Turns(q)
    BY AllTurns
  <2> QED BY <1>0, <2>1, <2>2 DEF Turns, Stage
<1>2. ~AgentRestarts
  <2>1. AgentRestarts => req'[q] = [req[q] EXCEPT !.stage = "cut"]
    BY <1>0 DEF AgentRestarts
  <2> QED BY <1>1, <2>1 DEF Coursed, Shape, Fields
<1>3. ~Controller /\ ~UNCHANGED vars
  BY DEF Controller, ControllerObserves, ControllerFinishes, vars
<1>4. PICK p \in Requests : Acts(p)
  BY <1>2, <1>3 DEF Next, Acts
<1>5. p = q /\ \A r \in Requests \ {q} : req'[r] = req[r]
  BY <1>4, ActingTurns DEF TurnOf
<1>6. ~Send(q) /\ ~Relaying(q) /\ ~TimesOut(q)
  BY <1>0 DEF Send, Relaying, HubRejects, HubForwards, Deliver, TimesOut
<1>7. ~Handle(q) /\ ~CallHangs(q) /\ ~DownloadBreaks(q)
  <2>1. ~(Dispatch(q) \/ SwitchReturns(q) \/ CallReturns(q) \/ BatchItem(q) \/ Applies(q) \/ BatchEnds(q)
          \/ LogBatch(q) \/ ForwardStarts(q) \/ ForwardStops(q))
    BY <1>0 DEF Dispatch, SwitchReturns, CallReturns, BatchItem, Applies, BatchEnds, LogBatch, ForwardStarts,
         ForwardStops, At, UpdatingSteps
  <2>2. ~Edit(q)
    BY <1>0 DEF Edit, Read, List, Put, RolloutDone, RolloutTimesOut, At, UpdatingSteps
  <2>3. ~UpdateAgent(q) /\ ~DownloadBreaks(q)
    BY <1>0 DEF UpdateAgent, Sums, Open, Download, Install, InstallFails, DownloadBreaks, At, UpdatingSteps
  <2>4. ~CallHangs(q)
    <3>1. CallHangs(q) => Goto(q, "hung")
      BY DEF CallHangs
    <3> QED BY <1>0, <1>1, <3>1, GotoCourse
  <2> QED BY <2>1, <2>2, <2>3, <2>4 DEF Handle
<1>8. CallFails(q)
  BY <1>4, <1>5, <1>6, <1>7 DEF Acts
<1>9. req[q].step = "pull"
  BY <1>0, <1>8 DEF CallFails, EndingSteps, UpdatingSteps
<1>10. box' = box /\ faults' = faults + 1
  BY <1>8 DEF CallFails, Fault, docker
<1> QED BY <1>1, <1>5, <1>9, <1>10

\* None begins to work but by its own call.
LEMMA WorkBegins ==
  ASSUME Coursed, [Next]_vars, NEW q \in Requests, ~UpdateContainer(q), Working(q)'
  PROVE  req'[q] = req[q] /\ Working(q)
<1>0. req'[q].stage = "agent" /\ req'[q].step \in UpdatingSteps
  BY DEF Working, Stage
<1>1. req'[q] = req[q]
  <2> SUFFICES ASSUME req'[q] # req[q] PROVE FALSE
    OBVIOUS
  <2>1. CASE Stage(q) = "agent"
    <3>1. req'[q].step = "inspect"
      BY <1>0, <2>1, WorkIsOwn DEF UpdatingSteps
    <3> QED BY <1>0, <3>1 DEF UpdatingSteps
  <2>2. CASE Stage(q) # "agent"
    <3>1. Turns(q)
      BY AllTurns
    <3>2. Stage(q) = "hub" /\ req'[q].step = req[q].step
      BY <1>0, <2>2, <3>1 DEF Turns, Keeps, Fields
    <3> QED BY <1>0, <3>2 DEF Coursed, Fresh, UpdatingSteps
  <2> QED BY <2>1, <2>2
<1> QED BY <1>0, <1>1 DEF Working, Stage

LEMMA SuccessStays ==
  ASSUME Coursed, Silent, [Next]_vars, NEW q \in Requests, req[q].verdict = "success"
  PROVE  req'[q].verdict = "success"
<1>1. Turns(q)
  BY AllTurns
<1>2. Stage(q) \notin {"unsent", "hub", "agent"}
  BY ActionsAssumption DEF Silent
<1> QED BY <1>1, <1>2 DEF Turns, Keeps, Fields

-----------------------------------------------------------------------------
\* An image update of the container called 0, call by call.

\* Where the containers are: under its name one runs, and no other is there
\* before a call has failed.
Rest ==
  /\ \E c \in box : c.name = 0 /\ c.up
  /\ faults = 0 => \A c, d \in box : c = d

OldIs(q, names, ups) == \E c \in box : c.id = req[q].target /\ c.name \in names /\ c.up \in ups
NewIs(q, up) == \E c \in box : c.id = q /\ c.name = 0 /\ c.up = up
Lone(q) == faults = 0 => \A c \in box : c.id = req[q].target
Both(q) == faults = 0 => \A c \in box : c.id \in {req[q].target, q}
Free(q) == \A c \in box : c.name = 0 => c.id = req[q].target
Only(q) == ports => \A c \in box : c.up => c.id = req[q].target

\* The update is of another container, which an update that failed has left behind.
Elsewhere(q) ==
  faults = 1 /\ \E c \in box : c.name = 0 /\ c.up /\ c.id \notin {req[q].target, q}

\* What each call finds.
Here(q) ==
  LET s == req[q].step IN
  /\ s \in {"pull", "stop"} => OldIs(q, {0}, {TRUE}) /\ Lone(q) /\ Only(q)
  /\ s = "rename" => /\ OldIs(q, {0}, BOOLEAN) /\ (faults = 0 => OldIs(q, {0}, {FALSE}))
                     /\ Lone(q) /\ Only(q)
  /\ s = "create" => /\ OldIs(q, {0, 1}, BOOLEAN) /\ (faults = 0 => OldIs(q, {1}, {FALSE}))
                     /\ Lone(q) /\ Only(q) /\ Free(q)
  /\ s = "start" => /\ NewIs(q, FALSE) /\ OldIs(q, {1}, BOOLEAN) /\ (faults = 0 => OldIs(q, {1}, {FALSE}))
                    /\ Both(q) /\ Only(q)
  /\ s = "removeOld" => NewIs(q, TRUE) /\ Both(q)
  /\ s = "updated" => NewIs(q, TRUE) /\ (faults = 0 => \A c \in box : c.id = q)
  /\ s = "removeNew" => faults = 1 /\ NewIs(q, FALSE) /\ OldIs(q, {1}, BOOLEAN) /\ Only(q)
  /\ s = "renameBack" => faults = 1 /\ OldIs(q, {0, 1}, BOOLEAN) /\ Free(q) /\ Only(q)
  /\ s = "startBack" => faults = 1 /\ OldIs(q, {0}, BOOLEAN) /\ Only(q)
  /\ s = "failed" => faults = 1 /\ OldIs(q, {0}, {TRUE})

\* A container that runs the image of an update: the update succeeded, or is about to.
Proven ==
  \A c \in box : c.id \in Requests =>
    \/ req[c.id].verdict = "success"
    \/ Stage(c.id) = "agent" /\ \/ req[c.id].step \in {"start", "removeNew"} /\ ~c.up
                                \/ req[c.id].step \in {"removeOld", "updated"}

LEMMA GoesTo ==
  ASSUME Coursed, NEW r \in Requests, NEW s, At(r, s), NEW t, Goto(r, t)
  PROVE  req'[r].stage = "agent" /\ req'[r].step = t /\ req'[r].target = req[r].target /\ Name(r)' = Name(r)
BY GotoCourse DEF At, Fields, Name

\* One container is set, or renamed: the others stay.
LEMMA SetOne ==
  ASSUME Told(box), NEW o \in box, NEW cs, cs = Those(o.id), NEW up
  PROVE  \E n : /\ n.id = o.id /\ n.name = o.name /\ n.up = up
                /\ Setting(cs, up) = (box \ {o}) \cup {n}
<1>1. o \in cs
  BY DEF Those
<1>2. PICK d \in box : (\A c \in cs : c = d) /\ Setting(cs, up) = Replaced(box, d, d.name, up)
  BY <1>1, SettingOne
<1>3. d = o
  BY <1>1, <1>2
<1>4. PICK n : n = Edited(o, o.name, up)
  OBVIOUS
<1>5. n.id = o.id /\ n.name = o.name /\ n.up = up
  BY <1>4, ReplacedFields
<1>6. Setting(cs, up) = (box \ {o}) \cup {n}
  BY <1>2, <1>3, <1>4 DEF Replaced
<1> QED BY <1>5, <1>6

LEMMA SetUpOrDown ==
  ASSUME Told(box), NEW o \in box, NEW cs, cs = Those(o.id)
  PROVE  /\ \E n : /\ n.id = o.id /\ n.name = o.name /\ n.up = TRUE
                   /\ Setting(cs, TRUE) = (box \ {o}) \cup {n}
         /\ \E n : /\ n.id = o.id /\ n.name = o.name /\ n.up = FALSE
                   /\ Setting(cs, FALSE) = (box \ {o}) \cup {n}
<1>1. \A up : \E n : /\ n.id = o.id /\ n.name = o.name /\ n.up = up
                     /\ Setting(cs, up) = (box \ {o}) \cup {n}
  BY SetOne
<1>2. \E n : n.id = o.id /\ n.name = o.name /\ n.up = TRUE /\ Setting(cs, TRUE) = (box \ {o}) \cup {n}
  BY ONLY <1>1, Zenon
<1>3. \E n : n.id = o.id /\ n.name = o.name /\ n.up = FALSE /\ Setting(cs, FALSE) = (box \ {o}) \cup {n}
  BY ONLY <1>1, Zenon
<1> QED BY <1>2, <1>3

LEMMA RenameOne ==
  ASSUME Told(box), NEW r, NEW o \in box, o.id = req[r].target, NEW name
  PROVE  \E n : /\ n.id = o.id /\ n.name = name /\ n.up = o.up
                /\ Renaming(r, name) = (box \ {o}) \cup {n}
<1>1. o \in Old(r)
  BY DEF Old
<1>2. PICK d \in box : (\A c \in Old(r) : c = d) /\ Renaming(r, name) = Replaced(box, d, name, d.up)
  BY <1>1, RenamingOne
<1>3. d = o
  BY <1>1, <1>2
<1>4. PICK n : n = Edited(o, name, o.up)
  OBVIOUS
<1>5. n.id = o.id /\ n.name = name /\ n.up = o.up
  BY <1>4, ReplacedFields
<1>6. Renaming(r, name) = (box \ {o}) \cup {n}
  BY <1>2, <1>3, <1>4 DEF Replaced
<1> QED BY <1>5, <1>6

\* What holds when an image update makes one of its calls.
Calls0(r) ==
  /\ Coursed /\ Told(box) /\ (ports => OneUp(box)) /\ r \in Requests
  /\ Name(r) = 0 /\ Here(r) /\ req[r].target # r
  /\ faults \in {0, 1} /\ faults' \in {0, 1} /\ ports' = ports

LEMMA PullHere ==
  ASSUME NEW r, Calls0(r), Pull(r)
  PROVE  Here(r)'
<1>1. At(r, "pull") /\ Goto(r, "stop") /\ box' = box /\ faults' = faults
  BY DEF Pull, docker
<1>2. req'[r].step = "stop" /\ req'[r].target = req[r].target
  BY <1>1, GoesTo DEF Calls0
<1>3. OldIs(r, {0}, {TRUE}) /\ Lone(r) /\ Only(r)
  BY <1>1 DEF Calls0, Here, At
<1>4. (OldIs(r, {0}, {TRUE}) /\ Lone(r) /\ Only(r))'
  BY <1>1, <1>2, <1>3 DEF Calls0, OldIs, Lone, Only
<1> QED BY <1>2, <1>4 DEF Here

LEMMA StopHere ==
  ASSUME NEW r, Calls0(r), Stop(r)
  PROVE  Here(r)'
<1>1. PICK e : e = Setting(Old(r), FALSE) /\ At(r, "stop") /\ DockerCall(r, Old(r) = {}, e, "rename", "rename")
  BY DEF Stop
<1>2. Goto(r, "rename")
  BY <1>1 DEF DockerCall
<1>3. req'[r].step = "rename" /\ req'[r].target = req[r].target
  BY <1>1, <1>2, GoesTo DEF Calls0
<1>4. OldIs(r, {0}, {TRUE}) /\ Lone(r) /\ Only(r)
  BY <1>1 DEF Calls0, Here, At
<1>5. PICK o \in box : o.id = req[r].target /\ o.name = 0 /\ o.up = TRUE
  BY <1>4 DEF OldIs
<1>6. Old(r) = Those(o.id) /\ Old(r) # {}
  BY <1>5 DEF Old, Those
<1>7. PICK n : /\ n.id = o.id /\ n.name = o.name /\ n.up = FALSE
               /\ e = (box \ {o}) \cup {n}
  BY <1>1, <1>6, SetUpOrDown DEF Calls0
<1>8. (OldIs(r, {0}, BOOLEAN) /\ (faults = 0 => OldIs(r, {0}, {FALSE})) /\ Lone(r) /\ Only(r))'
  <2>1. CASE box' = (box \ {o}) \cup {n} /\ faults' = faults
    BY <1>3, <1>4, <1>5, <1>7, <2>1 DEF Calls0, OldIs, Lone, Only
  <2>2. CASE box' = box /\ faults' = 1
    <3>1. OldIs(r, {0}, BOOLEAN)'
      BY <1>3, <1>5, <2>2 DEF OldIs
    <3>2. (Lone(r) /\ Only(r))'
      BY <1>3, <1>4, <2>2 DEF Calls0, Lone, Only
    <3> QED BY <2>2, <3>1, <3>2
  <2>3. (box' = e /\ faults' = faults) \/ (box' = box /\ faults' = faults + 1)
    BY <1>1, <1>6 DEF DockerCall, Fault
  <2> QED BY <1>7, <2>1, <2>2, <2>3 DEF Calls0
<1> QED BY <1>3, <1>8 DEF Here

LEMMA RenameHere ==
  ASSUME NEW r, Calls0(r), Rename(r)
  PROVE  Here(r)'
<1>1. At(r, "rename") /\ DockerCall(r, Old(r) = {} \/ Taken(1, Old(r)), Renaming(r, 1), "create", "create")
  BY DEF Rename, Calls0
<1>2. Goto(r, "create")
  BY <1>1 DEF DockerCall
<1>3. req'[r].step = "create" /\ req'[r].target = req[r].target
  BY <1>1, <1>2, GoesTo DEF Calls0
<1>4. OldIs(r, {0}, BOOLEAN) /\ (faults = 0 => OldIs(r, {0}, {FALSE})) /\ Lone(r) /\ Only(r)
  BY <1>1 DEF Calls0, Here, At
<1>5. PICK o \in box : o.id = req[r].target /\ o.name = 0 /\ o.up \in BOOLEAN
  BY <1>4 DEF OldIs
<1>6. /\ \A c \in box : c.name = 0 \/ c.id = req[r].target => c = o
      /\ faults = 0 => o.up = FALSE
  BY <1>4, <1>5 DEF Calls0, Told, OldIs
<1>7. PICK n : n.id = o.id /\ n.name = 1 /\ n.up = o.up /\ Renaming(r, 1) = (box \ {o}) \cup {n}
  BY <1>5, RenameOne DEF Calls0
<1>8. (OldIs(r, {0, 1}, BOOLEAN) /\ (faults = 0 => OldIs(r, {1}, {FALSE})) /\ Lone(r) /\ Only(r) /\ Free(r))'
  <2>1. CASE box' = (box \ {o}) \cup {n} /\ faults' = faults
    BY <1>3, <1>4, <1>5, <1>6, <1>7, <2>1 DEF Calls0, OldIs, Lone, Only, Free
  <2>2. CASE box' = box /\ faults' = 1
    BY <1>3, <1>4, <1>5, <1>6, <2>2 DEF Calls0, OldIs, Lone, Only, Free
  <2>3. ASSUME Old(r) = {} \/ Taken(1, Old(r)) PROVE faults = 1
    <3>1. o \in Old(r)
      BY <1>5 DEF Old
    <3>2. PICK c \in box : c.name = 1
      BY <2>3, <3>1 DEF Taken
    <3> QED BY <1>4, <1>5, <1>6, <3>2 DEF Calls0, Lone
  <2> QED BY <1>1, <1>7, <2>1, <2>2, <2>3 DEF DockerCall, Fault, Calls0
<1> QED BY <1>3, <1>8 DEF Here

LEMMA CreateHere ==
  ASSUME NEW r, Calls0(r), Create(r)
  PROVE  Here(r)'
<1>0. PICK n : n = [id |-> r, name |-> 0, image |-> r, up |-> FALSE]
  OBVIOUS
<1>1. At(r, "create") /\ DockerCall(r, Taken(0, {}), box \cup {n}, "start", "renameBack")
  BY <1>0 DEF Create, Calls0
<1>2. n.id = r /\ n.name = 0 /\ n.up = FALSE
  BY <1>0
<1>3. \A t : Goto(r, t) => req'[r].step = t /\ req'[r].target = req[r].target
  BY <1>1, GoesTo DEF Calls0
<1>4. /\ OldIs(r, {0, 1}, BOOLEAN) /\ (faults = 0 => OldIs(r, {1}, {FALSE}))
      /\ Lone(r) /\ Only(r) /\ Free(r)
  BY <1>1 DEF Calls0, Here, At
<1>5. PICK o \in box : o.id = req[r].target /\ o.name \in {0, 1} /\ o.up \in BOOLEAN
  BY <1>4 DEF OldIs
<1>6. /\ \A c \in box : c.id = req[r].target => c = o
      /\ faults = 0 => o.up = FALSE /\ o.name = 1
  BY <1>4, <1>5 DEF Calls0, Told, OldIs
<1>7. CASE ~Taken(0, {}) /\ box' = box \cup {n} /\ Goto(r, "start") /\ faults' = faults
  <2>1. req'[r].step = "start" /\ req'[r].target = req[r].target
    BY <1>3, <1>7
  <2>2. o.name = 1
    BY <1>5, <1>7 DEF Taken
  <2>3. (NewIs(r, FALSE) /\ OldIs(r, {1}, BOOLEAN) /\ (faults = 0 => OldIs(r, {1}, {FALSE})))'
    BY <1>2, <1>5, <1>6, <1>7, <2>1, <2>2 DEF NewIs, OldIs
  <2>4. (Both(r) /\ Only(r))'
    BY <1>2, <1>4, <1>7, <2>1 DEF Calls0, Lone, Both, Only
  <2> QED BY <2>1, <2>3, <2>4 DEF Here
<1>8. CASE box' = box /\ Goto(r, "renameBack") /\ faults' = 1
  <2>1. req'[r].step = "renameBack" /\ req'[r].target = req[r].target
    BY <1>3, <1>8
  <2>2. (faults = 1 /\ OldIs(r, {0, 1}, BOOLEAN) /\ Free(r) /\ Only(r))'
    BY <1>4, <1>8, <2>1 DEF Calls0, OldIs, Free, Only
  <2> QED BY <2>1, <2>2 DEF Here
<1>9. ASSUME Taken(0, {}) PROVE faults = 1
  <2>1. PICK c \in box : c.name = 0
    BY <1>9 DEF Taken
  <2> QED BY <1>4, <1>6, <2>1 DEF Calls0, Lone
<1> QED BY <1>1, <1>7, <1>8, <1>9 DEF DockerCall, Fault, Calls0

LEMMA StartHere ==
  ASSUME NEW r, Calls0(r), Start(r)
  PROVE  Here(r)'
<1>1. PICK e : /\ e = Setting(New(r), TRUE) /\ At(r, "start")
               /\ DockerCall(r, CannotStart(New(r)), e, "removeOld", "removeNew")
  BY DEF Start
<1>3. \A t : Goto(r, t) => req'[r].step = t /\ req'[r].target = req[r].target
  BY <1>1, GoesTo DEF Calls0
<1>4. /\ NewIs(r, FALSE) /\ OldIs(r, {1}, BOOLEAN) /\ (faults = 0 => OldIs(r, {1}, {FALSE}))
      /\ Both(r) /\ Only(r)
  BY <1>1 DEF Calls0, Here, At
<1>5. PICK n \in box : n.id = r /\ n.name = 0 /\ n.up = FALSE
  BY <1>4 DEF NewIs
<1>6. New(r) = Those(n.id) /\ New(r) # {}
  BY <1>5 DEF New, Those
<1>7. PICK m : m.id = n.id /\ m.name = n.name /\ m.up = TRUE /\ e = (box \ {n}) \cup {m}
  BY <1>1, <1>6, SetUpOrDown DEF Calls0
<1>8. CASE box' = (box \ {n}) \cup {m} /\ Goto(r, "removeOld") /\ faults' = faults
  <2>1. req'[r].step = "removeOld" /\ req'[r].target = req[r].target
    BY <1>3, <1>8
  <2>2. (NewIs(r, TRUE) /\ Both(r))'
    BY <1>4, <1>5, <1>7, <1>8, <2>1 DEF NewIs, Both
  <2> QED BY <2>1, <2>2 DEF Here
<1>9. CASE box' = box /\ Goto(r, "removeNew") /\ faults' = 1
  <2>1. req'[r].step = "removeNew" /\ req'[r].target = req[r].target
    BY <1>3, <1>9
  <2>2. (faults = 1 /\ NewIs(r, FALSE) /\ OldIs(r, {1}, BOOLEAN) /\ Only(r))'
    BY <1>4, <1>9, <2>1 DEF Calls0, NewIs, OldIs, Only
  <2> QED BY <2>1, <2>2 DEF Here
<1>10. ASSUME CannotStart(New(r)), faults = 0 PROVE FALSE
  <2>1. PICK c \in box : c.up /\ ports
    BY <1>6, <1>10 DEF CannotStart
  <2>2. PICK o \in box : o.id = req[r].target /\ o.up = FALSE
    BY <1>4, <1>10 DEF OldIs
  <2>3. c = o
    BY <1>4, <2>1, <2>2 DEF Calls0, Told, Only
  <2> QED BY <2>1, <2>2, <2>3
<1>11. \/ box' = e /\ Goto(r, "removeOld") /\ faults' = faults
       \/ CannotStart(New(r)) /\ box' = box /\ Goto(r, "removeNew") /\ faults' = faults
       \/ box' = box /\ Goto(r, "removeNew") /\ faults' = faults + 1
  BY <1>1 DEF DockerCall, Fault
<1> QED BY <1>7, <1>8, <1>9, <1>10, <1>11 DEF Calls0

LEMMA RemoveOldHere ==
  ASSUME NEW r, Calls0(r), RemoveOld(r)
  PROVE  Here(r)'
<1>1. At(r, "removeOld") /\ DockerCall(r, Old(r) = {}, box \ Old(r), "updated", "updated")
  BY DEF RemoveOld
<1>2. Goto(r, "updated")
  BY <1>1 DEF DockerCall
<1>3. req'[r].step = "updated" /\ req'[r].target = req[r].target
  BY <1>1, <1>2, GoesTo DEF Calls0
<1>4. NewIs(r, TRUE) /\ Both(r) /\ req[r].target # r
  BY <1>1 DEF Calls0, Here, At
<1>5. (NewIs(r, TRUE) /\ (faults = 0 => \A c \in box : c.id = r))'
  <2>1. CASE box' = box \ Old(r) /\ faults' = faults
    BY <1>4, <2>1 DEF NewIs, Both, Old
  <2>2. CASE Old(r) = {} /\ box' = box /\ faults' = faults
    BY <1>4, <2>2 DEF NewIs, Both, Old
  <2>3. CASE box' = box /\ faults' = faults + 1
    BY <1>4, <2>3 DEF Calls0, NewIs
  <2> QED BY <1>1, <2>1, <2>2, <2>3 DEF DockerCall, Fault
<1> QED BY <1>3, <1>5 DEF Here

LEMMA RemoveNewHere ==
  ASSUME NEW r, Calls0(r), RemoveNew(r)
  PROVE  Here(r)'
<1>1. At(r, "removeNew") /\ DockerCall(r, New(r) = {}, box \ New(r), "renameBack", "renameBack")
  BY DEF RemoveNew
<1>2. Goto(r, "renameBack")
  BY <1>1 DEF DockerCall
<1>3. req'[r].step = "renameBack" /\ req'[r].target = req[r].target
  BY <1>1, <1>2, GoesTo DEF Calls0
<1>4. faults = 1 /\ NewIs(r, FALSE) /\ OldIs(r, {1}, BOOLEAN) /\ Only(r) /\ req[r].target # r
  BY <1>1 DEF Calls0, Here, At
<1>5. PICK n \in box : n.id = r /\ n.name = 0
  BY <1>4 DEF NewIs
<1>6. New(r) # {} /\ \A c \in box : c.name = 0 => c \in New(r)
  BY <1>5 DEF Calls0, Told, New
<1>7. box' = box \ New(r) /\ faults' = faults
  BY <1>1, <1>4, <1>6 DEF DockerCall, Fault, Calls0
<1>8. (faults = 1 /\ OldIs(r, {0, 1}, BOOLEAN) /\ Free(r) /\ Only(r))'
  BY <1>3, <1>4, <1>6, <1>7 DEF Calls0, OldIs, Free, Only, New
<1> QED BY <1>3, <1>8 DEF Here

LEMMA RenameBackHere ==
  ASSUME NEW r, Calls0(r), RenameBack(r)
  PROVE  Here(r)'
<1>1. /\ At(r, "renameBack")
      /\ DockerCall(r, Old(r) = {} \/ Taken(0, Old(r)), Renaming(r, 0), "startBack", "startBack")
  BY DEF RenameBack, Calls0
<1>2. Goto(r, "startBack")
  BY <1>1 DEF DockerCall
<1>3. req'[r].step = "startBack" /\ req'[r].target = req[r].target
  BY <1>1, <1>2, GoesTo DEF Calls0
<1>4. faults = 1 /\ OldIs(r, {0, 1}, BOOLEAN) /\ Free(r) /\ Only(r)
  BY <1>1 DEF Calls0, Here, At
<1>5. PICK o \in box : o.id = req[r].target /\ o.up \in BOOLEAN
  BY <1>4 DEF OldIs
<1>6. ~(Old(r) = {} \/ Taken(0, Old(r)))
  BY <1>4, <1>5 DEF Old, Taken, Free
<1>7. box' = Renaming(r, 0) /\ faults' = faults
  BY <1>1, <1>4, <1>6 DEF DockerCall, Fault, Calls0
<1>8. PICK n : n.id = o.id /\ n.name = 0 /\ n.up = o.up /\ Renaming(r, 0) = (box \ {o}) \cup {n}
  BY <1>5, RenameOne DEF Calls0
<1>9. (faults = 1 /\ OldIs(r, {0}, BOOLEAN) /\ Only(r))'
  BY <1>3, <1>4, <1>5, <1>7, <1>8 DEF Calls0, OldIs, Only
<1> QED BY <1>3, <1>9 DEF Here

LEMMA StartBackHere ==
  ASSUME NEW r, Calls0(r), StartBack(r)
  PROVE  Here(r)'
<1>1. PICK e : /\ e = Setting(Old(r), TRUE) /\ At(r, "startBack")
               /\ DockerCall(r, CannotStart(Old(r)), e, "failed", "failed")
  BY DEF StartBack
<1>2. Goto(r, "failed")
  BY <1>1 DEF DockerCall
<1>3. req'[r].step = "failed" /\ req'[r].target = req[r].target
  BY <1>1, <1>2, GoesTo DEF Calls0
<1>4. faults = 1 /\ OldIs(r, {0}, BOOLEAN) /\ Only(r)
  BY <1>1 DEF Calls0, Here, At
<1>5. PICK o \in box : o.id = req[r].target /\ o.name = 0
  BY <1>4 DEF OldIs
<1>6. Old(r) = Those(o.id) /\ ~CannotStart(Old(r))
  BY <1>4, <1>5 DEF Old, Those, CannotStart, Only
<1>7. box' = e /\ faults' = faults
  <2>1. (box' = e /\ faults' = faults) \/ CannotStart(Old(r)) \/ faults' = faults + 1
    BY <1>1 DEF DockerCall, Fault
  <2> QED BY <1>4, <1>6, <2>1 DEF Calls0
<1>8. PICK n : n.id = o.id /\ n.name = o.name /\ n.up = TRUE /\ e = (box \ {o}) \cup {n}
  BY <1>1, <1>6, SetUpOrDown DEF Calls0
<1>9. (faults = 1 /\ OldIs(r, {0}, {TRUE}))'
  BY <1>3, <1>4, <1>5, <1>7, <1>8 DEF OldIs
<1> QED BY <1>3, <1>9 DEF Here

\* What an image update that is under way finds.
Place(q) == IF Name(q) = 0 THEN Here(q) ELSE Elsewhere(q)

Kept ==
  Calm /\ faults <= 1 =>
    /\ (\A q \in Requests : ~Working(q)) => Rest
    /\ \A q \in Requests : Working(q) => Place(q)
    /\ Proven

Safe ==
  /\ Verified /\ Silent /\ Boxed /\ (\A q \in Requests : Asking(q))
  /\ faults \in Nat /\ Kept

\* What became of the containers: those that are neither the target nor the new
\* one stay, and only Create makes one.
LEMMA OthersStay ==
  ASSUME Coursed, Boxed, NEW r \in Requests, Asking(r), UpdateContainer(r)
  PROVE  /\ \A c \in box : c.id \notin {req[r].target, r} => c \in box'
         /\ \A c \in box' : (\E d \in box : d.id = c.id) \/ (Makes(r) /\ c.id = r /\ ~c.up)
<1>1. Told(box) /\ (Working(r) => Name(r) \in Nat)
  BY DEF Boxed, Asking
<1>2. CASE box' = box
  BY <1>2
<1>3. ASSUME NEW o \in box, NEW name \in Nat, NEW up \in BOOLEAN, Changes(r, o, name, up)
      PROVE  /\ \A c \in box : c.id \notin {req[r].target, r} => c \in box'
             /\ \A c \in box' : \E d \in box : d.id = c.id
  <2>1. PICK n : n = Edited(o, name, up)
    OBVIOUS
  <2>2. n.id = o.id
    BY <1>1, <2>1, ReplacedFields
  <2>3. box' = (box \ {o}) \cup {n} /\ o.id \in {req[r].target, r}
    BY <1>3, <2>1 DEF Changes, Replaced
  <2> QED BY <2>2, <2>3
<1>4. CASE Makes(r)
  <2>1. PICK n : n = [id |-> r, name |-> Name(r), image |-> r, up |-> FALSE]
    OBVIOUS
  <2>2. n.id = r /\ ~n.up
    BY <2>1
  <2>3. box' = box \cup {n}
    BY <1>4, <2>1 DEF Makes
  <2> QED BY <1>4, <2>2, <2>3
<1>5. CASE Removes(r)
  BY <1>5 DEF Removes
<1> QED BY <1>1, <1>2, <1>3, <1>4, <1>5, ContainerChanges

LEMMA ElsewhereStays ==
  ASSUME Coursed, Boxed, NEW r \in Requests, Asking(r), UpdateContainer(r),
         faults' \in {faults, faults + 1}, faults' <= 1, Elsewhere(r)
  PROVE  Elsewhere(r)'
<1>1. req'[r].target = req[r].target
  BY ContainerSteps
<1>2. PICK c \in box : c.name = 0 /\ c.up /\ c.id \notin {req[r].target, r}
  BY DEF Elsewhere
<1>3. c \in box'
  BY <1>2, OthersStay
<1>4. faults' = 1
  BY DEF Elsewhere
<1> QED BY <1>1, <1>2, <1>3, <1>4 DEF Elsewhere

\* An update looks up its target: it is the one under the name, or another is.
LEMMA InspectPlaces ==
  ASSUME Coursed, Boxed, NEW r \in Requests, Asking(r), Inspect(r), Rest, faults \in {0, 1},
         ports' = ports, req'[r].stage = "agent"
  PROVE  Place(r)'
<1>1. At(r, "inspect") /\ box' = box /\ faults' = faults /\ ports' = ports
  BY DEF Inspect, docker
<1>2. ~Answer(r, FALSE)
  BY AnswerAnswers
<1>3. PICK c \in Old(r) : GotoWith(r, "pull", c.name)
  BY <1>2 DEF Inspect
<1>4. req'[r] = [req[r] EXCEPT !.step = "pull", !.seen = c.name]
  BY <1>3 DEF GotoWith, Coursed, Shape
<1>5. req'[r].step = "pull" /\ Name(r)' = c.name /\ req'[r].target = req[r].target
  BY <1>4 DEF Coursed, Shape, Fields, Name
<1>6. c \in box /\ c.id = req[r].target
  BY <1>3 DEF Old
<1>7. PICK d \in box : d.name = 0 /\ d.up /\ d.up \in BOOLEAN
  BY DEF Rest, Boxed, Told
<1>8. CASE c.name = 0
  <2>1. c = d
    BY <1>6, <1>7, <1>8 DEF Boxed, Told
  <2>2. OldIs(r, {0}, {TRUE})'
    BY <1>1, <1>5, <1>6, <1>7, <2>1 DEF OldIs
  <2>3. (Lone(r) /\ Only(r))'
    BY <1>1, <1>5, <1>6, <1>7, <2>1 DEF Lone, Only, Rest, Boxed, OneUp
  <2>4. Here(r)'
    BY <1>5, <2>2, <2>3 DEF Here
  <2> QED BY <1>5, <1>8, <2>4 DEF Place
<1>9. CASE c.name # 0
  <2>1. faults = 1
    BY <1>6, <1>7, <1>9 DEF Rest
  <2>2. d.id # r
    BY <1>1, <1>7 DEF Boxed, Made, MadeSteps, At
  <2>3. d.id # req[r].target
    BY <1>6, <1>7, <1>9 DEF Boxed, Told
  <2>4. Elsewhere(r)'
    BY <1>1, <1>5, <1>7, <2>1, <2>2, <2>3 DEF Elsewhere
  <2> QED BY <1>5, <1>9, <2>4 DEF Place
<1> QED BY <1>8, <1>9

LEMMA EndRests ==
  ASSUME Coursed, Boxed, NEW r \in Requests, UpdateEnds(r), Place(r)
  PROVE  Rest'
<1>1. box' = box /\ faults' = faults /\ req[r].step \in {"updated", "failed"}
  BY DEF UpdateEnds, docker
<1>2. CASE Elsewhere(r)
  BY <1>1, <1>2 DEF Elsewhere, Rest
<1>3. CASE Here(r) /\ req[r].step = "updated"
  <2>1. NewIs(r, TRUE) /\ (faults = 0 => \A c \in box : c.id = r)
    BY <1>3 DEF Here
  <2> QED BY <1>1, <2>1 DEF NewIs, Boxed, Told, Rest
<1>4. CASE Here(r) /\ req[r].step = "failed"
  <2>1. OldIs(r, {0}, {TRUE}) /\ faults = 1
    BY <1>4 DEF Here
  <2>2. PICK c \in box : c.name = 0 /\ c.up = TRUE
    BY <2>1 DEF OldIs
  <2> QED BY <1>1, <2>1, <2>2 DEF Rest
<1> QED BY <1>1, <1>2, <1>3, <1>4 DEF Place

LEMMA CallPlaces ==
  ASSUME Coursed, Boxed, NEW r \in Requests, Asking(r), Working(r), UpdateContainer(r), ~UpdateEnds(r),
         faults \in {0, 1}, faults' \in {0, 1}, faults' \in {faults, faults + 1}, ports' = ports, Place(r)
  PROVE  Place(r)'
<1>1. Name(r)' = Name(r)
  BY ContainerSteps DEF Working, UpdatingSteps
<1>2. CASE Name(r) # 0
  BY <1>1, <1>2, ElsewhereStays DEF Place
<1>3. CASE Name(r) = 0
  <2>1. Type(r) # "update_agent"
    BY DEF Asking
  <2>2. Calls0(r)
    BY <1>3, <2>1 DEF Calls0, Place, Boxed, Asking
  <2>3. ~Inspect(r)
    BY DEF Working, Inspect, At, UpdatingSteps
  <2>4. Here(r)'
    BY <2>2, <2>3, PullHere, StopHere, RenameHere, CreateHere, StartHere, RemoveOldHere, RemoveNewHere,
       RenameBackHere, StartBackHere DEF UpdateContainer
  <2> QED BY <1>1, <1>3, <2>4 DEF Place
<1> QED BY <1>2, <1>3

LEMMA CallProves ==
  ASSUME Coursed, Boxed, Silent, Alone, Calm, Proven, \A q \in Requests : Asking(q), [Next]_vars,
         NEW r \in Requests, UpdateContainer(r), Working(r) => Place(r), faults' <= 1
  PROVE  Proven'
<1>1. /\ Stage(r) = "agent" /\ (Working(r) \/ At(r, "inspect"))
      /\ \A q \in Requests \ {r} : req'[q] = req[q]
  BY ContainerSteps DEF Working, At
<1>2. ASSUME NEW c \in box', c.id \in Requests \ {r}
      PROVE  req'[c.id].verdict = "success"
  <2>1. PICK d \in box : d.id = c.id
    BY <1>2, OthersStay
  <2>2. ~Working(c.id)
    BY <1>1, <1>2, OneWorks
  <2>3. req[c.id].verdict = "success"
    BY <1>2, <2>1, <2>2 DEF Proven, Working, UpdatingSteps
  <2> QED BY <1>1, <1>2, <2>3
<1>3. \A d \in box : d.id = r => \/ req[r].step \in {"start", "removeNew"} /\ ~d.up
                                \/ req[r].step \in {"removeOld", "updated"}
  BY <1>1, ActionsAssumption DEF Proven, Silent
<1>4. ASSUME NEW c \in box', c.id = r
      PROVE  \/ req'[r].verdict = "success"
             \/ req'[r].stage = "agent" /\ \/ req'[r].step \in {"start", "removeNew"} /\ ~c.up
                                           \/ req'[r].step \in {"removeOld", "updated"}
  <2>1. CASE Makes(r)
    <3>1. \A d \in box : d.id # r
      BY <1>3, <2>1 DEF Makes, At
    <3>2. ~c.up
      BY <1>4, <3>1, OthersStay
    <3> QED BY <2>1, <3>2 DEF Makes
  <2>2. CASE ~Makes(r)
    <3>1. PICK d \in box : d.id = r
      BY <1>4, <2>2, OthersStay
    <3>2. req[r].step \in {"start", "removeNew", "removeOld", "updated"}
      BY <1>3, <3>1
    <3>3. CASE Start(r)
      <4>1. At(r, "start")
        BY <3>3 DEF Start
      <4>2. Goto(r, "removeOld") \/ (Goto(r, "removeNew") /\ box' = box)
        BY <3>3 DEF Start, DockerCall
      <4> QED BY <1>3, <1>4, <4>1, <4>2, GoesTo DEF At
    <3>4. CASE RemoveOld(r)
      <4>1. At(r, "removeOld") /\ Goto(r, "updated")
        BY <3>4 DEF RemoveOld, DockerCall
      <4> QED BY <4>1, GoesTo
    <3>5. CASE RemoveNew(r)
      <4>1. At(r, "removeNew") /\ Working(r)
        BY <3>5 DEF RemoveNew, At, Working, UpdatingSteps
      <4>2. faults = 1
        BY <4>1 DEF Place, Here, Elsewhere, At
      <4>3. ~Fault
        BY <4>2 DEF Fault
      <4>4. box' = box \ New(r) \/ (New(r) = {} /\ box' = box)
        BY <3>5, <4>3 DEF RemoveNew, DockerCall
      <4> QED BY <1>4, <4>4 DEF New
    <3>6. CASE UpdateEnds(r)
      <4>1. req[r].step = "updated"
        BY <3>2, <3>6 DEF UpdateEnds
      <4>2. Answer(r, TRUE)
        BY <3>6, <4>1 DEF UpdateEnds
      <4> QED BY <4>2, AnswerAnswers
    <3> QED BY <3>2, <3>3, <3>4, <3>5, <3>6 DEF UpdateContainer, Inspect, Pull, Stop, Rename, Create,
         RenameBack, StartBack, At
  <2> QED BY <2>1, <2>2
<1> QED BY <1>2, <1>4 DEF Proven, Stage

\* Steps that are not of an image update.
LEMMA QuietPlaces ==
  ASSUME NEW q \in Requests, box' = box, ports' = ports, faults' \in {faults, faults + 1}, faults' <= 1,
         faults \in Nat, req'[q] = req[q], Place(q)
  PROVE  Place(q)'
<1>1. /\ req'[q].target = req[q].target /\ req'[q].step = req[q].step /\ Name(q)' = Name(q)
      /\ (faults = 1 => faults' = 1) /\ (faults' = 0 => faults = 0)
  BY DEF Name
<1>2. /\ \A names, ups : OldIs(q, names, ups)' <=> OldIs(q, names, ups)
      /\ \A up : NewIs(q, up)' <=> NewIs(q, up)
      /\ (Lone(q) => Lone(q)') /\ (Both(q) => Both(q)') /\ (Free(q) => Free(q)') /\ (Only(q) => Only(q)')
  BY <1>1 DEF OldIs, NewIs, Lone, Both, Free, Only
<1>3. CASE Name(q) # 0
  BY <1>1, <1>3 DEF Place, Elsewhere
<1>4. CASE Name(q) = 0
  <2>1. Here(q)
    BY <1>4 DEF Place
  <2>2. Here(q)'
    BY <1>1, <1>2, <2>1 DEF Here
  <2> QED BY <1>1, <1>4, <2>2 DEF Place
<1> QED BY <1>3, <1>4

LEMMA KeptStep ==
  ASSUME Safe, [Next]_vars
  PROVE  Kept'
<1> SUFFICES ASSUME Calm', faults' <= 1
             PROVE  /\ (\A q \in Requests : ~Working(q)') => Rest'
                    /\ \A q \in Requests : Working(q)' => Place(q)'
                    /\ Proven'
  BY DEF Kept
<1>1. Coursed /\ Alone /\ Boxed /\ Silent /\ (\A q \in Requests : Asking(q)) /\ faults \in Nat
  BY DEF Safe, Verified
<1>2. Calm /\ ports' = ports /\ faults' \in {faults, faults + 1}
  BY <1>1, CalmBefore, DockerOnly
<1>3. faults \in {0, 1} /\ faults' \in {0, 1} /\ faults <= 1
  BY <1>1, <1>2
<1>4. ((\A q \in Requests : ~Working(q)) => Rest) /\ (\A q \in Requests : Working(q) => Place(q)) /\ Proven
  BY <1>2, <1>3 DEF Safe, Kept
<1>5. ASSUME NEW r \in Requests, UpdateContainer(r)
      PROVE  /\ (\A q \in Requests : ~Working(q)') => Rest'
             /\ \A q \in Requests : Working(q)' => Place(q)'
             /\ Proven'
  <2>1. /\ Working(r) \/ At(r, "inspect")
        /\ \A q \in Requests \ {r} : req'[q] = req[q]
    BY <1>1, <1>5, ContainerSteps DEF Working, At
  <2>2. \A q \in Requests \ {r} : ~Working(q) /\ ~Working(q)'
    <3>1. \A q \in Requests \ {r} : ~Working(q)
      BY <1>1, <1>2, <2>1, OneWorks
    <3> QED BY <2>1, <3>1 DEF Working, Stage
  <2>3. Proven'
    BY <1>1, <1>2, <1>3, <1>4, <1>5, CallProves
  <2>4. CASE Inspect(r)
    <3>1. Rest /\ box' = box /\ faults' = faults
      <4>1. ~Working(r)
        BY <2>4 DEF Inspect, At, Working, UpdatingSteps
      <4> QED BY <1>4, <2>2, <2>4, <4>1 DEF Inspect, docker
    <3>2. Rest'
      BY <3>1 DEF Rest
    <3>3. Working(r)' => Place(r)'
      BY <1>1, <1>2, <1>3, <2>4, <3>1, InspectPlaces DEF Working, Stage
    <3> QED BY <2>2, <2>3, <3>2, <3>3
  <2>5. CASE ~Inspect(r)
    <3>1. Working(r) /\ Place(r)
      <4>1. ~At(r, "inspect")
        BY <1>5, <2>5 DEF UpdateContainer, Inspect, Pull, Stop, Rename, Create, Start, RemoveOld, RemoveNew,
             RenameBack, StartBack, UpdateEnds, At
      <4> QED BY <1>4, <2>1, <4>1
    <3>2. CASE UpdateEnds(r)
      <4>1. Rest'
        BY <1>1, <3>1, <3>2, EndRests
      <4>2. req'[r].stage = "answered"
        <5>1. \E ok : Answer(r, ok)
          BY <3>2 DEF UpdateEnds
        <5> QED BY <1>1, <5>1, AnswerAnswers
      <4>3. ~Working(r)'
        BY <4>2 DEF Working, Stage
      <4> QED BY <2>2, <2>3, <4>1, <4>3
    <3>3. CASE ~UpdateEnds(r)
      <4>1. Place(r)'
        BY <1>1, <1>2, <1>3, <1>5, <3>1, <3>3, CallPlaces
      <4>2. Working(r)'
        <5>1. req[r].step # "inspect"
          BY <3>1 DEF Working, UpdatingSteps
        <5>2. req'[r].stage # "answered"
          <6>1. Stage(r) = "agent" /\ req[r].step \in UpdatingSteps
            BY <3>1 DEF Working
          <6>2. \A s, t : At(r, s) /\ Goto(r, t) => req'[r].stage = "agent"
            BY <1>1, GoesTo
          <6>3. \E s, t : At(r, s) /\ Goto(r, t)
            <7>1. ASSUME NEW s, At(r, s), NEW refused, NEW effect, NEW next, NEW onError,
                         DockerCall(r, refused, effect, next, onError)
                  PROVE  \E t : Goto(r, t)
              BY <7>1 DEF DockerCall
            <7>2. CASE Pull(r)
              BY <7>2 DEF Pull
            <7>3. CASE Stop(r) \/ Rename(r) \/ Create(r) \/ Start(r)
              BY <7>1, <7>3 DEF Stop, Rename, Create, Start
            <7>4. CASE RemoveOld(r) \/ RemoveNew(r) \/ RenameBack(r) \/ StartBack(r)
              BY <7>1, <7>4 DEF RemoveOld, RemoveNew, RenameBack, StartBack
            <7> QED BY <1>5, <2>5, <3>3, <7>2, <7>3, <7>4 DEF UpdateContainer
          <6> QED BY <6>2, <6>3
        <5> QED BY <1>1, <1>5, <5>2, ContainerSteps DEF Working, Stage
      <4> QED BY <2>2, <2>3, <4>1, <4>2
    <3> QED BY <3>2, <3>3
  <2> QED BY <2>4, <2>5
<1>6. ASSUME \A r \in Requests : ~UpdateContainer(r)
      PROVE  /\ (\A q \in Requests : ~Working(q)') => Rest'
             /\ \A q \in Requests : Working(q)' => Place(q)'
             /\ Proven'
  <2>1. box' = box
    BY <1>1, <1>2, <1>6, CalmBox
  <2>2. \A q \in Requests : Stage(q)' # "cut" /\ (Working(q) => ~Stuck(q)')
    <3>1. \A q \in Requests : Type(q)' = Type(q)
      BY <1>1, AllOnward DEF Onward, Type
    <3> QED BY <1>1, <3>1 DEF Calm, Asking
  <2>3. ASSUME NEW q \in Requests, Working(q)'
        PROVE  Place(q)'
    <3>1. req'[q] = req[q] /\ Working(q)
      BY <1>1, <1>6, <2>3, WorkBegins
    <3> QED BY <1>1, <1>2, <1>3, <1>4, <2>1, <3>1, QuietPlaces
  <2>4. ASSUME \A q \in Requests : ~Working(q)'
        PROVE  Rest'
    <3>1. CASE \A q \in Requests : ~Working(q)
      BY <1>1, <1>2, <1>4, <2>1, <3>1 DEF Rest
    <3>2. ASSUME NEW q \in Requests, Working(q)
          PROVE  Rest'
      <4>1. req'[q] # req[q]
        BY <2>4, <3>2 DEF Working, Stage
      <4>2. req[q].step = "pull" /\ faults' = faults + 1
        BY <1>1, <1>6, <2>2, <3>2, <4>1, WorkStays
      <4>3. \E c \in box : c.name = 0 /\ c.up
        <5>1. CASE Elsewhere(q)
          BY <5>1 DEF Elsewhere
        <5>2. CASE Here(q)
          <6>1. OldIs(q, {0}, {TRUE})
            BY <4>2, <5>2 DEF Here
          <6>2. PICK c \in box : c.name = 0 /\ c.up = TRUE
            BY <6>1 DEF OldIs
          <6> QED BY <6>2
        <5>3. Place(q)
          BY <1>4, <3>2
        <5> QED BY <5>1, <5>2, <5>3 DEF Place
      <4> QED BY <1>1, <2>1, <4>2, <4>3 DEF Rest
    <3> QED BY <3>1, <3>2
  <2>5. Proven'
    <3> SUFFICES ASSUME NEW c \in box, c.id \in Requests
                 PROVE  \/ req'[c.id].verdict = "success"
                        \/ req'[c.id].stage = "agent" /\ \/ req'[c.id].step \in {"start", "removeNew"} /\ ~c.up
                                                         \/ req'[c.id].step \in {"removeOld", "updated"}
      BY <2>1 DEF Proven, Stage
    <3>1. CASE req[c.id].verdict = "success"
      BY <1>1, <3>1, SuccessStays
    <3>2. CASE req[c.id].verdict # "success"
      <4>1. /\ Stage(c.id) = "agent"
            /\ \/ req[c.id].step \in {"start", "removeNew"} /\ ~c.up
               \/ req[c.id].step \in {"removeOld", "updated"}
        BY <1>4, <3>2 DEF Proven
      <4>2. Working(c.id) /\ req[c.id].step # "pull"
        BY <4>1 DEF Working, UpdatingSteps
      <4>3. req'[c.id] = req[c.id]
        BY <1>1, <1>6, <2>2, <4>2, WorkStays
      <4> QED BY <4>1, <4>3 DEF Stage
    <3> QED BY <3>1, <3>2
  <2> QED BY <2>3, <2>4, <2>5
<1> QED BY <1>5, <1>6

LEMMA SafeInit == Init => Safe
<1> SUFFICES ASSUME Init PROVE Safe
  OBVIOUS
<1>1. faults = 0 /\ box = {[id |-> None, name |-> 0, image |-> None, up |-> TRUE]}
  BY DEF Init
<1>2. \A q \in Requests : ~Working(q)
  BY CoursedInit DEF Working
<1>3. Rest /\ Proven
  BY <1>1, ActionsAssumption DEF Rest, Proven
<1> QED BY <1>1, <1>2, <1>3, VerifiedInit, SilentInit, BoxedInit, AskingInit DEF Safe, Kept

LEMMA SafeStep == Safe /\ [Next]_vars => Safe'
<1> SUFFICES ASSUME Safe, [Next]_vars PROVE Safe'
  OBVIOUS
<1>1. Verified' /\ Silent'
  BY VerifiedStep, SilentStep DEF Safe, Verified
<1>2. Boxed' /\ \A q \in Requests : Asking(q)'
  BY BoxedStep, AskingStep DEF Safe, Verified
<1>3. faults' \in Nat
  BY DockerOnly DEF Safe
<1> QED BY <1>1, <1>2, <1>3, KeptStep DEF Safe

\* docker.go, updateContainerImage: while no more than one call has failed, and
\* as long as image updates neither overlap nor are cut off and nobody switches a
\* container, an update that is over leaves a container running under the name, and
\* no image runs but that of an update that succeeded: at every call, what was done
\* so far is taken back in an order in which each call finds what it needs.
THEOREM OneFailureCostsNoContainer == Spec => [](faults <= 1 => ContainerKept)
<1>1. ASSUME Safe, faults <= 1, Undisturbed
      PROVE  /\ \E c \in box : c.name = 0 /\ c.up
             /\ \A c \in box : c.up /\ c.image # None => req[c.image].verdict = "success"
  <2>1. Calm
    BY <1>1 DEF Undisturbed, Calm, Stuck, Operating, Replaces
  <2>2. \A q \in Requests : ~Working(q)
    BY <1>1 DEF Safe, Asking, Undisturbed, Working, Operating, Replaces, UpdatingSteps
  <2>3. Rest /\ Proven
    BY <1>1, <2>1, <2>2 DEF Safe, Kept
  <2>4. ASSUME NEW c \in box, c.up, c.image # None
        PROVE  req[c.image].verdict = "success"
    <3>1. c.image = c.id /\ c.id \in Requests
      <4>1. c = [id |-> c.id, name |-> c.name, image |-> c.id, up |-> c.up] /\ c.id \in Requests \cup {None}
        BY <1>1 DEF Safe, Boxed, Told
      <4> QED BY <2>4, <4>1
    <3>2. ~Working(c.id)
      BY <2>2, <3>1
    <3> QED BY <2>3, <3>1, <3>2 DEF Proven, Working, UpdatingSteps
  <2> QED BY <2>3, <2>4 DEF Rest
<1>2. Safe => (faults <= 1 => ContainerKept)
  BY <1>1 DEF ContainerKept
<1> QED BY <1>2, SafeInit, SafeStep, PTL DEF Spec

-----------------------------------------------------------------------------
\* Types.

Typed(q) ==
  /\ req[q].from \in Browsers /\ req[q].to \subseteq Browsers /\ req[q].step \in Steps
  /\ req[q].stage \in {"unsent", "hub", "agent", "answered", "shown", "dropped", "cut"}
  /\ req[q].verdict \in {None, "success", "failed"}
  /\ req[q].stage = "answered" => req[q].verdict \in {"success", "failed"}

PanelOf(p) ==
  /\ DOMAIN p = {"own", "shows", "of"}
  /\ p.own \in Requests \cup {None} /\ p.of \in Requests \cup {None}
  /\ p.shows \in {"idle", "running", "success", "failed", "timeout"}
Panels == DOMAIN panels = Browsers /\ \A b \in Browsers : PanelOf(panels[b])

Keyed == DOMAIN forwards = {"live", "key"} /\ forwards.key \in forwards.live \cup {None}

LEMMA TypedStep ==
  ASSUME Coursed, [Next]_vars, NEW q \in Requests, Typed(q)
  PROVE  Typed(q)'
<1>1. Turns(q)
  BY AllTurns
<1>2. CASE req'[q] = req[q]
  BY <1>2 DEF Typed
<1>3. CASE Stage(q) = "unsent" /\ req'[q].stage = "hub" /\ Keeps(q, {"stage", "target"})
  BY <1>3 DEF Typed, Keeps, Fields
<1>4. CASE /\ Stage(q) \in {"hub", "agent"} /\ req'[q].stage \in {"agent", "dropped", "cut"}
           /\ Keeps(q, {"stage"})
  BY <1>4 DEF Typed, Keeps, Fields
<1>5. CASE /\ req'[q].stage = "agent" /\ req'[q].step \in Steps
           /\ Keeps(q, {"step", "target", "seen", "left"})
  BY <1>5 DEF Typed, Keeps, Fields
<1>6. CASE /\ req'[q].stage = "answered" /\ req'[q].verdict \in {"success", "failed"}
           /\ req'[q].to \subseteq Browsers \cup {req[q].from} /\ Keeps(q, {"stage", "verdict", "to"})
  BY <1>6 DEF Typed, Keeps, Fields
<1>7. CASE req'[q].stage = "shown" /\ Keeps(q, {"stage"})
  BY <1>7 DEF Typed, Keeps, Fields
<1> QED BY <1>1, <1>2, <1>3, <1>4, <1>5, <1>6, <1>7 DEF Turns

\* What changes the panels and the forwards.
LEMMA EndsOnly ==
  ASSUME [Next]_vars
  PROVE  /\ panels' = panels \/ \E r \in Requests : Send(r) \/ Deliver(r) \/ TimesOut(r)
         /\ \/ forwards' = forwards
            \/ AgentRestarts \/ \E r \in Requests : ForwardStarts(r) \/ ForwardStops(r)
         /\ faults' = faults \/ Fault
<1>1. ASSUME NEW r \in Requests, Send(r) \/ Relaying(r) \/ TimesOut(r)
      PROVE  /\ UNCHANGED <<forwards, faults>>
             /\ Send(r) \/ Deliver(r) \/ TimesOut(r) \/ panels' = panels
  BY <1>1 DEF Send, Relaying, HubRejects, HubForwards, Deliver, TimesOut, browser
<1>2. ASSUME NEW r \in Requests,
             \/ SwitchReturns(r) \/ CallReturns(r) \/ BatchItem(r) \/ Applies(r) \/ BatchEnds(r) \/ LogBatch(r)
             \/ CallFails(r) \/ CallHangs(r) \/ DownloadBreaks(r)
      PROVE  UNCHANGED <<panels, forwards>> /\ (faults' = faults \/ Fault)
  BY <1>2 DEF SwitchReturns, CallReturns, BatchItem, Applies, BatchEnds, LogBatch, CallFails, CallHangs,
              DownloadBreaks, RemovesAndFails, browser
<1>3. ASSUME NEW r \in Requests, Dispatch(r)
      PROVE  UNCHANGED <<panels, forwards, faults>>
  BY <1>3 DEF Dispatch, browser
<1>4. ASSUME NEW r \in Requests, ForwardStarts(r) \/ ForwardStops(r)
      PROVE  UNCHANGED <<panels, faults>>
  BY <1>4 DEF ForwardStarts, ForwardStops, browser
<1>5. ASSUME NEW r \in Requests, UpdateContainer(r)
      PROVE  UNCHANGED <<panels, forwards>> /\ (faults' = faults \/ Fault)
  <2>1. ASSUME NEW refused, NEW effect, NEW next, NEW onError, DockerCall(r, refused, effect, next, onError)
        PROVE  UNCHANGED <<panels, forwards>> /\ (faults' = faults \/ Fault)
    BY <2>1 DEF DockerCall, browser
  <2>2. CASE Inspect(r) \/ Pull(r) \/ UpdateEnds(r)
    BY <2>2 DEF Inspect, Pull, UpdateEnds, browser
  <2>3. CASE Stop(r) \/ Rename(r) \/ Create(r) \/ Start(r)
    BY <2>1, <2>3 DEF Stop, Rename, Create, Start
  <2>4. CASE RemoveOld(r) \/ RemoveNew(r) \/ RenameBack(r) \/ StartBack(r)
    BY <2>1, <2>4 DEF RemoveOld, RemoveNew, RenameBack, StartBack
  <2> QED BY <1>5, <2>2, <2>3, <2>4 DEF UpdateContainer
<1>6. ASSUME NEW r \in Requests, Edit(r) \/ UpdateAgent(r)
      PROVE  UNCHANGED <<panels, forwards, faults>>
  <2>1. CASE Read(r) \/ Put(r) \/ RolloutDone(r) \/ RolloutTimesOut(r)
    BY <2>1 DEF Read, Put, RolloutDone, RolloutTimesOut, browser
  <2>2. CASE List(r)
    BY <2>2 DEF List, browser
  <2>3. CASE UpdateAgent(r)
    BY <2>3 DEF UpdateAgent, Sums, Open, Download, Install, InstallFails, RemovesAndFails, browser
  <2> QED BY <1>6, <2>1, <2>2, <2>3 DEF Edit
<1>7. CASE Controller \/ UNCHANGED vars
  <2>1. CASE ControllerObserves
    BY <2>1 DEF ControllerObserves, browser
  <2>2. CASE ControllerFinishes
    BY <2>2 DEF ControllerFinishes, browser
  <2>3. CASE UNCHANGED vars
    BY <2>3 DEF vars, browser
  <2> QED BY <1>7, <2>1, <2>2, <2>3 DEF Controller
<1>8. CASE AgentRestarts
  BY <1>8 DEF AgentRestarts, browser
<1> QED BY <1>1, <1>2, <1>3, <1>4, <1>5, <1>6, <1>7, <1>8 DEF Next, Handle

LEMMA PanelsStep ==
  ASSUME Panels, \A q \in Requests : Typed(q), [Next]_vars
  PROVE  Panels'
<1>1. ASSUME NEW r \in Requests, Send(r)
      PROVE  Panels'
  <2>1. PICK p : p = [own |-> r, shows |-> "running", of |-> None]
    OBVIOUS
  <2>2. PanelOf(p)
    BY <2>1 DEF PanelOf
  <2>3. panels' = [panels EXCEPT ![req[r].from] = p]
    BY <1>1, <2>1 DEF Send
  <2> QED BY <2>2, <2>3 DEF Panels
<1>2. ASSUME NEW r \in Requests, TimesOut(r)
      PROVE  Panels'
  <2>1. PICK b \in Browsers : b = req[r].from
    BY DEF Typed
  <2>2. panels' = [panels EXCEPT ![b].shows = "timeout", ![b].of = None]
    BY <1>2, <2>1 DEF TimesOut
  <2>3. PanelOf(panels[b])
    BY DEF Panels
  <2>4. PICK p : p = [panels[b] EXCEPT !.shows = "timeout", !.of = None]
    OBVIOUS
  <2>5. PanelOf(p)
    BY <2>3, <2>4 DEF PanelOf
  <2>6. panels' = [panels EXCEPT ![b] = p]
    BY <2>2, <2>4 DEF Panels
  <2> QED BY <2>5, <2>6 DEF Panels
<1>3. ASSUME NEW r \in Requests, Deliver(r)
      PROVE  Panels'
  <2>1. PICK shown : panels' = [b \in Browsers |->
          IF b \in shown THEN [panels[b] EXCEPT !.shows = req[r].verdict, !.of = r] ELSE panels[b]]
    BY <1>3 DEF Deliver
  <2>2. req[r].verdict \in {"success", "failed"}
    BY <1>3 DEF Deliver, Stage, Typed
  <2>3. ASSUME NEW b \in Browsers
        PROVE  PanelOf(panels'[b])
    <3>1. PanelOf(panels[b])
      BY DEF Panels
    <3>2. PICK p : p = [panels[b] EXCEPT !.shows = req[r].verdict, !.of = r]
      OBVIOUS
    <3>3. PanelOf(p)
      BY <2>2, <3>1, <3>2 DEF PanelOf
    <3>4. panels'[b] = IF b \in shown THEN p ELSE panels[b]
      BY <2>1, <3>2
    <3> QED BY <3>1, <3>3, <3>4
  <2>4. DOMAIN panels' = Browsers
    BY <2>1
  <2> QED BY <2>3, <2>4 DEF Panels
<1>4. CASE panels' = panels
  BY <1>4 DEF Panels
<1> QED BY <1>1, <1>2, <1>3, <1>4, EndsOnly

LEMMA KeyedStep ==
  ASSUME Keyed, [Next]_vars
  PROVE  Keyed'
<1>1. CASE AgentRestarts
  BY <1>1 DEF AgentRestarts, Keyed
<1>2. ASSUME NEW r \in Requests, ForwardStarts(r) \/ ForwardStops(r)
      PROVE  Keyed'
  <2>1. CASE ForwardStarts(r)
    <3>1. PICK f : f = [live |-> forwards.live \cup {r}, key |-> r]
      OBVIOUS
    <3>2. forwards' = f
      BY <2>1, <3>1 DEF ForwardStarts
    <3> QED BY <3>1, <3>2 DEF Keyed
  <2>2. CASE ForwardStops(r)
    <3>1. PICK f : f = [live |-> forwards.live \ {forwards.key}, key |-> None]
      OBVIOUS
    <3>2. forwards' = f
      BY <2>2, <3>1 DEF ForwardStops
    <3> QED BY <3>1, <3>2 DEF Keyed
  <2> QED BY <1>2, <2>1, <2>2
<1>3. CASE forwards' = forwards
  BY <1>3 DEF Keyed
<1> QED BY <1>1, <1>2, <1>3, EndsOnly

Typing ==
  /\ Verified /\ Versions /\ Boxed /\ (\A q \in Requests : Asking(q) /\ Typed(q))
  /\ Panels /\ Keyed /\ Rolled /\ faults \in 0..MaxFaults

LEMMA TypingInit == Init => Typing
<1> SUFFICES ASSUME Init PROVE Typing
  OBVIOUS
<1>1. PICK asks \in Menus, from \in [Requests -> Browsers] :
        req = [r \in Requests |->
          [kind |-> asks[r][1], type |-> asks[r][2], from |-> from[r], stage |-> "unsent",
           step |-> "arrived", verdict |-> None, target |-> None, seen |-> None, left |-> 0,
           to |-> {}]]
  BY DEF Init
<1>2. \A q \in Requests : Typed(q)
  BY <1>1 DEF Typed, Steps
<1>3. Panels
  <2>1. PICK p : p = [own |-> None, shows |-> "idle", of |-> None]
    OBVIOUS
  <2>2. PanelOf(p)
    BY <2>1 DEF PanelOf
  <2>3. panels = [b \in Browsers |-> p]
    BY <2>1 DEF Init
  <2> QED BY <2>2, <2>3 DEF Panels
<1>4. Keyed /\ faults \in 0..MaxFaults
  BY ActionsAssumption DEF Init, Keyed
<1> QED BY <1>2, <1>3, <1>4, VerifiedInit, VersionsInit, BoxedInit, AskingInit, RolledInit DEF Typing

LEMMA TypingStep == Typing /\ [Next]_vars => Typing'
<1> SUFFICES ASSUME Typing, [Next]_vars PROVE Typing'
  OBVIOUS
<1>0. /\ Verified /\ Versions /\ Coursed /\ Boxed /\ (\A q \in Requests : Asking(q))
      /\ \A q \in Requests : Typed(q)
  BY DEF Typing, Verified
<1>1. Verified' /\ Versions' /\ Boxed'
  BY <1>0, VerifiedStep, VersionsStep, BoxedStep
<1>2. \A q \in Requests : (Asking(q) /\ Typed(q))'
  BY <1>0, AskingStep, TypedStep
<1>3. Panels' /\ Keyed' /\ Rolled'
  BY <1>0, PanelsStep, KeyedStep, RolledStep DEF Typing
<1>4. faults' \in 0..MaxFaults
  BY EndsOnly, ActionsAssumption DEF Fault, Typing
<1> QED BY <1>1, <1>2, <1>3, <1>4 DEF Typing

\* ws_agent.go, server.go, pkg/actions: requests, panels, containers, the rollout,
\* forwards and files keep their types, and no two containers have one name; when
\* they publish a port, at most one of them runs.
THEOREM TypeCorrect == Spec => []TypeOK
<1>1. ASSUME Boxed, ports
      PROVE  Cardinality({c \in box : c.up}) <= 1
  <2> DEFINE running == {c \in box : c.up}
  <2>1. CASE running = {}
    BY <2>1, FS_EmptySet
  <2>2. CASE running # {}
    <3>1. PICK c \in box : c.up
      BY <2>2
    <3>2. running = {c}
      BY <1>1, <3>1 DEF Boxed, OneUp
    <3> HIDE DEF running
    <3>3. Cardinality(running) = 1
      BY <3>2, FS_Singleton
    <3> QED BY <3>3 DEF running
  <2> QED BY <2>1, <2>2
<1>2. ASSUME Typing PROVE TypeOK
  <2>1. \A r \in Requests :
          /\ req[r].stage \in {"unsent", "hub", "agent", "answered", "shown", "dropped", "cut"}
          /\ req[r].step \in Steps /\ req[r].verdict \in {None, "success", "failed"}
          /\ req[r].to \subseteq Browsers
    BY <1>2 DEF Typing, Typed
  <2>2. \A b \in Browsers :
          /\ panels[b].own \in Requests \cup {None} /\ panels[b].of \in Requests \cup {None}
          /\ panels[b].shows \in {"idle", "running", "success", "failed", "timeout"}
    BY <1>2 DEF Typing, Panels, PanelOf
  <2>3. \A c, d \in box : c.name = d.name \/ c.id = d.id => c = d
    BY <1>2 DEF Typing, Boxed, Told
  <2>4. ports => Cardinality({c \in box : c.up}) <= 1
    BY <1>1, <1>2 DEF Typing
  <2>5. files.exe \in DOMAIN files.body /\ files.tmp \in DOMAIN files.body
    BY <1>2 DEF Typing, Verified, Filed
  <2> QED BY <1>2, <2>1, <2>2, <2>3, <2>4, <2>5 DEF TypeOK, Typing, Rolled, Keyed
<1> HIDE DEF TypeOK
<1> QED BY <1>2, TypingInit, TypingStep, PTL DEF Spec
===============================================================================
