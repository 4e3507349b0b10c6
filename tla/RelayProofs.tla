---------------------------- MODULE RelayProofs ----------------------------
(***************************************************************************)
(* Proofs about Relay for every set of machines, agent connections,        *)
(* browsers and DELETE requests, and every number of payloads.             *)
(***************************************************************************)
EXTENDS Relay, TLAPS

-----------------------------------------------------------------------------
\* Types.

\* Handlers that have got past the choice of a session have one.
HasSession ==
  /\ \A c \in Conns :
       ah[c].pc \notin {"none", "hello", "rejected", "done"} => ah[c].sess \in Sessions
  /\ \A b \in Browsers : bh[b].pc # "none" => bh[b].sess \in Sessions
  /\ \A d \in Deleters : dh[d].pc = "found" => dh[d].sess \in Sessions
  /\ \A d \in Deleters : dh[d].pc # "none" => dh[d].machine \in Clusters

Typed == TypeOK /\ HasSession

USE NoneAssumption, MaxPayloadsAssumption, LegacyAssumption, ClustersAssumption

\* The initial state is well typed.
LEMMA TypedInit == Init => Typed
<1> SUFFICES ASSUME Init PROVE Typed
  OBVIOUS
<1>1. None \in OptSession /\ None \in OptMachine /\ NoPayload \in Cached
      /\ Connected \in Messages
  BY DEF OptSession, OptMachine, Cached, Messages
<1>2. "none" \in AgentPC /\ "none" \in BrowserPC /\ "none" \in DeletePC
      /\ "paired" \in Status
  BY DEF AgentPC, BrowserPC, DeletePC, Status
<1>3. conn \in [Conns -> ConnRecord]
  BY <1>1 DEF Init, ConnRecord
<1>4. sess \in [Sessions -> SessionRecord]
  BY <1>1 DEF Init, SessionRecord, NoSession
<1>5. ah \in [Conns -> AgentHandlerRecord]
  BY <1>1, <1>2 DEF Init, AgentHandlerRecord
<1>6. bh \in [Browsers -> BrowserHandlerRecord] /\ view \in [Browsers -> ViewRecord]
  BY <1>1, <1>2 DEF Init, BrowserHandlerRecord, ViewRecord
<1>7. dh \in [Deleters -> DeleteHandlerRecord]
  BY <1>1, <1>2 DEF Init, DeleteHandlerRecord
<1>8. TypeOK
  <2>1. held \in [Machines -> OptSession] /\ byMachine \in [Machines -> OptSession]
    BY <1>1 DEF Init
  <2>2. dialed \in [Machines -> Conns \cup {None}] /\ localSession \in OptSession
    BY <1>1 DEF Init
  <2>3. stored \in SUBSET Sessions /\ removed \in SUBSET Clusters
        /\ payloads \in 0..MaxPayloads
    BY DEF Init
  <2> QED BY <2>1, <2>2, <2>3, <1>3, <1>4, <1>5, <1>6, <1>7 DEF TypeOK
<1>9. HasSession
  BY DEF Init, HasSession
<1> QED BY <1>8, <1>9 DEF Typed

\* Messages leave a browser with a status.
LEMMA StatusOK ==
  ASSUME NEW msg, NEW status \in Status
  PROVE  StatusAfter(msg, status) \in Status
BY DEF StatusAfter, Status

\* An update of one field leaves a record a session.
LEMMA SessionUpdate ==
  ASSUME NEW x \in SessionRecord
  PROVE  /\ [x EXCEPT !.named = TRUE] \in SessionRecord
         /\ \A p \in Cached : [x EXCEPT !.cached = p] \in SessionRecord
         /\ \A t \in SUBSET Browsers : [x EXCEPT !.browsers = t] \in SessionRecord
         /\ \A c \in Conns : [x EXCEPT !.conn = c, !.online = TRUE] \in SessionRecord
BY DEF SessionRecord

\* So does the update of one session of a family.
LEMMA FamilyUpdate ==
  ASSUME NEW S, NEW T, NEW f \in [S -> T], NEW s, NEW t, s \in S => t \in T
  PROVE  [f EXCEPT ![s] = t] \in [S -> T]
OBVIOUS

\* One lemma per action: it keeps the types.
LEMMA TypedAgentDial ==
  ASSUME Typed, NEW m \in Machines, NEW c \in Conns, AgentDial(m, c)
  PROVE  Typed'
<1>1. conn' \in [Conns -> ConnRecord]
  <2>1. conn \in [Conns -> ConnRecord]
    BY DEF Typed, TypeOK
  <2>2. held[m] \in OptSession
    BY DEF Typed, TypeOK
  <2>3. m \in OptMachine /\ None \in OptSession
    BY DEF OptMachine, OptSession
  <2> QED BY <2>1, <2>2, <2>3 DEF AgentDial, Dial, ConnRecord
<1>2. ah' \in [Conns -> AgentHandlerRecord]
  <2>1. ah \in [Conns -> AgentHandlerRecord]
    BY DEF Typed, TypeOK
  <2>2. "hello" \in AgentPC
    BY DEF AgentPC
  <2> QED BY <2>1, <2>2 DEF AgentDial, Dial, AgentHandlerRecord
<1>3. TypeOK'
  BY <1>1, <1>2 DEF AgentDial, Dial, Typed, TypeOK, agentVars, storeVars, browserVars,
         deleteVars
<1>4. HasSession'
  BY DEF AgentDial, Dial, Typed, TypeOK, HasSession, AgentHandlerRecord,
         BrowserHandlerRecord, DeleteHandlerRecord, agentVars, storeVars, browserVars,
         deleteVars
<1> QED BY <1>3, <1>4 DEF Typed

LEMMA TypedLegacyDial ==
  ASSUME Typed, NEW c \in Conns, LegacyDial(c)
  PROVE  Typed'
<1>1. conn' \in [Conns -> ConnRecord]
  <2>1. conn \in [Conns -> ConnRecord]
    BY DEF Typed, TypeOK
  <2>2. None \in OptSession /\ None \in OptMachine
    BY DEF OptSession, OptMachine
  <2> QED BY <2>1, <2>2 DEF LegacyDial, Dial, ConnRecord
<1>2. ah' \in [Conns -> AgentHandlerRecord]
  <2>1. ah \in [Conns -> AgentHandlerRecord]
    BY DEF Typed, TypeOK
  <2>2. "hello" \in AgentPC
    BY DEF AgentPC
  <2> QED BY <2>1, <2>2 DEF LegacyDial, Dial, AgentHandlerRecord
<1>3. TypeOK'
  BY <1>1, <1>2 DEF LegacyDial, Dial, Typed, TypeOK, agentVars, storeVars, browserVars,
         deleteVars
<1>4. HasSession'
  BY DEF LegacyDial, Dial, Typed, TypeOK, HasSession, AgentHandlerRecord,
         BrowserHandlerRecord, DeleteHandlerRecord, agentVars, storeVars, browserVars,
         deleteVars
<1> QED BY <1>3, <1>4 DEF Typed

LEMMA TypedAgentStops ==
  ASSUME Typed, NEW m \in Machines, AgentStops(m)
  PROVE  Typed'
<1>1. TypeOK'
  BY DEF AgentStops, Typed, TypeOK, agentVars, storeVars, browserVars, deleteVars
<1>2. HasSession'
  BY DEF AgentStops, Typed, TypeOK, HasSession, AgentHandlerRecord,
         BrowserHandlerRecord, DeleteHandlerRecord, agentVars, storeVars, browserVars,
         deleteVars
<1> QED BY <1>1, <1>2 DEF Typed

LEMMA TypedConnLost ==
  ASSUME Typed, NEW c \in Conns, ConnLost(c)
  PROVE  Typed'
<1>1. conn' \in [Conns -> ConnRecord]
  <2>1. conn \in [Conns -> ConnRecord]
    BY DEF Typed, TypeOK
  <2> QED BY <2>1 DEF ConnLost, ConnRecord
<1>2. TypeOK'
  BY <1>1 DEF ConnLost, Typed, TypeOK, agentVars, storeVars, browserVars, deleteVars
<1>3. HasSession'
  BY DEF ConnLost, Typed, TypeOK, HasSession, AgentHandlerRecord, BrowserHandlerRecord,
         DeleteHandlerRecord, agentVars, storeVars, browserVars, deleteVars
<1> QED BY <1>2, <1>3 DEF Typed

LEMMA TypedReceivePairCode ==
  ASSUME Typed, NEW c \in Conns, ReceivePairCode(c)
  PROVE  Typed'
<1>1. conn' \in [Conns -> ConnRecord]
  <2>1. conn \in [Conns -> ConnRecord]
    BY DEF Typed, TypeOK
  <2>2. None \in OptSession
    BY DEF OptSession
  <2> QED BY <2>1, <2>2 DEF ReceivePairCode, ConnRecord
<1>2. conn[c].issued \in OptSession /\ conn[c].by \in OptMachine
  BY DEF Typed, TypeOK, ConnRecord
<1>3. TypeOK'
  BY <1>1, <1>2 DEF ReceivePairCode, Typed, TypeOK, agentVars, storeVars, browserVars,
         deleteVars, OptSession
<1>4. HasSession'
  BY DEF ReceivePairCode, Typed, TypeOK, HasSession, AgentHandlerRecord,
         BrowserHandlerRecord, DeleteHandlerRecord, agentVars, storeVars, browserVars,
         deleteVars
<1> QED BY <1>3, <1>4 DEF Typed

LEMMA TypedNoHello ==
  ASSUME Typed, NEW c \in Conns, NoHello(c)
  PROVE  Typed'
<1>1. ah' \in [Conns -> AgentHandlerRecord]
  <2>1. ah \in [Conns -> AgentHandlerRecord]
    BY DEF Typed, TypeOK
  <2>2. "done" \in AgentPC
    BY DEF AgentPC
  <2> QED BY <2>1, <2>2 DEF NoHello, AgentHandlerRecord
<1>2. TypeOK'
  BY <1>1 DEF NoHello, Typed, TypeOK, agentVars, storeVars, browserVars, deleteVars
<1>3. HasSession'
  BY DEF NoHello, Typed, TypeOK, HasSession, AgentHandlerRecord, BrowserHandlerRecord,
         DeleteHandlerRecord, agentVars, storeVars, browserVars, deleteVars
<1> QED BY <1>2, <1>3 DEF Typed

LEMMA TypedCreateSession ==
  ASSUME Typed, NEW c \in Conns, CreateSession(c)
  PROVE  Typed'
<1>1. sess' \in [Sessions -> SessionRecord]
  <2>1. sess \in [Sessions -> SessionRecord]
    BY DEF Typed, TypeOK
  <2>2. conn[c].by \in OptMachine
    BY DEF Typed, TypeOK, ConnRecord
  <2>3. NoPayload \in Cached
    BY DEF Cached
  <2> QED BY <2>1, <2>2, <2>3 DEF CreateSession, SessionRecord, NoSession, OptMachine,
         Sessions
<1>2. ah' \in [Conns -> AgentHandlerRecord]
  <2>1. ah \in [Conns -> AgentHandlerRecord]
    BY DEF Typed, TypeOK
  <2>2. "registered" \in AgentPC
    BY DEF AgentPC
  <2>3. c \in OptSession /\ None \in OptSession
    BY DEF OptSession, Sessions
  <2> DEFINE k == IF conn[c].by = None THEN None ELSE c
             r == [ah[c] EXCEPT !.pc = "registered", !.sess = c, !.secret = k]
  <2>4. k \in OptSession
    BY <2>3
  <2>5. r \in AgentHandlerRecord
    BY <2>1, <2>2, <2>3, <2>4 DEF AgentHandlerRecord
  <2>6. ah' = [ah EXCEPT ![c] = r]
    BY DEF CreateSession
  <2> QED BY <2>1, <2>5, <2>6, FamilyUpdate
<1>3. conn[c].by \in OptMachine /\ c \in Sessions /\ c \in OptSession
  BY DEF Typed, TypeOK, ConnRecord, OptSession, Sessions
<1>4. TypeOK'
  BY <1>1, <1>2, <1>3 DEF CreateSession, Typed, TypeOK, agentVars, storeVars,
         browserVars, deleteVars, OptMachine
<1>5. HasSession'
  BY DEF CreateSession, Typed, TypeOK, HasSession, AgentHandlerRecord,
         BrowserHandlerRecord, DeleteHandlerRecord, agentVars, storeVars, browserVars,
         deleteVars, Sessions, OptSession
<1> QED BY <1>4, <1>5 DEF Typed

LEMMA TypedResumeSession ==
  ASSUME Typed, NEW c \in Conns, ResumeSession(c)
  PROVE  Typed'
<1>1. sess' \in [Sessions -> SessionRecord]
  <2>1. sess \in [Sessions -> SessionRecord]
    BY DEF Typed, TypeOK
  <2> DEFINE s == byMachine[conn[c].by]
             r == [sess[s] EXCEPT !.conn = c, !.online = TRUE]
  <2>2. s \in Sessions => r \in SessionRecord
    BY <2>1, SessionUpdate
  <2>3. sess' = [sess EXCEPT ![s] = r]
    BY DEF ResumeSession
  <2> QED BY <2>1, <2>2, <2>3, FamilyUpdate
<1>2. ah' \in [Conns -> AgentHandlerRecord]
  <2>1. ah \in [Conns -> AgentHandlerRecord]
    BY DEF Typed, TypeOK
  <2>2. "registered" \in AgentPC
    BY DEF AgentPC
  <2>3. conn[c].by # None => byMachine[conn[c].by] \in OptSession
    BY DEF Typed, TypeOK, ConnRecord, OptMachine
  <2> QED BY <2>1, <2>2, <2>3 DEF ResumeSession, AgentHandlerRecord
<1>3. TypeOK'
  BY <1>1, <1>2 DEF ResumeSession, Typed, TypeOK, agentVars, storeVars, browserVars,
         deleteVars
<1>4. HasSession'
  BY DEF ResumeSession, Typed, TypeOK, HasSession, AgentHandlerRecord,
         BrowserHandlerRecord, DeleteHandlerRecord, agentVars, storeVars, browserVars,
         deleteVars, Sessions, OptSession, ConnRecord, OptMachine
<1> QED BY <1>3, <1>4 DEF Typed

LEMMA TypedRejectHello ==
  ASSUME Typed, NEW c \in Conns, RejectHello(c)
  PROVE  Typed'
<1>1. conn' \in [Conns -> ConnRecord]
  <2>1. conn \in [Conns -> ConnRecord]
    BY DEF Typed, TypeOK
  <2> QED BY <2>1 DEF RejectHello, ConnRecord
<1>2. ah' \in [Conns -> AgentHandlerRecord]
  <2>1. ah \in [Conns -> AgentHandlerRecord]
    BY DEF Typed, TypeOK
  <2>2. "rejected" \in AgentPC
    BY DEF AgentPC
  <2> QED BY <2>1, <2>2 DEF RejectHello, AgentHandlerRecord
<1>3. TypeOK'
  BY <1>1, <1>2 DEF RejectHello, Typed, TypeOK, agentVars, storeVars, browserVars,
         deleteVars
<1>4. HasSession'
  BY DEF RejectHello, Typed, TypeOK, HasSession, AgentHandlerRecord,
         BrowserHandlerRecord, DeleteHandlerRecord, agentVars, storeVars, browserVars,
         deleteVars
<1> QED BY <1>3, <1>4 DEF Typed

LEMMA TypedBindLocal ==
  ASSUME Typed, NEW c \in Conns, BindLocal(c)
  PROVE  Typed'
<1>1. ah' \in [Conns -> AgentHandlerRecord]
  <2>1. ah \in [Conns -> AgentHandlerRecord]
    BY DEF Typed, TypeOK
  <2>2. "bound" \in AgentPC
    BY DEF AgentPC
  <2> QED BY <2>1, <2>2 DEF BindLocal, AgentHandlerRecord
<1>2. ah[c].sess \in OptSession
  BY DEF Typed, TypeOK, AgentHandlerRecord
<1>3. TypeOK'
  BY <1>1, <1>2 DEF BindLocal, Typed, TypeOK, agentVars, storeVars, browserVars,
         deleteVars
<1>4. HasSession'
  BY DEF BindLocal, Typed, TypeOK, HasSession, AgentHandlerRecord, BrowserHandlerRecord,
         DeleteHandlerRecord, agentVars, storeVars, browserVars, deleteVars
<1> QED BY <1>3, <1>4 DEF Typed

LEMMA TypedSendPairCode ==
  ASSUME Typed, NEW c \in Conns, SendPairCode(c)
  PROVE  Typed'
<1>1. conn' \in [Conns -> ConnRecord]
  <2>1. conn \in [Conns -> ConnRecord]
    BY DEF Typed, TypeOK
  <2>2. ah[c].secret \in OptSession
    BY DEF Typed, TypeOK, AgentHandlerRecord
  <2> QED BY <2>1, <2>2 DEF SendPairCode, ConnRecord
<1>2. ah' \in [Conns -> AgentHandlerRecord]
  <2>1. ah \in [Conns -> AgentHandlerRecord]
    BY DEF Typed, TypeOK
  <2>2. "paired" \in AgentPC
    BY DEF AgentPC
  <2> QED BY <2>1, <2>2 DEF SendPairCode, AgentHandlerRecord
<1>3. TypeOK'
  BY <1>1, <1>2 DEF SendPairCode, Typed, TypeOK, agentVars, storeVars, browserVars,
         deleteVars
<1>4. HasSession'
  BY DEF SendPairCode, Typed, TypeOK, HasSession, AgentHandlerRecord,
         BrowserHandlerRecord, DeleteHandlerRecord, agentVars, storeVars, browserVars,
         deleteVars
<1> QED BY <1>3, <1>4 DEF Typed

LEMMA TypedRouteHello ==
  ASSUME Typed, NEW c \in Conns, RouteHello(c)
  PROVE  Typed'
<1>1. sess' \in [Sessions -> SessionRecord]
  <2>1. sess \in [Sessions -> SessionRecord]
    BY DEF Typed, TypeOK
  <2>2. ah[c].sess \in Sessions =>
          [sess[ah[c].sess] EXCEPT !.named = TRUE] \in SessionRecord
    BY <2>1, SessionUpdate
  <2>3. sess' = [sess EXCEPT ![ah[c].sess] = [sess[ah[c].sess] EXCEPT !.named = TRUE]]
    BY DEF RouteHello
  <2> QED BY <2>1, <2>2, <2>3, FamilyUpdate
<1>2. ah' \in [Conns -> AgentHandlerRecord]
  <2>1. ah \in [Conns -> AgentHandlerRecord]
    BY DEF Typed, TypeOK
  <2>2. "copying" \in AgentPC
    BY DEF AgentPC
  <2>3. Connected \in Messages
    BY DEF Messages
  <2> QED BY <2>1, <2>2, <2>3 DEF RouteHello, Broadcast, AgentHandlerRecord
<1>3. TypeOK'
  BY <1>1, <1>2 DEF RouteHello, Broadcast, Typed, TypeOK, agentVars, storeVars,
         browserVars, deleteVars
<1>4. HasSession'
  BY DEF RouteHello, Broadcast, Typed, TypeOK, HasSession, AgentHandlerRecord,
         BrowserHandlerRecord, DeleteHandlerRecord, agentVars, storeVars, browserVars,
         deleteVars
<1> QED BY <1>3, <1>4 DEF Typed

LEMMA TypedCopyBrowsers ==
  ASSUME Typed, NEW c \in Conns, CopyBrowsers(c)
  PROVE  Typed'
<1>1. ah' \in [Conns -> AgentHandlerRecord]
  <2>1. ah \in [Conns -> AgentHandlerRecord]
    BY DEF Typed, TypeOK
  <2>2. "casting" \in AgentPC /\ "done" \in AgentPC /\ "reading" \in AgentPC
    BY DEF AgentPC
  <2>3. ah[c].sess \in Sessions
    BY DEF Typed, HasSession, CopyBrowsers
  <2>4. sess[ah[c].sess].browsers \in SUBSET Browsers
    BY <2>3 DEF Typed, TypeOK, SessionRecord
  <2> QED BY <2>1, <2>2, <2>3, <2>4 DEF CopyBrowsers, Casting, AgentHandlerRecord
<1>2. TypeOK'
  BY <1>1 DEF CopyBrowsers, Casting, Typed, TypeOK, agentVars, storeVars, browserVars,
         deleteVars
<1>3. HasSession'
  BY DEF CopyBrowsers, Casting, Typed, TypeOK, HasSession, AgentHandlerRecord,
         BrowserHandlerRecord, DeleteHandlerRecord, agentVars, storeVars, browserVars,
         deleteVars
<1> QED BY <1>2, <1>3 DEF Typed

LEMMA TypedSendTo ==
  ASSUME Typed, NEW c \in Conns, NEW b \in Browsers, SendTo(c, b)
  PROVE  Typed'
<1>1. ah' \in [Conns -> AgentHandlerRecord]
  <2>1. ah \in [Conns -> AgentHandlerRecord]
    BY DEF Typed, TypeOK
  <2>2. "casting" \in AgentPC /\ "done" \in AgentPC /\ "reading" \in AgentPC
    BY DEF AgentPC
  <2>3. ah[c].to \ {b} \in SUBSET Browsers
    BY DEF Typed, TypeOK, AgentHandlerRecord
  <2> DEFINE t == ah[c].to \ {b}
             p == IF t # {} THEN "casting"
                  ELSE IF ah[c].msg = Disconnected THEN "done" ELSE "reading"
             r == [ah[c] EXCEPT !.to = t, !.pc = p]
  <2>4. p \in AgentPC
    BY <2>2
  <2>5. r \in AgentHandlerRecord
    BY <2>1, <2>3, <2>4 DEF AgentHandlerRecord
  <2>6. ah' = [ah EXCEPT ![c] = r]
    BY DEF SendTo, Casting
  <2> QED BY <2>1, <2>5, <2>6, FamilyUpdate
<1>2. view' \in [Browsers -> ViewRecord]
  <2>1. view \in [Browsers -> ViewRecord]
    BY DEF Typed, TypeOK
  <2>2. ah[c].msg \in Messages
    BY DEF Typed, TypeOK, AgentHandlerRecord
  <2> QED BY <2>1, <2>2, StatusOK DEF SendTo, Casting, ViewRecord, Told
<1>3. TypeOK'
  BY <1>1, <1>2 DEF SendTo, Typed, TypeOK, agentVars, storeVars, browserVars,
         deleteVars
<1>4. HasSession'
  <2>1. \A d \in Conns : ah'[d].sess = ah[d].sess
    BY DEF SendTo, Casting, Typed, TypeOK, AgentHandlerRecord
  <2>2. ah[c].pc = "casting" /\ \A d \in Conns \ {c} : ah'[d].pc = ah[d].pc
    BY DEF SendTo, Casting, Typed, TypeOK
  <2>3. UNCHANGED <<bh, dh>> /\ Sessions' = Sessions
    BY DEF SendTo, deleteVars, Sessions
  <2> QED BY <2>1, <2>2, <2>3 DEF Typed, HasSession
<1> QED BY <1>3, <1>4 DEF Typed

LEMMA TypedReadFails ==
  ASSUME Typed, NEW c \in Conns, ReadFails(c)
  PROVE  Typed'
<1>1. ah' \in [Conns -> AgentHandlerRecord]
  <2>1. ah \in [Conns -> AgentHandlerRecord]
    BY DEF Typed, TypeOK
  <2>2. "closing" \in AgentPC
    BY DEF AgentPC
  <2> QED BY <2>1, <2>2 DEF ReadFails, AgentHandlerRecord
<1>2. TypeOK'
  BY <1>1 DEF ReadFails, Typed, TypeOK, agentVars, storeVars, browserVars, deleteVars
<1>3. HasSession'
  BY DEF ReadFails, Typed, TypeOK, HasSession, AgentHandlerRecord, BrowserHandlerRecord,
         DeleteHandlerRecord, agentVars, storeVars, browserVars, deleteVars
<1> QED BY <1>2, <1>3 DEF Typed

LEMMA TypedDropSuperseded ==
  ASSUME Typed, NEW c \in Conns, DropSuperseded(c)
  PROVE  Typed'
<1>1. ah' \in [Conns -> AgentHandlerRecord]
  <2>1. ah \in [Conns -> AgentHandlerRecord]
    BY DEF Typed, TypeOK
  <2>2. "done" \in AgentPC
    BY DEF AgentPC
  <2> QED BY <2>1, <2>2 DEF DropSuperseded, AgentHandlerRecord
<1>2. TypeOK'
  BY <1>1 DEF DropSuperseded, Typed, TypeOK, agentVars, storeVars, browserVars,
         deleteVars
<1>3. HasSession'
  BY DEF DropSuperseded, Typed, TypeOK, HasSession, AgentHandlerRecord,
         BrowserHandlerRecord, DeleteHandlerRecord, agentVars, storeVars, browserVars,
         deleteVars
<1> QED BY <1>2, <1>3 DEF Typed

LEMMA TypedDropAgent ==
  ASSUME Typed, NEW c \in Conns, DropAgent(c)
  PROVE  Typed'
<1>1. sess' \in [Sessions -> SessionRecord]
  <2>1. sess \in [Sessions -> SessionRecord]
    BY DEF Typed, TypeOK
  <2>2. ah[c].sess \in Sessions
    BY DEF Typed, HasSession, DropAgent
  <2> QED BY <2>1, <2>2 DEF DropAgent, SessionRecord
<1>2. ah' \in [Conns -> AgentHandlerRecord]
  <2>1. ah \in [Conns -> AgentHandlerRecord]
    BY DEF Typed, TypeOK
  <2>2. "copying" \in AgentPC /\ "dropped" \in AgentPC
    BY DEF AgentPC
  <2>3. Disconnected \in Messages
    BY DEF Messages
  <2>4. CASE sess[ah[c].sess].machine # None
    <3>1. ah' = [ah EXCEPT ![c] = [ah[c] EXCEPT !.pc = "copying", !.msg = Disconnected]]
      BY <2>4 DEF DropAgent
    <3>2. [ah[c] EXCEPT !.pc = "copying", !.msg = Disconnected] \in AgentHandlerRecord
      BY <2>1, <2>2, <2>3 DEF AgentHandlerRecord
    <3> QED BY <2>1, <3>1, <3>2, FamilyUpdate
  <2>5. CASE sess[ah[c].sess].machine = None
    <3>1. ah' = [ah EXCEPT ![c] = [ah[c] EXCEPT !.pc = "dropped"]]
      BY <2>5 DEF DropAgent
    <3>2. [ah[c] EXCEPT !.pc = "dropped"] \in AgentHandlerRecord
      BY <2>1, <2>2 DEF AgentHandlerRecord
    <3> QED BY <2>1, <3>1, <3>2, FamilyUpdate
  <2> QED BY <2>4, <2>5
<1>3. TypeOK'
  BY <1>1, <1>2 DEF DropAgent, Typed, TypeOK, agentVars, storeVars, browserVars,
         deleteVars
<1>4. HasSession'
  BY DEF DropAgent, Typed, TypeOK, HasSession, AgentHandlerRecord, BrowserHandlerRecord,
         DeleteHandlerRecord, agentVars, storeVars, browserVars, deleteVars
<1> QED BY <1>3, <1>4 DEF Typed

LEMMA TypedDeleteLegacy ==
  ASSUME Typed, NEW c \in Conns, DeleteLegacy(c)
  PROVE  Typed'
<1>1. ah' \in [Conns -> AgentHandlerRecord]
  <2>1. ah \in [Conns -> AgentHandlerRecord]
    BY DEF Typed, TypeOK
  <2>2. "unlink" \in AgentPC
    BY DEF AgentPC
  <2> QED BY <2>1, <2>2 DEF DeleteLegacy, AgentHandlerRecord
<1>2. TypeOK'
  BY <1>1 DEF DeleteLegacy, Typed, TypeOK, agentVars, storeVars, browserVars, deleteVars
<1>3. HasSession'
  BY DEF DeleteLegacy, Typed, TypeOK, HasSession, AgentHandlerRecord,
         BrowserHandlerRecord, DeleteHandlerRecord, agentVars, storeVars, browserVars,
         deleteVars
<1> QED BY <1>2, <1>3 DEF Typed

LEMMA TypedUnbindLocal ==
  ASSUME Typed, NEW c \in Conns, UnbindLocal(c)
  PROVE  Typed'
<1>1. ah' \in [Conns -> AgentHandlerRecord]
  <2>1. ah \in [Conns -> AgentHandlerRecord]
    BY DEF Typed, TypeOK
  <2>2. "copying" \in AgentPC
    BY DEF AgentPC
  <2>3. Disconnected \in Messages
    BY DEF Messages
  <2> QED BY <2>1, <2>2, <2>3 DEF UnbindLocal, Broadcast, AgentHandlerRecord
<1>2. None \in OptSession
  BY DEF OptSession
<1>3. TypeOK'
  BY <1>1, <1>2 DEF UnbindLocal, Broadcast, Typed, TypeOK, agentVars, storeVars,
         browserVars, deleteVars
<1>4. HasSession'
  BY DEF UnbindLocal, Broadcast, Typed, TypeOK, HasSession, AgentHandlerRecord,
         BrowserHandlerRecord, DeleteHandlerRecord, agentVars, storeVars, browserVars,
         deleteVars
<1> QED BY <1>3, <1>4 DEF Typed

LEMMA TypedRouteSnapshot ==
  ASSUME Typed, NEW c \in Conns, RouteSnapshot(c)
  PROVE  Typed'
<1>1. sess' \in [Sessions -> SessionRecord]
  <2>1. sess \in [Sessions -> SessionRecord]
    BY DEF Typed, TypeOK
  <2>2. [type |-> "snapshot", n |-> payloads + 1] \in Cached
    BY DEF RouteSnapshot, Typed, TypeOK, Cached, Payloads, Snapshots
  <2> DEFINE s == ah[c].sess
             r == [sess[s] EXCEPT !.cached = [type |-> "snapshot", n |-> payloads + 1]]
  <2>3. s \in Sessions => r \in SessionRecord
    BY <2>1, <2>2, SessionUpdate
  <2>4. sess' = [sess EXCEPT ![s] = r]
    BY DEF RouteSnapshot
  <2> QED BY <2>1, <2>3, <2>4, FamilyUpdate
<1>2. ah' \in [Conns -> AgentHandlerRecord]
  <2>1. ah \in [Conns -> AgentHandlerRecord]
    BY DEF Typed, TypeOK
  <2>2. "copying" \in AgentPC
    BY DEF AgentPC
  <2>3. [type |-> "snapshot", n |-> payloads + 1] \in Messages
    BY DEF RouteSnapshot, Typed, TypeOK, Messages, Payloads, Snapshots
  <2> QED BY <2>1, <2>2, <2>3 DEF RouteSnapshot, Broadcast, AgentHandlerRecord
<1>3. TypeOK'
  BY <1>1, <1>2 DEF RouteSnapshot, Broadcast, Typed, TypeOK, agentVars, storeVars,
         browserVars, deleteVars
<1>4. HasSession'
  BY DEF RouteSnapshot, Broadcast, Typed, TypeOK, HasSession, AgentHandlerRecord,
         BrowserHandlerRecord, DeleteHandlerRecord, agentVars, storeVars, browserVars,
         deleteVars
<1> QED BY <1>3, <1>4 DEF Typed

LEMMA TypedRouteDiscoveryError ==
  ASSUME Typed, NEW c \in Conns, RouteDiscoveryError(c)
  PROVE  Typed'
<1>1. sess' \in [Sessions -> SessionRecord]
  <2>1. sess \in [Sessions -> SessionRecord]
    BY DEF Typed, TypeOK
  <2>2. [type |-> "error", n |-> payloads + 1] \in Cached
    BY DEF RouteDiscoveryError, Typed, TypeOK, Cached, Payloads, Errors
  <2> DEFINE s == ah[c].sess
             p == [type |-> "error", n |-> payloads + 1]
             q == IF sess[s].cached \in Snapshots THEN sess[s].cached ELSE p
             r == [sess[s] EXCEPT !.cached = q]
  <2>3. s \in Sessions => q \in Cached
    BY <2>1, <2>2 DEF SessionRecord
  <2>4. s \in Sessions => r \in SessionRecord
    BY <2>1, <2>3, SessionUpdate
  <2>5. sess' = [sess EXCEPT ![s] = r]
    BY DEF RouteDiscoveryError
  <2> QED BY <2>1, <2>4, <2>5, FamilyUpdate
<1>2. ah' \in [Conns -> AgentHandlerRecord]
  <2>1. ah \in [Conns -> AgentHandlerRecord]
    BY DEF Typed, TypeOK
  <2>2. "copying" \in AgentPC
    BY DEF AgentPC
  <2>3. [type |-> "error", n |-> payloads + 1] \in Messages
    BY DEF RouteDiscoveryError, Typed, TypeOK, Messages, Payloads, Errors
  <2> QED BY <2>1, <2>2, <2>3 DEF RouteDiscoveryError, Broadcast, AgentHandlerRecord
<1>3. TypeOK'
  BY <1>1, <1>2 DEF RouteDiscoveryError, Broadcast, Typed, TypeOK, agentVars, storeVars,
         browserVars, deleteVars
<1>4. HasSession'
  BY DEF RouteDiscoveryError, Broadcast, Typed, TypeOK, HasSession, AgentHandlerRecord,
         BrowserHandlerRecord, DeleteHandlerRecord, agentVars, storeVars, browserVars,
         deleteVars
<1> QED BY <1>3, <1>4 DEF Typed

LEMMA TypedPairCodeFails ==
  ASSUME Typed, NEW c \in Conns, PairCodeFails(c)
  PROVE  Typed'
<1>1. conn' \in [Conns -> ConnRecord]
  <2>1. conn \in [Conns -> ConnRecord]
    BY DEF Typed, TypeOK
  <2> QED BY <2>1 DEF PairCodeFails, ConnRecord
<1>2. ah' \in [Conns -> AgentHandlerRecord]
  <2>1. ah \in [Conns -> AgentHandlerRecord]
    BY DEF Typed, TypeOK
  <2>2. "closing" \in AgentPC
    BY DEF AgentPC
  <2> QED BY <2>1, <2>2 DEF PairCodeFails, AgentHandlerRecord
<1>3. TypeOK'
  BY <1>1, <1>2 DEF PairCodeFails, Typed, TypeOK, agentVars, storeVars, browserVars,
         deleteVars
<1>4. HasSession'
  BY DEF PairCodeFails, Typed, TypeOK, HasSession, AgentHandlerRecord,
         BrowserHandlerRecord, DeleteHandlerRecord, agentVars, storeVars, browserVars,
         deleteVars
<1> QED BY <1>3, <1>4 DEF Typed

LEMMA TypedPairTo ==
  ASSUME Typed, NEW b \in Browsers, NEW s \in Sessions, PairTo(b, s)
  PROVE  Typed'
<1>1. bh' \in [Browsers -> BrowserHandlerRecord]
  <2>1. bh \in [Browsers -> BrowserHandlerRecord]
    BY DEF Typed, TypeOK
  <2>2. "resolved" \in BrowserPC
    BY DEF BrowserPC
  <2>3. s \in OptSession
    BY DEF OptSession
  <2> QED BY <2>1, <2>2, <2>3 DEF PairTo, BrowserHandlerRecord
<1>2. TypeOK'
  BY <1>1 DEF PairTo, Typed, TypeOK, agentVars, storeVars, browserVars, deleteVars
<1>3. HasSession'
  BY DEF PairTo, Typed, TypeOK, HasSession, AgentHandlerRecord, BrowserHandlerRecord,
         DeleteHandlerRecord, agentVars, storeVars, browserVars, deleteVars
<1> QED BY <1>2, <1>3 DEF Typed

LEMMA TypedAttach ==
  ASSUME Typed, NEW b \in Browsers, Attach(b)
  PROVE  Typed'
<1>1. sess' \in [Sessions -> SessionRecord]
  <2>1. sess \in [Sessions -> SessionRecord]
    BY DEF Typed, TypeOK
  <2> DEFINE s == bh[b].sess
             r == [sess[s] EXCEPT !.browsers = sess[s].browsers \cup {b}]
  <2>2. s \in Sessions => sess[s].browsers \cup {b} \in SUBSET Browsers
    BY <2>1 DEF SessionRecord
  <2>3. s \in Sessions => r \in SessionRecord
    BY <2>1, <2>2, SessionUpdate
  <2>4. sess' = [sess EXCEPT ![s] = r]
    BY DEF Attach
  <2> QED BY <2>1, <2>3, <2>4, FamilyUpdate
<1>2. bh' \in [Browsers -> BrowserHandlerRecord]
  <2>1. bh \in [Browsers -> BrowserHandlerRecord]
    BY DEF Typed, TypeOK
  <2>2. "attached" \in BrowserPC
    BY DEF BrowserPC
  <2> QED BY <2>1, <2>2 DEF Attach, BrowserHandlerRecord
<1>3. TypeOK'
  BY <1>1, <1>2 DEF Attach, Typed, TypeOK, agentVars, storeVars, browserVars, deleteVars
<1>4. HasSession'
  BY DEF Attach, Typed, TypeOK, HasSession, AgentHandlerRecord, BrowserHandlerRecord,
         DeleteHandlerRecord, agentVars, storeVars, browserVars, deleteVars
<1> QED BY <1>3, <1>4 DEF Typed

LEMMA TypedReadOnline ==
  ASSUME Typed, NEW b \in Browsers, ReadOnline(b)
  PROVE  Typed'
<1>1. bh' \in [Browsers -> BrowserHandlerRecord]
  <2>1. bh \in [Browsers -> BrowserHandlerRecord]
    BY DEF Typed, TypeOK
  <2>2. "queried" \in BrowserPC
    BY DEF BrowserPC
  <2>3. bh[b].sess \in Sessions
    BY DEF Typed, HasSession, ReadOnline
  <2>4. sess[bh[b].sess].online \in BOOLEAN
    BY <2>3 DEF Typed, TypeOK, SessionRecord
  <2> QED BY <2>1, <2>2, <2>3, <2>4 DEF ReadOnline, BrowserHandlerRecord
<1>2. TypeOK'
  BY <1>1 DEF ReadOnline, Typed, TypeOK, agentVars, storeVars, browserVars, deleteVars
<1>3. HasSession'
  BY DEF ReadOnline, Typed, TypeOK, HasSession, AgentHandlerRecord,
         BrowserHandlerRecord, DeleteHandlerRecord, agentVars, storeVars, browserVars,
         deleteVars
<1> QED BY <1>2, <1>3 DEF Typed

LEMMA TypedReplayHello ==
  ASSUME Typed, NEW b \in Browsers, ReplayHello(b)
  PROVE  Typed'
<1>1. bh' \in [Browsers -> BrowserHandlerRecord]
  <2>1. bh \in [Browsers -> BrowserHandlerRecord]
    BY DEF Typed, TypeOK
  <2>2. "greeted" \in BrowserPC
    BY DEF BrowserPC
  <2> QED BY <2>1, <2>2 DEF ReplayHello, BrowserHandlerRecord
<1>2. view' \in [Browsers -> ViewRecord]
  <2>1. view \in [Browsers -> ViewRecord]
    BY DEF Typed, TypeOK
  <2>2. Connected \in Messages
    BY DEF Messages
  <2> QED BY <2>1, <2>2, StatusOK DEF ReplayHello, ViewRecord, Told
<1>3. TypeOK'
  BY <1>1, <1>2 DEF ReplayHello, Typed, TypeOK, agentVars, storeVars, browserVars,
         deleteVars
<1>4. HasSession'
  BY DEF ReplayHello, Typed, TypeOK, HasSession, AgentHandlerRecord,
         BrowserHandlerRecord, DeleteHandlerRecord, agentVars, storeVars, browserVars,
         deleteVars
<1> QED BY <1>3, <1>4 DEF Typed

LEMMA TypedReadCache ==
  ASSUME Typed, NEW b \in Browsers, ReadCache(b)
  PROVE  Typed'
<1>1. bh' \in [Browsers -> BrowserHandlerRecord]
  <2>1. bh \in [Browsers -> BrowserHandlerRecord]
    BY DEF Typed, TypeOK
  <2>2. "replaying" \in BrowserPC
    BY DEF BrowserPC
  <2>3. bh[b].sess \in Sessions
    BY DEF Typed, HasSession, ReadCache
  <2>4. sess[bh[b].sess].cached \in Cached
    BY <2>3 DEF Typed, TypeOK, SessionRecord
  <2> QED BY <2>1, <2>2, <2>3, <2>4 DEF ReadCache, BrowserHandlerRecord
<1>2. TypeOK'
  BY <1>1 DEF ReadCache, Typed, TypeOK, agentVars, storeVars, browserVars, deleteVars
<1>3. HasSession'
  BY DEF ReadCache, Typed, TypeOK, HasSession, AgentHandlerRecord, BrowserHandlerRecord,
         DeleteHandlerRecord, agentVars, storeVars, browserVars, deleteVars
<1> QED BY <1>2, <1>3 DEF Typed

LEMMA TypedReplayCache ==
  ASSUME Typed, NEW b \in Browsers, ReplayCache(b)
  PROVE  Typed'
<1>1. bh' \in [Browsers -> BrowserHandlerRecord]
  <2>1. bh \in [Browsers -> BrowserHandlerRecord]
    BY DEF Typed, TypeOK
  <2>2. "replayed" \in BrowserPC
    BY DEF BrowserPC
  <2> QED BY <2>1, <2>2 DEF ReplayCache, BrowserHandlerRecord
<1>2. view' \in [Browsers -> ViewRecord]
  <2>1. view \in [Browsers -> ViewRecord]
    BY DEF Typed, TypeOK
  <2>2. bh[b].cached \in Cached
    BY DEF Typed, TypeOK, BrowserHandlerRecord
  <2>3. bh[b].cached # NoPayload => bh[b].cached \in Messages
    BY <2>2 DEF Cached, Messages
  <2> QED BY <2>1, <2>2, <2>3, StatusOK DEF ReplayCache, ViewRecord, Told
<1>3. TypeOK'
  BY <1>1, <1>2 DEF ReplayCache, Typed, TypeOK, agentVars, storeVars, browserVars,
         deleteVars
<1>4. HasSession'
  BY DEF ReplayCache, Typed, TypeOK, HasSession, AgentHandlerRecord,
         BrowserHandlerRecord, DeleteHandlerRecord, agentVars, storeVars, browserVars,
         deleteVars
<1> QED BY <1>3, <1>4 DEF Typed

LEMMA TypedReplayOffline ==
  ASSUME Typed, NEW b \in Browsers, ReplayOffline(b)
  PROVE  Typed'
<1>1. bh' \in [Browsers -> BrowserHandlerRecord]
  <2>1. bh \in [Browsers -> BrowserHandlerRecord]
    BY DEF Typed, TypeOK
  <2>2. "reading" \in BrowserPC
    BY DEF BrowserPC
  <2> QED BY <2>1, <2>2 DEF ReplayOffline, BrowserHandlerRecord
<1>2. view' \in [Browsers -> ViewRecord]
  <2>1. view \in [Browsers -> ViewRecord]
    BY DEF Typed, TypeOK
  <2>2. Disconnected \in Messages
    BY DEF Messages
  <2> QED BY <2>1, <2>2, StatusOK DEF ReplayOffline, ViewRecord, Told
<1>3. TypeOK'
  BY <1>1, <1>2 DEF ReplayOffline, Typed, TypeOK, agentVars, storeVars, browserVars,
         deleteVars
<1>4. HasSession'
  BY DEF ReplayOffline, Typed, TypeOK, HasSession, AgentHandlerRecord,
         BrowserHandlerRecord, DeleteHandlerRecord, agentVars, storeVars, browserVars,
         deleteVars
<1> QED BY <1>3, <1>4 DEF Typed

LEMMA TypedDetach ==
  ASSUME Typed, NEW b \in Browsers, Detach(b)
  PROVE  Typed'
<1>1. sess' \in [Sessions -> SessionRecord]
  <2>1. sess \in [Sessions -> SessionRecord]
    BY DEF Typed, TypeOK
  <2> DEFINE s == bh[b].sess
             r == [sess[s] EXCEPT !.browsers = sess[s].browsers \ {b}]
  <2>2. s \in Sessions => sess[s].browsers \ {b} \in SUBSET Browsers
    BY <2>1 DEF SessionRecord
  <2>3. s \in Sessions => r \in SessionRecord
    BY <2>1, <2>2, SessionUpdate
  <2>4. sess' = [sess EXCEPT ![s] = r]
    BY DEF Detach
  <2> QED BY <2>1, <2>3, <2>4, FamilyUpdate
<1>2. bh' \in [Browsers -> BrowserHandlerRecord]
  <2>1. bh \in [Browsers -> BrowserHandlerRecord]
    BY DEF Typed, TypeOK
  <2>2. "done" \in BrowserPC
    BY DEF BrowserPC
  <2> QED BY <2>1, <2>2 DEF Detach, BrowserHandlerRecord
<1>3. TypeOK'
  BY <1>1, <1>2 DEF Detach, Typed, TypeOK, agentVars, storeVars, browserVars, deleteVars
<1>4. HasSession'
  BY DEF Detach, Typed, TypeOK, HasSession, AgentHandlerRecord, BrowserHandlerRecord,
         DeleteHandlerRecord, agentVars, storeVars, browserVars, deleteVars
<1> QED BY <1>3, <1>4 DEF Typed

LEMMA TypedRemoveCluster ==
  ASSUME Typed, NEW d \in Deleters, NEW m \in Clusters,
         RemoveCluster(d, m) \/ RemoveFails(d, m)
  PROVE  Typed'
<1>1. dh' \in [Deleters -> DeleteHandlerRecord]
  <2>1. dh \in [Deleters -> DeleteHandlerRecord]
    BY DEF Typed, TypeOK
  <2>2. "removed" \in DeletePC /\ "done" \in DeletePC
    BY DEF DeletePC
  <2>3. m \in Clusters \cup {None}
    OBVIOUS
  <2> QED BY <2>1, <2>2, <2>3 DEF RemoveCluster, RemoveFails, DeleteHandlerRecord
<1>2. None \in OptSession
  BY DEF OptSession
<1>3. TypeOK'
  BY <1>1, <1>2 DEF RemoveCluster, RemoveFails, Typed, TypeOK, agentVars, storeVars,
         browserVars,
         deleteVars
<1>4. HasSession'
  <2>1. UNCHANGED <<ah, bh>> /\ Sessions' = Sessions
    BY DEF RemoveCluster, RemoveFails, browserVars, Sessions
  <2>2. /\ \A e \in Deleters : e # d => dh'[e] = dh[e]
        /\ dh'[d].pc \in {"removed", "done"} /\ dh'[d].machine = m
    BY DEF RemoveCluster, RemoveFails, Typed, TypeOK, DeleteHandlerRecord
  <2> QED BY <2>1, <2>2 DEF Typed, HasSession
<1> QED BY <1>3, <1>4 DEF Typed

LEMMA TypedFindRemoved ==
  ASSUME Typed, NEW d \in Deleters, FindRemoved(d)
  PROVE  Typed'
<1>1. dh' \in [Deleters -> DeleteHandlerRecord]
  <2>1. dh \in [Deleters -> DeleteHandlerRecord]
    BY DEF Typed, TypeOK
  <2>2. "done" \in DeletePC /\ "found" \in DeletePC
    BY DEF DeletePC
  <2>3. dh[d].machine \in Clusters
    BY DEF Typed, HasSession, FindRemoved
  <2>4. byMachine[dh[d].machine] \in OptSession
    BY <2>3 DEF Typed, TypeOK
  <2> QED BY <2>1, <2>2, <2>3, <2>4 DEF FindRemoved, DeleteHandlerRecord
<1>2. TypeOK'
  BY <1>1 DEF FindRemoved, Typed, TypeOK, agentVars, storeVars, browserVars, deleteVars
<1>3. HasSession'
  BY DEF FindRemoved, Typed, TypeOK, HasSession, AgentHandlerRecord,
         BrowserHandlerRecord, DeleteHandlerRecord, agentVars, storeVars, browserVars,
         deleteVars, OptSession
<1> QED BY <1>2, <1>3 DEF Typed

LEMMA TypedDeleteSession ==
  ASSUME Typed, NEW d \in Deleters, DeleteSession(d)
  PROVE  Typed'
<1>1. dh' \in [Deleters -> DeleteHandlerRecord]
  <2>1. dh \in [Deleters -> DeleteHandlerRecord]
    BY DEF Typed, TypeOK
  <2>2. "done" \in DeletePC
    BY DEF DeletePC
  <2> QED BY <2>1, <2>2 DEF DeleteSession, DeleteHandlerRecord
<1>2. None \in OptSession
  BY DEF OptSession
<1>3. TypeOK'
  BY <1>1, <1>2 DEF DeleteSession, Typed, TypeOK, agentVars, storeVars, browserVars,
         deleteVars
<1>4. HasSession'
  BY DEF DeleteSession, Typed, TypeOK, HasSession, AgentHandlerRecord,
         BrowserHandlerRecord, DeleteHandlerRecord, agentVars, storeVars, browserVars,
         deleteVars
<1> QED BY <1>3, <1>4 DEF Typed
\* Every step keeps the types, and gives its handler a session where it needs
\* one.
LEMMA TypedNext == Typed /\ [Next]_vars => Typed'
<1> SUFFICES ASSUME Typed, [Next]_vars PROVE Typed'
  OBVIOUS
<1>1. CASE Agents
  BY <1>1, TypedAgentDial, TypedAgentStops, TypedLegacyDial, TypedConnLost,
     TypedReceivePairCode
  DEF Agents
<1>2. ASSUME NEW c \in Conns, AgentHandler(c) PROVE Typed'
  BY <1>2, TypedNoHello, TypedCreateSession, TypedResumeSession, TypedRejectHello,
     TypedBindLocal, TypedSendPairCode, TypedRouteHello, TypedCopyBrowsers, TypedSendTo,
     TypedReadFails, TypedDropSuperseded, TypedDropAgent, TypedDeleteLegacy,
     TypedUnbindLocal
  DEF AgentHandler
<1>3. ASSUME NEW c \in Conns, AgentMessages(c) PROVE Typed'
  BY <1>3, TypedRouteSnapshot, TypedRouteDiscoveryError, TypedPairCodeFails
  DEF AgentMessages
<1>4. ASSUME NEW b \in Browsers, BrowserHandler(b) PROVE Typed'
  BY <1>4, TypedAttach, TypedReadOnline, TypedReplayHello, TypedReadCache,
     TypedReplayCache, TypedReplayOffline
  DEF BrowserHandler
<1>5. ASSUME NEW b \in Browsers, BrowserActs(b) PROVE Typed'
  <2>1. stored \subseteq Sessions /\ (localSession # None => localSession \in Sessions)
    BY DEF Typed, TypeOK, OptSession
  <2> QED BY <1>5, <2>1, TypedPairTo, TypedDetach DEF BrowserActs, PairLocal, PairByKey
<1>6. ASSUME NEW d \in Deleters, DeleteHandler(d) PROVE Typed'
  BY <1>6, TypedFindRemoved, TypedDeleteSession DEF DeleteHandler
<1>7. ASSUME NEW d \in Deleters, NEW m \in Clusters, RemoveCluster(d, m) \/ RemoveFails(d, m)
      PROVE  Typed'
  BY <1>7, TypedRemoveCluster
<1>8. CASE UNCHANGED vars
  BY <1>8 DEF vars, agentVars, storeVars, browserVars, deleteVars, Typed, TypeOK, HasSession
<1> QED BY <1>1, <1>2, <1>3, <1>4, <1>5, <1>6, <1>7, <1>8 DEF Next

\* Every reachable state is well typed.
LEMMA TypedAlways == Spec => []Typed
BY TypedInit, TypedNext, PTL DEF Spec

\* Every variable keeps its type; in particular a handler never works on a
\* session it does not have.
THEOREM TypeCorrect == Spec => []TypeOK
<1>1. Typed => TypeOK
  BY DEF Typed
<1> QED BY <1>1, TypedAlways, PTL

-----------------------------------------------------------------------------
\* Sessions, their owners and the store.

\* Sessions are opened by the connection they are named after, belong to the
\* machine that connection speaks for, and are known before anyone uses them.
Opened ==
  /\ \A c \in Conns :
       ah[c].pc \in {"none", "hello"} => ah[c].sess = None /\ ~sess[c].made
  /\ \A c \in Conns :
       ah[c].sess # None =>
         ah[c].sess \in Sessions /\ sess[ah[c].sess].made
         /\ sess[ah[c].sess].machine = conn[c].by
  /\ \A s \in stored : sess[s].made
  /\ \A s \in Sessions : sess[s].conn # None => sess[s].made

\* What the deletions rely on: DELETE found a session of the cluster it
\* removed, dropAgentConn deletes only sessions without a machine, and nobody
\* deletes the sessions of a machine that is no cluster.
Deletions ==
  /\ \A d \in Deleters : dh[d].pc \in {"removed", "found"} => dh[d].machine \in removed
  /\ \A d \in Deleters :
       dh[d].pc = "found" =>
         sess[dh[d].sess].made /\ sess[dh[d].sess].machine = dh[d].machine
  /\ \A c \in Conns : ah[c].pc \in {"dropped", "unlink"} => sess[ah[c].sess].machine = None
  /\ \A s \in Sessions :
       sess[s].made /\ sess[s].machine \in Machines \ Clusters => s \in stored

Linked ==
  Opened /\ Deletions /\ StoreConsistent /\ NoGhostOnline /\ LocalSessionIsLocal

\* The relations hold at the start.
LEMMA LinkedInit == Init => Linked
BY DEF Init, Linked, Opened, Deletions, StoreConsistent, NoGhostOnline, LocalSessionIsLocal,
       NoSession, Sessions

\* Most steps are quiet: they leave the sessions' owners and the store alone,
\* and no handler that owns a session stops being live in them.
Quiet ==
  /\ UNCHANGED <<stored, byMachine, localSession, dh, removed>>
  /\ \A s \in Sessions :
       /\ sess'[s].made = sess[s].made
       /\ sess'[s].machine = sess[s].machine
       /\ sess'[s].conn = sess[s].conn
       /\ sess'[s].online = sess[s].online
  /\ \A c \in Conns :
       /\ ah'[c].sess = ah[c].sess
       /\ ah[c].sess # None => conn'[c].by = conn[c].by
       /\ Live(c) => Live(c)'
       /\ ah'[c].pc \in {"none", "hello"} => ah[c].pc \in {"none", "hello"}
       /\ ah'[c].pc \in {"dropped", "unlink"} => ah[c].pc \in {"dropped", "unlink"}

\* A step that touches neither the store nor an owner keeps them.
LEMMA LinkedQuiet ==
  ASSUME Typed, Typed', Linked, Quiet
  PROVE  Linked'
<1>1. Opened'
  <2>1. stored \subseteq Sessions
    BY DEF Typed, TypeOK
  <2>2. \A c \in Conns :
          ah'[c].pc \in {"none", "hello"} => ah'[c].sess = None /\ ~sess'[c].made
    BY DEF Linked, Opened, Quiet, Sessions
  <2>3. \A c \in Conns :
          ah'[c].sess # None =>
            ah'[c].sess \in Sessions /\ sess'[ah'[c].sess].made
            /\ sess'[ah'[c].sess].machine = conn'[c].by
    BY DEF Linked, Opened, Quiet
  <2>4. \A s \in stored' : sess'[s].made
    BY <2>1 DEF Linked, Opened, Quiet
  <2>5. \A s \in Sessions : sess'[s].conn # None => sess'[s].made
    BY DEF Linked, Opened, Quiet
  <2> QED BY <2>2, <2>3, <2>4, <2>5 DEF Opened
<1>2. Deletions'
  BY DEF Linked, Opened, Deletions, Quiet, Typed, HasSession, Sessions
<1>3. StoreConsistent'
  <2>1. \A s \in stored : s \in Sessions
    BY DEF Typed, TypeOK
  <2> QED BY <2>1 DEF Linked, StoreConsistent, Quiet
<1>4. NoGhostOnline'
  <2>1. \A s \in Sessions : sess[s].conn # None => sess[s].conn \in Conns
    BY DEF Typed, TypeOK, SessionRecord
  <2> QED BY <2>1 DEF Linked, NoGhostOnline, Quiet
<1>5. LocalSessionIsLocal'
  <2>1. \A s \in stored : s \in Sessions
    BY DEF Typed, TypeOK
  <2> QED BY <2>1 DEF Linked, LocalSessionIsLocal, Quiet
<1> QED BY <1>1, <1>2, <1>3, <1>4, <1>5 DEF Linked

\* The agents' side of a connection is quiet, and so is every step of a handler
\* that only moves on, forwards or replays.
LEMMA QuietAgents ==
  ASSUME Typed, Linked, NEW m \in Machines, NEW c \in Conns, AgentDial(m, c)
  PROVE  Quiet
<1>1. conn \in [Conns -> ConnRecord] /\ ah \in [Conns -> AgentHandlerRecord]
  BY DEF Typed, TypeOK
<1> QED BY <1>1 DEF AgentDial, Dial, Linked, Opened, Quiet, Live, ConnRecord,
                    AgentHandlerRecord, storeVars, deleteVars

\* Which steps are quiet: what happens on the network,
LEMMA QuietConn ==
  ASSUME Typed, Linked, NEW c \in Conns, LegacyDial(c) \/ ConnLost(c) \/ ReceivePairCode(c)
  PROVE  Quiet
<1>1. conn \in [Conns -> ConnRecord] /\ ah \in [Conns -> AgentHandlerRecord]
  BY DEF Typed, TypeOK
<1>2. CASE LegacyDial(c)
  BY <1>1, <1>2 DEF LegacyDial, Dial, Linked, Opened, Quiet, Live, ConnRecord,
                    AgentHandlerRecord, storeVars, deleteVars
<1>3. CASE ConnLost(c)
  BY <1>1, <1>3 DEF ConnLost, Quiet, Live, ConnRecord, storeVars, deleteVars
<1>4. CASE ReceivePairCode(c)
  BY <1>1, <1>4 DEF ReceivePairCode, Quiet, Live, ConnRecord, storeVars, deleteVars
<1> QED BY <1>2, <1>3, <1>4

\* the steps of an agent handler that change neither,
LEMMA QuietHandler ==
  ASSUME Typed, Linked, NEW c \in Conns,
         NoHello(c) \/ RejectHello(c) \/ SendPairCode(c) \/ PairCodeFails(c)
         \/ RouteHello(c) \/ CopyBrowsers(c) \/ ReadFails(c) \/ RouteSnapshot(c)
         \/ RouteDiscoveryError(c)
  PROVE  Quiet
<1>0. /\ conn \in [Conns -> ConnRecord] /\ ah \in [Conns -> AgentHandlerRecord]
      /\ sess \in [Sessions -> SessionRecord]
  BY DEF Typed, TypeOK
<1>1. CASE NoHello(c)
  BY <1>0, <1>1 DEF NoHello, Quiet, Live, ConnRecord, AgentHandlerRecord,
              SessionRecord, agentVars, storeVars, deleteVars
<1>2. CASE RejectHello(c)
  BY <1>0, <1>2 DEF RejectHello, Quiet, Live, ConnRecord, AgentHandlerRecord,
              SessionRecord, agentVars, storeVars, deleteVars
<1>3. CASE SendPairCode(c)
  BY <1>0, <1>3 DEF SendPairCode, Quiet, Live, ConnRecord, AgentHandlerRecord,
              SessionRecord, agentVars, storeVars, deleteVars
<1>4. CASE PairCodeFails(c)
  BY <1>0, <1>4 DEF PairCodeFails, Quiet, Live, ConnRecord, AgentHandlerRecord,
              SessionRecord, agentVars, storeVars, deleteVars
<1>5. CASE RouteHello(c)
  BY <1>0, <1>5, SMTT(30) DEF RouteHello, Broadcast, Connected, Disconnected, Quiet, Live,
              ConnRecord, AgentHandlerRecord, SessionRecord, agentVars, storeVars,
              deleteVars
<1>6. CASE CopyBrowsers(c)
  BY <1>0, <1>6 DEF CopyBrowsers, Casting, Quiet, Live, ConnRecord, AgentHandlerRecord,
              SessionRecord, agentVars, storeVars, deleteVars
<1>7. CASE ReadFails(c)
  BY <1>0, <1>7 DEF ReadFails, Quiet, Live, ConnRecord, AgentHandlerRecord,
              SessionRecord, agentVars, storeVars, deleteVars
<1>8. CASE RouteSnapshot(c)
  BY <1>0, <1>8, SMTT(30) DEF RouteSnapshot, Broadcast, Disconnected, Quiet, Live,
              ConnRecord, AgentHandlerRecord, SessionRecord, agentVars, storeVars,
              deleteVars
<1>9. CASE RouteDiscoveryError(c)
  BY <1>0, <1>9, SMTT(30) DEF RouteDiscoveryError, Broadcast, Disconnected, Quiet, Live,
              ConnRecord, AgentHandlerRecord, SessionRecord, agentVars, storeVars,
              deleteVars
<1> QED BY <1>1, <1>2, <1>3, <1>4, <1>5, <1>6, <1>7, <1>8, <1>9

\* a message sent to a browser,
LEMMA QuietSendTo ==
  ASSUME Typed, Linked, NEW c \in Conns, NEW b \in Browsers, SendTo(c, b)
  PROVE  Quiet
BY DEF SendTo, Casting, Quiet, Live, Typed, TypeOK, AgentHandlerRecord, agentVars, storeVars,
       deleteVars

\* what a browser and its handler do,
LEMMA QuietBrowser ==
  ASSUME Typed, Linked, NEW b \in Browsers,
         Attach(b) \/ ReadOnline(b) \/ ReplayHello(b) \/ ReadCache(b)
         \/ ReplayCache(b) \/ ReplayOffline(b) \/ Detach(b)
  PROVE  Quiet
<1>0. /\ conn \in [Conns -> ConnRecord] /\ ah \in [Conns -> AgentHandlerRecord]
      /\ sess \in [Sessions -> SessionRecord]
  BY DEF Typed, TypeOK
<1>1. CASE Attach(b)
  BY <1>0, <1>1 DEF Attach, Quiet, Live, SessionRecord, agentVars, storeVars, deleteVars
<1>2. CASE ReadOnline(b)
  BY <1>0, <1>2 DEF ReadOnline, Quiet, Live, SessionRecord, agentVars, storeVars, deleteVars
<1>3. CASE ReplayHello(b)
  BY <1>0, <1>3 DEF ReplayHello, Quiet, Live, SessionRecord, agentVars, storeVars, deleteVars
<1>4. CASE ReadCache(b)
  BY <1>0, <1>4 DEF ReadCache, Quiet, Live, SessionRecord, agentVars, storeVars, deleteVars
<1>5. CASE ReplayCache(b)
  BY <1>0, <1>5 DEF ReplayCache, Quiet, Live, SessionRecord, agentVars, storeVars, deleteVars
<1>6. CASE ReplayOffline(b)
  BY <1>0, <1>6 DEF ReplayOffline, Quiet, Live, SessionRecord, agentVars, storeVars, deleteVars
<1>7. CASE Detach(b)
  BY <1>0, <1>7 DEF Detach, Quiet, Live, SessionRecord, agentVars, storeVars, deleteVars
<1> QED BY <1>1, <1>2, <1>3, <1>4, <1>5, <1>6, <1>7

\* and PAIR.
LEMMA QuietPair ==
  ASSUME NEW b \in Browsers, NEW s, PairTo(b, s)
  PROVE  Quiet
BY DEF PairTo, Quiet, Live, agentVars, storeVars, deleteVars

-----------------------------------------------------------------------------
\* The steps that are not quiet.

\* The steps that are not: a session is made,
LEMMA LinkedCreateSession ==
  ASSUME Typed, Typed', Linked, NEW c \in Conns, CreateSession(c)
  PROVE  Linked'
<1> DEFINE m == conn[c].by
<1>1. /\ ah[c].pc = "hello" /\ (m # None => byMachine[m] = None) /\ m \in OptMachine
      /\ stored' = stored \cup {c} /\ stored \subseteq Sessions
      /\ UNCHANGED <<conn, localSession, dh, removed>>
      /\ c \in Sessions /\ c # None
  BY DEF CreateSession, Typed, TypeOK, ConnRecord, deleteVars, Sessions
<1>2. \A d \in Conns : d # c => ah'[d] = ah[d]
  BY DEF CreateSession, Typed, TypeOK
<1>3. ah'[c].pc = "registered" /\ ah'[c].sess = c
  BY DEF CreateSession, Typed, TypeOK, AgentHandlerRecord
<1>4. \A s \in Sessions : s # c => sess'[s] = sess[s]
  BY DEF CreateSession, Typed, TypeOK
<1>5. sess'[c].made /\ sess'[c].machine = m /\ sess'[c].conn = c /\ sess'[c].online = TRUE
  BY <1>1 DEF CreateSession, Typed, TypeOK, NoSession
<1>6. /\ \A n \in Machines : n # m => byMachine'[n] = byMachine[n]
      /\ m # None => byMachine'[m] = c
  BY <1>1 DEF CreateSession, Typed, TypeOK, OptMachine
<1>7. /\ ah[c].sess = None /\ ~sess[c].made /\ sess[c].conn = None
      /\ c \notin stored
      /\ \A d \in Conns : ah[d].sess # c
      /\ \A d \in Deleters : dh[d].pc = "found" => dh[d].sess # c
  BY <1>1 DEF Linked, Opened, Deletions
<1> HIDE DEF m
<1>8. Opened'
  BY <1>1, <1>2, <1>3, <1>4, <1>5, <1>7 DEF Linked, Opened, m, Sessions
<1>9. Deletions'
  BY <1>1, <1>2, <1>3, <1>4, <1>5, <1>7 DEF Linked, Opened, Deletions, Typed, HasSession
<1>10. StoreConsistent'
  <2>1. \A n \in Machines : byMachine[n] # None => byMachine[n] \in Sessions /\ byMachine[n] # c
    BY <1>1, <1>7 DEF Linked, StoreConsistent
  <2>2. ASSUME NEW n \in Machines, byMachine'[n] # None
        PROVE  byMachine'[n] \in stored' /\ sess'[byMachine'[n]].machine = n
    BY <1>1, <1>4, <1>5, <1>6, <2>1, <2>2 DEF Linked, StoreConsistent
  <2>3. ASSUME NEW s \in stored', sess'[s].machine \in Machines \ removed'
        PROVE  byMachine'[sess'[s].machine] = s
    <3>1. CASE s = c
      BY <3>1, <2>3, <1>5, <1>6
    <3>2. CASE s # c
      <4>1. s \in stored /\ sess'[s] = sess[s] /\ sess[s].machine \in Machines \ removed
        BY <3>2, <2>3, <1>1, <1>4
      <4>2. byMachine[sess[s].machine] = s
        BY <4>1 DEF Linked, StoreConsistent
      <4>3. sess[s].machine # m
        BY <4>1, <4>2, <1>1 DEF Sessions
      <4> QED BY <4>1, <4>2, <4>3, <1>6
    <3> QED BY <3>1, <3>2
  <2> QED BY <2>2, <2>3 DEF StoreConsistent
<1>11. NoGhostOnline'
  <2>1. \A d \in Conns : d # c => (Live(d) <=> Live(d)')
    BY <1>2 DEF Live
  <2>2. Live(c)' /\ ~Live(c)
    BY <1>1, <1>3 DEF Live
  <2>3. \A s \in Sessions : sess[s].conn # None => sess[s].conn \in Conns
    BY DEF Typed, TypeOK, SessionRecord
  <2>4. ASSUME NEW s \in Sessions
        PROVE  /\ sess'[s].online <=> sess'[s].conn # None
               /\ sess'[s].conn # None => ah'[sess'[s].conn].sess = s /\ Live(sess[s].conn)'
    <3>1. CASE s = c
      BY <3>1, <2>2, <1>1, <1>3, <1>5
    <3>2. CASE s # c
      BY <3>2, <2>1, <2>2, <2>3, <1>2, <1>4 DEF Linked, NoGhostOnline
    <3> QED BY <3>1, <3>2
  <2> QED BY <2>4 DEF NoGhostOnline
<1>12. LocalSessionIsLocal'
  BY <1>1, <1>4, <1>7 DEF Linked, LocalSessionIsLocal
<1> QED BY <1>8, <1>9, <1>10, <1>11, <1>12 DEF Linked

\* resumed,
LEMMA LinkedResumeSession ==
  ASSUME Typed, Typed', Linked, NEW c \in Conns, ResumeSession(c)
  PROVE  Linked'
<1> DEFINE m == conn[c].by
           r == byMachine[m]
<1>1. /\ ah[c].pc = "hello" /\ m \in Machines /\ r \in Sessions
      /\ UNCHANGED <<stored, byMachine, localSession, conn, dh, removed>>
  BY DEF ResumeSession, Typed, TypeOK, ConnRecord, OptMachine, OptSession, storeVars,
         deleteVars
<1>2. \A d \in Conns : d # c => ah'[d] = ah[d]
  BY DEF ResumeSession, Typed, TypeOK
<1>3. ah'[c].pc = "registered" /\ ah'[c].sess = r
  BY DEF ResumeSession, Typed, TypeOK, AgentHandlerRecord
<1>4. /\ \A s \in Sessions : s # r => sess'[s] = sess[s]
      /\ sess'[r].made = sess[r].made /\ sess'[r].machine = sess[r].machine
      /\ sess'[r].conn = c /\ sess'[r].online = TRUE
  <2>1. sess' = [sess EXCEPT ![r] = [sess[r] EXCEPT !.conn = c, !.online = TRUE]]
    BY DEF ResumeSession
  <2>2. sess \in [Sessions -> SessionRecord]
    BY DEF Typed, TypeOK
  <2>3. sess'[r] = [sess[r] EXCEPT !.conn = c, !.online = TRUE]
    BY <2>1, <2>2, <1>1
  <2>4. sess[r] \in SessionRecord
    BY <2>2, <1>1
  <2>5. \A s \in Sessions : s # r => sess'[s] = sess[s]
    BY <2>1, <2>2
  <2> QED BY <2>3, <2>4, <2>5 DEF SessionRecord
<1>5. r \in stored /\ sess[r].made /\ sess[r].machine = m
  <2>1. r # None
    BY <1>1 DEF Sessions
  <2> QED BY <2>1, <1>1 DEF Linked, StoreConsistent, Opened
<1>6. r # c
  BY <1>1, <1>5 DEF Linked, Opened
<1> HIDE DEF m, r
<1>7. Opened'
  <2>1. \A s \in Sessions : sess'[s].made = sess[s].made /\ sess'[s].machine = sess[s].machine
    BY <1>4
  <2>2. \A d \in Conns : d \in Sessions
    BY DEF Sessions
  <2>3. stored \subseteq Sessions
    BY DEF Typed, TypeOK
  <2> QED BY <1>1, <1>2, <1>3, <1>4, <1>5, <1>6, <2>1, <2>2, <2>3 DEF Linked, Opened, m
<1>8. Deletions'
  BY <1>1, <1>2, <1>3, <1>4 DEF Linked, Deletions, Typed, HasSession
<1>9. StoreConsistent'
  <2>1. \A s \in Sessions : sess'[s].machine = sess[s].machine
    BY <1>4
  <2>2. stored \subseteq Sessions
    BY DEF Typed, TypeOK
  <2> QED BY <1>1, <2>1, <2>2 DEF Linked, StoreConsistent
<1>10. NoGhostOnline'
  <2>1. \A d \in Conns : d # c => (Live(d) <=> Live(d)')
    BY <1>2 DEF Live
  <2>2. Live(c)' /\ ~Live(c)
    BY <1>1, <1>3 DEF Live
  <2>3. \A s \in Sessions : sess[s].conn # None => sess[s].conn \in Conns
    BY DEF Typed, TypeOK, SessionRecord
  <2>4. c # None
    OBVIOUS
  <2> QED BY <2>1, <2>2, <2>3, <2>4, <1>1, <1>2, <1>3, <1>4 DEF Linked, NoGhostOnline
<1>11. LocalSessionIsLocal'
  <2>1. stored \subseteq Sessions
    BY DEF Typed, TypeOK
  <2> QED BY <2>1, <1>1, <1>4 DEF Linked, LocalSessionIsLocal
<1> QED BY <1>7, <1>8, <1>9, <1>10, <1>11 DEF Linked

\* Steps that change only the store's local session, or nothing but where an
\* ending handler is.
LEMMA LinkedHandlerMoves ==
  ASSUME Typed, Typed', Linked, NEW c \in Conns,
         BindLocal(c) \/ DropSuperseded(c) \/ UnbindLocal(c)
  PROVE  Linked'
<1>1. /\ UNCHANGED <<stored, byMachine, sess, conn, dh, removed>>
      /\ \A d \in Conns : d # c => ah'[d] = ah[d]
      /\ ah'[c].sess = ah[c].sess
      /\ ah[c].pc \in {"registered", "closing", "unlink"}
      /\ ah'[c].pc \in {"bound", "done", "copying"}
  BY DEF BindLocal, DropSuperseded, UnbindLocal, Broadcast, Typed, TypeOK,
         AgentHandlerRecord, storeVars, deleteVars
<1>2. Opened'
  BY <1>1 DEF Linked, Opened
<1>3. Deletions'
  BY <1>1 DEF Linked, Deletions
<1>4. StoreConsistent'
  BY <1>1 DEF Linked, StoreConsistent
<1>5. NoGhostOnline'
  <2>1. \A d \in Conns : d # c => (Live(d) <=> Live(d)')
    BY <1>1 DEF Live
  <2>2. ah[c].sess \in Sessions
    BY <1>1 DEF Typed, HasSession
  <2>3. Live(c) => Live(c)' \/ sess[ah[c].sess].conn # c
    BY <1>1 DEF BindLocal, DropSuperseded, UnbindLocal, Broadcast, Live, Typed, TypeOK,
                AgentHandlerRecord
  <2>4. \A s \in Sessions : sess[s].conn # None => sess[s].conn \in Conns
    BY DEF Typed, TypeOK, SessionRecord
  <2> QED BY <2>1, <2>2, <2>3, <2>4, <1>1 DEF Linked, NoGhostOnline
<1>6. LocalSessionIsLocal'
  <2>1. CASE localSession' \in {None, localSession}
    BY <2>1, <1>1 DEF Linked, LocalSessionIsLocal
  <2>2. CASE BindLocal(c) /\ IsLocal(c) /\ LocalMachine # None
    <3>1. localSession' = ah[c].sess /\ conn[c].by = LocalMachine
      BY <2>2 DEF BindLocal, IsLocal
    <3>2. ah[c].sess \in Sessions /\ ah[c].sess # None
      BY <1>1 DEF Typed, HasSession, Sessions
    <3>3. sess[ah[c].sess].made /\ sess[ah[c].sess].machine = LocalMachine
      BY <3>1, <3>2 DEF Linked, Opened
    <3>4. LocalMachine \in Machines \ Clusters
      BY <2>2, LocalAssumption
    <3>5. ah[c].sess \in stored
      BY <3>2, <3>3, <3>4 DEF Linked, Deletions
    <3> QED BY <3>1, <3>3, <3>5, <1>1 DEF LocalSessionIsLocal
  <2>3. CASE LocalMachine = None
    BY <2>3 DEF LocalSessionIsLocal
  <2> QED BY <2>1, <2>2, <2>3 DEF BindLocal, DropSuperseded, UnbindLocal, storeVars
<1> QED BY <1>2, <1>3, <1>4, <1>5, <1>6 DEF Linked

\* left by its agent,
LEMMA LinkedDropAgent ==
  ASSUME Typed, Typed', Linked, NEW c \in Conns, DropAgent(c)
  PROVE  Linked'
<1> DEFINE r == ah[c].sess
<1>1. /\ ah[c].pc = "closing" /\ r \in Sessions /\ sess[r].conn = c /\ r # None
      /\ UNCHANGED <<stored, byMachine, localSession, conn, dh, removed>>
  BY DEF DropAgent, Typed, TypeOK, HasSession, storeVars, deleteVars, Sessions
<1>2. /\ \A d \in Conns : d # c => ah'[d] = ah[d]
      /\ ah'[c].sess = r /\ ah'[c].pc \in {"copying", "dropped"}
      /\ ah'[c].pc = "dropped" => sess[r].machine = None
  BY DEF DropAgent, Typed, TypeOK, AgentHandlerRecord
<1>3. /\ \A s \in Sessions : s # r => sess'[s] = sess[s]
      /\ sess'[r].made = sess[r].made /\ sess'[r].machine = sess[r].machine
      /\ sess'[r].conn = None /\ sess'[r].online = FALSE
  BY <1>1 DEF DropAgent, Typed, TypeOK, SessionRecord
<1> HIDE DEF r
<1>4. \A s \in Sessions : sess'[s].made = sess[s].made /\ sess'[s].machine = sess[s].machine
  BY <1>3
<1>5. stored \subseteq Sessions
  BY DEF Typed, TypeOK
<1>6. Opened'
  BY <1>1, <1>2, <1>3, <1>4, <1>5 DEF Linked, Opened, r, Sessions
<1>7. Deletions'
  BY <1>1, <1>2, <1>4 DEF Linked, Deletions, Typed, HasSession
<1>8. StoreConsistent'
  BY <1>1, <1>4, <1>5 DEF Linked, StoreConsistent
<1>9. NoGhostOnline'
  <2>1. \A d \in Conns : d # c => (Live(d) <=> Live(d)')
    BY <1>2 DEF Live
  <2>2. \A s \in Sessions : sess[s].conn # None => sess[s].conn \in Conns
    BY DEF Typed, TypeOK, SessionRecord
  <2>3. \A s \in Sessions : s # r => sess[s].conn # c
    BY DEF Linked, NoGhostOnline, r
  <2> QED BY <2>1, <2>2, <2>3, <1>1, <1>2, <1>3 DEF Linked, NoGhostOnline
<1>10. LocalSessionIsLocal'
  BY <1>1, <1>4, <1>5 DEF Linked, LocalSessionIsLocal
<1> QED BY <1>6, <1>7, <1>8, <1>9, <1>10 DEF Linked

\* Deleting one session from the store, with its machine's index entry.
LEMMA LinkedDeleteLegacy ==
  ASSUME Typed, Typed', Linked, NEW c \in Conns, DeleteLegacy(c)
  PROVE  Linked'
<1> DEFINE r == ah[c].sess
<1>1. /\ ah[c].pc = "dropped" /\ r \in Sessions /\ sess[r].machine = None
      /\ stored' = stored \ {r}
      /\ UNCHANGED <<byMachine, localSession, sess, conn, dh, removed>>
  BY DEF DeleteLegacy, Typed, HasSession, Linked, Deletions, deleteVars
<1>2. /\ \A d \in Conns : d # c => ah'[d] = ah[d]
      /\ ah'[c].sess = r /\ ah'[c].pc = "unlink"
  BY DEF DeleteLegacy, Typed, TypeOK, AgentHandlerRecord
<1> HIDE DEF r
<1>3. None \notin Machines
  OBVIOUS
<1>4. Opened'
  BY <1>1, <1>2 DEF Linked, Opened, r
<1>5. Deletions'
  BY <1>1, <1>2, <1>3 DEF Linked, Deletions
<1>6. StoreConsistent'
  BY <1>1, <1>3 DEF Linked, StoreConsistent
<1>7. NoGhostOnline'
  <2>1. \A d \in Conns : d # c => (Live(d) <=> Live(d)')
    BY <1>2 DEF Live
  <2>2. ~Live(c)
    BY <1>1 DEF Live
  <2>3. \A s \in Sessions : sess[s].conn # None => sess[s].conn \in Conns
    BY DEF Typed, TypeOK, SessionRecord
  <2> QED BY <2>1, <2>2, <2>3, <1>1, <1>2 DEF Linked, NoGhostOnline
<1>8. LocalSessionIsLocal'
  BY <1>1 DEF Linked, LocalSessionIsLocal
<1> QED BY <1>4, <1>5, <1>6, <1>7, <1>8 DEF Linked

\* or deleted.
LEMMA LinkedDelete ==
  ASSUME Typed, Typed', Linked, NEW d \in Deleters, NEW m \in Clusters,
         RemoveCluster(d, m) \/ RemoveFails(d, m) \/ FindRemoved(d) \/ DeleteSession(d)
  PROVE  Linked'
<1>1. /\ UNCHANGED <<localSession, sess, ah>>
      /\ \A c \in Conns : conn'[c].by = conn[c].by
      /\ removed \subseteq removed' /\ stored' \subseteq stored
      /\ removed \subseteq Clusters /\ stored \subseteq Sessions
  BY DEF RemoveCluster, RemoveFails, FindRemoved, DeleteSession, storeVars, agentVars,
         Typed, TypeOK
<1>2. \A e \in Deleters : e # d => dh'[e] = dh[e]
  BY DEF RemoveCluster, RemoveFails, FindRemoved, DeleteSession, Typed, TypeOK
<1>3. Opened'
  BY <1>1 DEF Linked, Opened
<1>4. NoGhostOnline'
  BY <1>1 DEF Linked, NoGhostOnline, Live
<1>5. CASE RemoveCluster(d, m)
  <2>1. /\ UNCHANGED <<stored, byMachine>> /\ removed' = removed \cup {m}
        /\ dh'[d].pc = "removed" /\ dh'[d].machine = m
    BY <1>5 DEF RemoveCluster, storeVars, Typed, TypeOK, DeleteHandlerRecord
  <2>2. Deletions'
    BY <2>1, <1>1, <1>2 DEF Linked, Deletions
  <2>3. StoreConsistent' /\ LocalSessionIsLocal'
    BY <2>1, <1>1 DEF Linked, StoreConsistent, LocalSessionIsLocal
  <2> QED BY <2>2, <2>3, <1>3, <1>4 DEF Linked
<1>8. CASE RemoveFails(d, m)
  <2>1. UNCHANGED <<stored, byMachine, removed>> /\ dh'[d].pc = "done"
    BY <1>8 DEF RemoveFails, storeVars, Typed, TypeOK, DeleteHandlerRecord
  <2>2. Deletions'
    BY <2>1, <1>1, <1>2 DEF Linked, Deletions
  <2>3. StoreConsistent' /\ LocalSessionIsLocal'
    BY <2>1, <1>1 DEF Linked, StoreConsistent, LocalSessionIsLocal
  <2> QED BY <2>2, <2>3, <1>3, <1>4 DEF Linked
<1>6. CASE FindRemoved(d)
  <2>1. /\ UNCHANGED <<stored, byMachine, removed>>
        /\ dh[d].pc = "removed" /\ dh'[d].machine = dh[d].machine
        /\ dh'[d].sess = byMachine[dh[d].machine] /\ dh'[d].pc \in {"done", "found"}
        /\ dh'[d].pc = "found" => dh'[d].sess # None
    BY <1>6 DEF FindRemoved, storeVars, Typed, TypeOK, DeleteHandlerRecord
  <2>2. dh[d].machine \in Machines
    BY <2>1, ClustersAssumption DEF Typed, HasSession
  <2>3. dh'[d].pc = "found" =>
          sess[dh'[d].sess].made /\ sess[dh'[d].sess].machine = dh[d].machine
    BY <2>1, <2>2 DEF Linked, StoreConsistent, Opened
  <2>4. Deletions'
    BY <2>1, <2>3, <1>1, <1>2 DEF Linked, Deletions
  <2>5. StoreConsistent' /\ LocalSessionIsLocal'
    BY <2>1, <1>1 DEF Linked, StoreConsistent, LocalSessionIsLocal
  <2> QED BY <2>4, <2>5, <1>3, <1>4 DEF Linked
<1>7. CASE DeleteSession(d)
  <2> DEFINE r == dh[d].sess
             k == dh[d].machine
  <2>1. /\ dh[d].pc = "found" /\ dh'[d].pc = "done" /\ dh'[d].machine = k
        /\ stored' = stored \ {r} /\ removed' = removed
    BY <1>7 DEF DeleteSession, Typed, TypeOK, DeleteHandlerRecord
  <2>2. k \in removed /\ k \in Clusters /\ sess[r].machine = k /\ k # None
    BY <2>1, <1>1, ClustersAssumption DEF Linked, Deletions
  <2>3. /\ \A n \in Machines : n # k => byMachine'[n] = byMachine[n]
        /\ byMachine'[k] = None
    BY <1>7, <2>2, ClustersAssumption DEF DeleteSession, Typed, TypeOK
  <2> HIDE DEF r, k
  <2>4. Deletions'
    BY <2>1, <2>2, <1>1, <1>2 DEF Linked, Deletions, k
  <2>5. StoreConsistent'
    <3>1. ASSUME NEW n \in Machines, byMachine'[n] # None
          PROVE  byMachine'[n] \in stored' /\ sess'[byMachine'[n]].machine = n
      <4>1. n # k /\ byMachine'[n] = byMachine[n]
        BY <3>1, <2>3
      <4>2. byMachine[n] \in stored /\ sess[byMachine[n]].machine = n
        BY <3>1, <4>1 DEF Linked, StoreConsistent
      <4> QED BY <4>1, <4>2, <2>1, <2>2, <1>1
    <3>2. ASSUME NEW s \in stored', sess'[s].machine \in Machines \ removed'
          PROVE  byMachine'[sess'[s].machine] = s
      <4>1. s \in stored /\ sess[s].machine \in Machines \ removed
        BY <3>2, <2>1, <1>1
      <4>2. byMachine[sess[s].machine] = s /\ sess[s].machine # k
        BY <4>1, <2>2 DEF Linked, StoreConsistent
      <4> QED BY <4>1, <4>2, <2>3, <1>1
    <3> QED BY <3>1, <3>2 DEF StoreConsistent
  <2>6. LocalSessionIsLocal'
    <3>1. LocalMachine # None => LocalMachine \notin Clusters
      BY LocalAssumption
    <3> QED BY <3>1, <2>1, <2>2, <1>1 DEF Linked, LocalSessionIsLocal
  <2> QED BY <2>4, <2>5, <2>6, <1>3, <1>4 DEF Linked
<1> QED BY <1>5, <1>6, <1>7, <1>8

\* Every step keeps the relations.
LEMMA LinkedNext == Typed /\ Typed' /\ Linked /\ [Next]_vars => Linked'
<1> SUFFICES ASSUME Typed, Typed', Linked, [Next]_vars PROVE Linked'
  OBVIOUS
<1>1. CASE \E m \in Machines, c \in Conns : AgentDial(m, c)
  BY <1>1, QuietAgents, LinkedQuiet
<1>2. CASE \E m \in Machines : AgentStops(m)
  <2>1. PICK m \in Machines : AgentStops(m)
    BY <1>2
  <2>2. Quiet
    BY <2>1 DEF AgentStops, Quiet, Live, storeVars, deleteVars
  <2> QED BY <2>2, LinkedQuiet
<1>3. CASE \E c \in Conns : LegacyDial(c) \/ ConnLost(c) \/ ReceivePairCode(c)
  <2>1. PICK c \in Conns : LegacyDial(c) \/ ConnLost(c) \/ ReceivePairCode(c)
    BY <1>3
  <2>2. Quiet
    BY <2>1, QuietConn
  <2> QED BY <2>2, LinkedQuiet
<1>4. ASSUME NEW c \in Conns, AgentHandler(c) PROVE Linked'
  BY <1>4, QuietHandler, QuietSendTo, LinkedQuiet, LinkedCreateSession,
     LinkedResumeSession, LinkedHandlerMoves, LinkedDropAgent, LinkedDeleteLegacy
  DEF AgentHandler
<1>5. ASSUME NEW c \in Conns, AgentMessages(c) PROVE Linked'
  BY <1>5, QuietHandler, LinkedQuiet DEF AgentMessages
<1>6. ASSUME NEW b \in Browsers, BrowserHandler(b) \/ BrowserActs(b) PROVE Linked'
  BY <1>6, QuietBrowser, QuietPair, LinkedQuiet
  DEF BrowserHandler, BrowserActs, PairLocal, PairByKey
<1>7. ASSUME NEW d \in Deleters, DeleteHandler(d) PROVE Linked'
  <2>1. dh[d].machine \in Clusters
    BY <1>7 DEF DeleteHandler, FindRemoved, DeleteSession, Typed, HasSession
  <2> QED BY <1>7, <2>1, LinkedDelete DEF DeleteHandler
<1>8. ASSUME NEW d \in Deleters, NEW m \in Clusters, RemoveCluster(d, m) \/ RemoveFails(d, m)
      PROVE  Linked'
  BY <1>8, LinkedDelete
<1>9. CASE UNCHANGED vars
  <2>1. Quiet
    BY <1>9 DEF Quiet, Live, vars, storeVars, deleteVars
  <2> QED BY <2>1, LinkedQuiet
<1> QED BY <1>1, <1>2, <1>3, <1>4, <1>5, <1>6, <1>7, <1>8, <1>9 DEF Next, Agents

\* They hold in every reachable state.
LEMMA LinkedAlways == Spec => []Linked
BY LinkedInit, LinkedNext, TypedAlways, PTL DEF Spec

\* The store's indexes agree, however agents that reconnect, legacy agents that
\* leave and overlapping DELETEs interleave.
THEOREM Consistency == Spec => []StoreConsistent
<1>1. Linked => StoreConsistent
  BY DEF Linked
<1> QED BY <1>1, LinkedAlways, PTL

\* A session shown online has a live handler that will take it offline.
THEOREM OnlineIsLive == Spec => []NoGhostOnline
<1>1. Linked => NoGhostOnline
  BY DEF Linked
<1> QED BY <1>1, LinkedAlways, PTL

\* The browser key "local" leads to this machine's own stored session only.
THEOREM LocalIsLocal == Spec => []LocalSessionIsLocal
<1>1. Linked => LocalSessionIsLocal
  BY DEF Linked
<1> QED BY <1>1, LinkedAlways, PTL

-----------------------------------------------------------------------------
\* What browsers have been sent.

\* A browser's session exists, and has the browser on its list until the browser
\* goes: without this a broadcast could pass by a browser that has read the cache.
Listens(b) ==
  bh[b].pc \in {"attached", "queried", "greeted", "replaying", "replayed", "reading"}
Attending(b) ==
  /\ bh[b].pc # "none" => sess[bh[b].sess].made
  /\ Listens(b) => b \in sess[bh[b].sess].browsers

Knows(b) == bh[b].pc \in {"replaying", "replayed", "reading"}
Served(b) ==
  Knows(b) /\ sess[bh[b].sess].cached # NoPayload => OnItsWay(b, sess[bh[b].sess].cached)

Delivered ==
  /\ localSession # None => sess[localSession].made
  /\ \A b \in Browsers : Attending(b) /\ Served(b)

\* No browser has come yet.
LEMMA DeliveredInit == Init => Delivered
BY DEF Init, Delivered, Attending, Listens, Served, Knows

\* A handler on its way with a message.
Carries(c) == ah[c].pc \in {"copying", "casting"}

\* Steps that leave the browsers alone, and of the sessions that exist the
\* lists and the caches.
LEMMA DeliveredQuiet ==
  ASSUME Typed, Delivered, UNCHANGED <<bh, view>>,
         \A s \in Sessions :
           sess[s].made => /\ sess'[s].made /\ sess'[s].cached = sess[s].cached
                           /\ sess'[s].browsers = sess[s].browsers,
         \A c \in Conns : Carries(c) => ah'[c] = ah[c],
         localSession' # None => localSession' \in Sessions /\ sess[localSession'].made
  PROVE  Delivered'
<1>1. localSession' # None => sess'[localSession'].made
  OBVIOUS
<1>2. ASSUME NEW b \in Browsers
      PROVE  Attending(b)' /\ Served(b)'
  <2>1. CASE bh[b].pc = "none"
    BY <2>1 DEF Attending, Listens, Served, Knows
  <2>2. CASE bh[b].pc # "none"
    <3>1. bh[b].sess \in Sessions /\ sess[bh[b].sess].made /\ Attending(b) /\ Served(b)
      BY <2>2 DEF Typed, HasSession, Delivered, Attending
    <3>2. Attending(b)'
      BY <3>1 DEF Attending, Listens
    <3>3. ASSUME NEW p, p = sess[bh[b].sess].cached, OnItsWay(b, p)
          PROVE  OnItsWay(b, p)'
      BY <3>3 DEF OnItsWay, Carries
    <3>4. Served(b)'
      BY <3>1, <3>3 DEF Served, Knows
    <3> QED BY <3>2, <3>4
  <2> QED BY <2>1, <2>2
<1> QED BY <1>1, <1>2 DEF Delivered

\* The agents' side of the connections,
LEMMA DeliveredAgents ==
  ASSUME Typed, Linked, Delivered, Agents
  PROVE  Delivered'
<1>1. /\ UNCHANGED <<bh, view, sess, localSession>>
      /\ \A c \in Conns : Carries(c) => ah'[c] = ah[c]
  BY DEF Agents, AgentDial, LegacyDial, Dial, AgentStops, ConnLost, ReceivePairCode, Carries,
         agentVars, storeVars, browserVars, Typed, TypeOK
<1> QED BY <1>1, DeliveredQuiet DEF Delivered, Typed, TypeOK, OptSession

\* the steps of a handler before and after its messages,
LEMMA DeliveredHandler ==
  ASSUME Typed, Linked, Delivered, NEW c \in Conns,
         \/ NoHello(c) \/ CreateSession(c) \/ ResumeSession(c) \/ RejectHello(c) \/ BindLocal(c)
         \/ SendPairCode(c) \/ PairCodeFails(c) \/ RouteHello(c) \/ ReadFails(c)
         \/ DropSuperseded(c) \/ DropAgent(c) \/ DeleteLegacy(c) \/ UnbindLocal(c)
  PROVE  Delivered'
<1>1. /\ ah \in [Conns -> AgentHandlerRecord] /\ sess \in [Sessions -> SessionRecord]
      /\ localSession \in OptSession
  BY DEF Typed, TypeOK
<1>2. ~Carries(c) /\ UNCHANGED <<bh, view>> /\ \A d \in Conns \ {c} : ah'[d] = ah[d]
  BY <1>1 DEF NoHello, CreateSession, ResumeSession, RejectHello, BindLocal, SendPairCode,
     PairCodeFails, RouteHello, ReadFails, DropSuperseded, DropAgent, DeleteLegacy, UnbindLocal,
     Broadcast, Carries, browserVars
<1>3. \A s \in Sessions :
        sess[s].made => /\ sess'[s].made /\ sess'[s].cached = sess[s].cached
                        /\ sess'[s].browsers = sess[s].browsers
  <2>1. CASE CreateSession(c)
    <3>1. ~sess[c].made /\ \A s \in Sessions \ {c} : sess'[s] = sess[s]
      BY <1>1, <2>1 DEF CreateSession, Linked, Opened
    <3> QED BY <3>1
  <2>2. CASE ResumeSession(c) \/ RouteHello(c) \/ DropAgent(c)
    BY <1>1, <2>2 DEF ResumeSession, RouteHello, DropAgent, SessionRecord
  <2>3. CASE \/ NoHello(c) \/ RejectHello(c) \/ BindLocal(c) \/ SendPairCode(c) \/ PairCodeFails(c)
             \/ ReadFails(c) \/ DropSuperseded(c) \/ DeleteLegacy(c) \/ UnbindLocal(c)
    BY <2>3 DEF NoHello, RejectHello, BindLocal, SendPairCode, PairCodeFails, ReadFails,
       DropSuperseded, DeleteLegacy, UnbindLocal
  <2> QED BY <2>1, <2>2, <2>3
<1>4. localSession' # None => localSession' \in Sessions /\ sess[localSession'].made
  <2>1. CASE BindLocal(c)
    <3>1. ah[c].sess \in Sessions /\ sess[ah[c].sess].made
      BY <2>1 DEF BindLocal, Typed, HasSession, Linked, Opened, Sessions
    <3> QED BY <1>1, <2>1, <3>1 DEF BindLocal, Delivered, OptSession
  <2>2. CASE ~BindLocal(c)
    <3>1. localSession' \in {localSession, None}
      BY <2>2 DEF NoHello, CreateSession, ResumeSession, RejectHello, SendPairCode, PairCodeFails,
         RouteHello, ReadFails, DropSuperseded, DropAgent, DeleteLegacy, UnbindLocal, storeVars
    <3> QED BY <1>1, <3>1 DEF Delivered, OptSession
  <2> QED BY <2>1, <2>2
<1> QED BY <1>2, <1>3, <1>4, DeliveredQuiet

\* and DELETE change nothing that counts here.
LEMMA DeliveredDelete ==
  ASSUME Typed, Delivered, NEW d \in Deleters,
         DeleteHandler(d) \/ \E m \in Clusters : RemoveCluster(d, m) \/ RemoveFails(d, m)
  PROVE  Delivered'
<1>1. UNCHANGED <<bh, view, sess, ah, localSession>>
  BY DEF DeleteHandler, FindRemoved, DeleteSession, RemoveCluster, RemoveFails, storeVars,
     browserVars
<1> QED BY <1>1, DeliveredQuiet DEF Delivered, Typed, TypeOK, OptSession

\* A payload is cached and is to be broadcast by the same step.
LEMMA DeliveredRoute ==
  ASSUME Typed, Linked, Delivered, NEW c \in Conns, RouteSnapshot(c) \/ RouteDiscoveryError(c)
  PROVE  Delivered'
<1> DEFINE r == ah[c].sess
<1>1. /\ ah \in [Conns -> AgentHandlerRecord] /\ sess \in [Sessions -> SessionRecord]
      /\ r \in Sessions /\ ah[c].pc = "reading"
  BY DEF Typed, TypeOK, HasSession, RouteSnapshot, RouteDiscoveryError
<1>2. PICK p \in {[type |-> "snapshot", n |-> payloads + 1], [type |-> "error", n |-> payloads + 1]} :
        /\ sess'[r].cached \in {p, sess[r].cached} /\ Broadcast(c, p)
        /\ UNCHANGED <<bh, view, localSession>>
        /\ \A s \in Sessions : /\ s # r => sess'[s].cached = sess[s].cached
                               /\ sess'[s].made = sess[s].made /\ sess'[s].browsers = sess[s].browsers
  <2>1. CASE RouteSnapshot(c)
    BY <1>1, <2>1 DEF RouteSnapshot, SessionRecord, storeVars, browserVars
  <2>2. CASE RouteDiscoveryError(c)
    BY <1>1, <2>2 DEF RouteDiscoveryError, SessionRecord, storeVars, browserVars
  <2> QED BY <2>1, <2>2
<1>3. /\ ah'[c].pc = "copying" /\ ah'[c].msg = p /\ ah'[c].sess = r
      /\ \A d \in Conns \ {c} : ah'[d] = ah[d]
  BY <1>1, <1>2 DEF Broadcast, AgentHandlerRecord
<1>4. (localSession # None => sess[localSession].made)'
  BY <1>2 DEF Delivered, Typed, TypeOK, OptSession
<1>5. ASSUME NEW b \in Browsers
      PROVE  Attending(b)' /\ Served(b)'
  <2>1. bh[b].pc # "none" => bh[b].sess \in Sessions
    BY DEF Typed, HasSession
  <2>2. Attending(b)'
    BY <1>2, <2>1 DEF Delivered, Attending, Listens
  <2>3. ASSUME OnItsWay(b, sess[bh[b].sess].cached)
        PROVE  OnItsWay(b, sess[bh[b].sess].cached)'
               \/ sess'[bh[b].sess].cached # sess[bh[b].sess].cached
    BY <1>1, <1>2, <1>3, <2>3 DEF OnItsWay
  <2>4. CASE Knows(b) /\ sess'[bh[b].sess].cached # sess[bh[b].sess].cached
    <3>1. bh[b].sess = r /\ sess'[r].cached = p
      BY <1>2, <2>1, <2>4 DEF Knows
    <3>2. ah'[c].sess = bh'[b].sess /\ ah'[c].msg = sess'[bh'[b].sess].cached
      BY <1>2, <1>3, <3>1
    <3> QED BY <1>3, <2>2, <3>2 DEF Served, OnItsWay
  <2>5. CASE ~(Knows(b) /\ sess'[bh[b].sess].cached # sess[bh[b].sess].cached)
    BY <1>2, <2>2, <2>3, <2>5 DEF Delivered, Served, Knows
  <2> QED BY <2>4, <2>5
<1> QED BY <1>4, <1>5 DEF Delivered

\* The copy of the list has every browser that listens; a browser is taken off
\* it when it has been told.
LEMMA DeliveredCast ==
  ASSUME Typed, Delivered, NEW c \in Conns, CopyBrowsers(c) \/ \E b \in Browsers : SendTo(c, b)
  PROVE  Delivered'
<1>1. /\ ah \in [Conns -> AgentHandlerRecord] /\ view \in [Browsers -> ViewRecord]
      /\ UNCHANGED <<bh, sess, localSession>> /\ Carries(c)
      /\ \A d \in Conns \ {c} : ah'[d] = ah[d]
  BY DEF CopyBrowsers, SendTo, Casting, storeVars, browserVars, Typed, TypeOK, Carries
<1>2. ASSUME NEW b \in Browsers
      PROVE  Attending(b)' /\ view[b].got \subseteq view'[b].got
  <2>1. Attending(b)'
    BY <1>1 DEF Delivered, Attending, Listens
  <2>2. CASE CopyBrowsers(c)
    BY <2>1, <2>2 DEF CopyBrowsers, browserVars
  <2>3. ASSUME NEW e \in Browsers, SendTo(c, e)
        PROVE  view[b].got \subseteq view'[b].got
    BY <1>1, <2>3 DEF SendTo, Told
  <2> QED BY <2>1, <2>2, <2>3
<1>3. ASSUME NEW b \in Browsers, NEW p \in Payloads, Knows(b), OnItsWay(b, p)
      PROVE  OnItsWay(b, p)'
  <2>1. CASE p \in view[b].got \/ (bh[b].pc = "replaying" /\ bh[b].cached = p)
    BY <1>1, <1>2, <2>1 DEF OnItsWay
  <2>2. ASSUME NEW d \in Conns \ {c}, ah[d].sess = bh[b].sess, ah[d].msg = p,
               ah[d].pc = "copying" \/ (ah[d].pc = "casting" /\ b \in ah[d].to)
        PROVE  OnItsWay(b, p)'
    BY <1>1, <2>2 DEF OnItsWay
  <2>3. CASE /\ ah[c].sess = bh[b].sess /\ ah[c].msg = p
             /\ ah[c].pc = "copying" \/ (ah[c].pc = "casting" /\ b \in ah[c].to)
    <3>1. CASE CopyBrowsers(c)
      <4>1. b \in sess[ah[c].sess].browsers
        BY <1>3, <2>3 DEF Delivered, Attending, Listens, Knows
      <4>2. ah'[c].pc = "casting" /\ b \in ah'[c].to /\ ah'[c].sess = ah[c].sess /\ ah'[c].msg = p
        BY <1>1, <2>3, <3>1, <4>1 DEF CopyBrowsers, Casting, AgentHandlerRecord
      <4> QED BY <1>1, <2>3, <4>2 DEF OnItsWay
    <3>2. CASE SendTo(c, b)
      <4>1. bh[b].pc # "done" /\ p \in view'[b].got
        BY <1>1, <1>3, <2>3, <3>2 DEF SendTo, Told, Knows
      <4> QED BY <4>1 DEF OnItsWay
    <3>3. ASSUME NEW e \in Browsers \ {b}, SendTo(c, e)
          PROVE  OnItsWay(b, p)'
      <4>1. ah[c].pc = "casting" /\ ah' = [ah EXCEPT ![c].to = ah[c].to \ {e}, ![c].pc = "casting"]
        BY <2>3, <3>3 DEF SendTo, Casting
      <4>2. ah'[c].pc = "casting" /\ b \in ah'[c].to /\ ah'[c].sess = ah[c].sess /\ ah'[c].msg = p
        BY <1>1, <2>3, <4>1 DEF AgentHandlerRecord
      <4> QED BY <1>1, <2>3, <4>2 DEF OnItsWay
    <3> QED BY <3>1, <3>2, <3>3
  <2> QED BY <1>3, <2>1, <2>2, <2>3 DEF OnItsWay
<1>4. ASSUME NEW b \in Browsers
      PROVE  Served(b)'
  <2>1. Knows(b) => sess[bh[b].sess].cached \in Payloads \cup {NoPayload}
    BY DEF Knows, Typed, TypeOK, HasSession, SessionRecord, Cached
  <2> QED BY <1>1, <1>3, <2>1 DEF Delivered, Served, Knows
<1> QED BY <1>1, <1>2, <1>4 DEF Delivered

\* What the handler of one browser does, leaves every other one alone.
LEMMA DeliveredBrowser ==
  ASSUME Typed, Delivered, NEW b \in Browsers,
         UNCHANGED <<ah, localSession>>, Attending(b)', Served(b)',
         \A e \in Browsers \ {b} : bh'[e] = bh[e] /\ view'[e] = view[e],
         \A s \in Sessions : /\ sess'[s].made = sess[s].made /\ sess'[s].cached = sess[s].cached
                             /\ sess[s].browsers \ {b} \subseteq sess'[s].browsers
  PROVE  Delivered'
<1>1. (localSession # None => sess[localSession].made)'
  BY DEF Delivered, Typed, TypeOK, OptSession
<1>2. ASSUME NEW e \in Browsers \ {b}
      PROVE  Attending(e)' /\ Served(e)'
  <2>1. bh[e].pc # "none" => bh[e].sess \in Sessions
    BY DEF Typed, HasSession
  <2>2. Attending(e)'
    BY <2>1 DEF Delivered, Attending, Listens
  <2>3. Served(e)'
    BY <2>1 DEF Delivered, Served, Knows, OnItsWay
  <2> QED BY <2>2, <2>3
<1> QED BY <1>1, <1>2 DEF Delivered

\* What a browser asks for, is told and leaves.
LEMMA DeliveredActs ==
  ASSUME Typed, Linked, Delivered, NEW b \in Browsers, BrowserHandler(b) \/ BrowserActs(b)
  PROVE  Delivered'
<1>1. /\ bh \in [Browsers -> BrowserHandlerRecord] /\ view \in [Browsers -> ViewRecord]
      /\ sess \in [Sessions -> SessionRecord] /\ UNCHANGED <<ah, localSession>>
      /\ \A e \in Browsers \ {b} : bh'[e] = bh[e] /\ view'[e] = view[e]
  BY DEF BrowserHandler, BrowserActs, Attach, ReadOnline, ReplayHello, ReadCache, ReplayCache,
     ReplayOffline, PairLocal, PairByKey, PairTo, Detach, storeVars, Typed, TypeOK
<1>2. \A s \in Sessions : /\ sess'[s].made = sess[s].made /\ sess'[s].cached = sess[s].cached
                          /\ sess[s].browsers \ {b} \subseteq sess'[s].browsers
  <2>1. CASE Attach(b) \/ Detach(b)
    BY <1>1, <2>1 DEF Attach, Detach, SessionRecord
  <2>2. CASE ~(Attach(b) \/ Detach(b))
    BY <2>2 DEF BrowserHandler, BrowserActs, ReadOnline, ReplayHello, ReadCache, ReplayCache,
       ReplayOffline, PairLocal, PairByKey, PairTo
  <2> QED BY <2>1, <2>2
<1>3. Attending(b)' /\ Served(b)'
  <2>1. bh[b].pc # "none" => bh[b].sess \in Sessions /\ Attending(b) /\ Served(b)
    BY DEF Typed, HasSession, Delivered
  <2>2. ASSUME NEW s \in Sessions, sess[s].made, PairTo(b, s)
        PROVE  Attending(b)' /\ Served(b)'
    <3>1. bh'[b].pc = "resolved" /\ bh'[b].sess = s /\ sess' = sess
      BY <1>1, <2>2 DEF PairTo, BrowserHandlerRecord
    <3> QED BY <2>2, <3>1 DEF Attending, Listens, Served, Knows
  <2>3. CASE PairLocal(b) \/ PairByKey(b)
    <3>1. \A s \in stored : s \in Sessions /\ sess[s].made
      BY DEF Typed, TypeOK, Linked, Opened
    <3>2. localSession # None => localSession \in Sessions /\ sess[localSession].made
      BY DEF Typed, TypeOK, OptSession, Delivered
    <3> QED BY <2>2, <2>3, <3>1, <3>2 DEF PairLocal, PairByKey
  <2>4. CASE Attach(b)
    <3>1. bh'[b].pc = "attached" /\ bh'[b].sess = bh[b].sess /\ bh[b].pc = "resolved"
      BY <1>1, <2>4 DEF Attach, BrowserHandlerRecord
    <3>2. b \in sess'[bh[b].sess].browsers
      BY <1>1, <2>1, <2>4, <3>1 DEF Attach, SessionRecord
    <3> QED BY <1>2, <2>1, <3>1, <3>2 DEF Attending, Served, Knows
  <2>5. CASE ReadOnline(b) \/ ReplayHello(b)
    <3>1. /\ bh'[b].pc \in {"queried", "greeted"} /\ bh'[b].sess = bh[b].sess /\ sess' = sess
          /\ bh[b].pc \in {"attached", "queried"}
      BY <1>1, <2>5 DEF ReadOnline, ReplayHello, BrowserHandlerRecord
    <3> QED BY <2>1, <3>1 DEF Attending, Listens, Served, Knows
  <2>6. CASE ReadCache(b)
    <3>1. /\ bh'[b].pc = "replaying" /\ bh'[b].sess = bh[b].sess /\ sess' = sess
          /\ bh[b].pc = "greeted" /\ bh'[b].cached = sess[bh[b].sess].cached
      BY <1>1, <2>6 DEF ReadCache, BrowserHandlerRecord
    <3> QED BY <2>1, <3>1 DEF Attending, Listens, Served, OnItsWay
  <2>7. CASE ReplayCache(b) \/ ReplayOffline(b)
    <3>1. /\ bh'[b].pc \in {"replayed", "reading"} /\ bh'[b].sess = bh[b].sess /\ sess' = sess
          /\ Knows(b) /\ Listens(b) /\ bh[b].pc # "none" /\ view[b].got \subseteq view'[b].got
      BY <1>1, <2>7
         DEF ReplayCache, ReplayOffline, BrowserHandlerRecord, Told, Knows, Listens
    <3>2. bh[b].pc = "replaying" /\ sess[bh[b].sess].cached = bh[b].cached
          /\ sess[bh[b].sess].cached # NoPayload => bh[b].cached \in view'[b].got
      <4>1. ASSUME ReplayCache(b), bh[b].cached # NoPayload
            PROVE  bh[b].cached \in view'[b].got
        BY <1>1, <4>1 DEF ReplayCache, Told, BrowserHandlerRecord, Cached
      <4> QED BY <2>7, <4>1 DEF ReplayOffline
    <3> QED BY <1>1, <2>1, <3>1, <3>2 DEF Attending, Served, Knows, OnItsWay
  <2>8. CASE Detach(b)
    <3>1. bh'[b].pc = "done" /\ bh'[b].sess = bh[b].sess /\ bh[b].pc = "reading"
      BY <1>1, <2>8 DEF Detach, BrowserHandlerRecord
    <3> QED BY <1>2, <2>1, <3>1 DEF Attending, Listens, Served, Knows
  <2> QED BY <2>3, <2>4, <2>5, <2>6, <2>7, <2>8 DEF BrowserHandler, BrowserActs
<1> QED BY <1>1, <1>2, <1>3, DeliveredBrowser

\* Every step keeps it.
LEMMA DeliveredNext == Typed /\ Linked /\ Delivered /\ [Next]_vars => Delivered'
<1> SUFFICES ASSUME Typed, Linked, Delivered, [Next]_vars PROVE Delivered'
  OBVIOUS
<1>1. CASE UNCHANGED vars
  BY <1>1, DeliveredQuiet DEF vars, storeVars, browserVars, Delivered, Typed, TypeOK, OptSession
<1>2. ASSUME NEW c \in Conns, AgentHandler(c) \/ AgentMessages(c)
      PROVE  Delivered'
  BY <1>2, DeliveredHandler, DeliveredRoute, DeliveredCast DEF AgentHandler, AgentMessages
<1> QED BY <1>1, <1>2, DeliveredAgents, DeliveredActs, DeliveredDelete DEF Next

\* A browser misses nothing the relay has cached for its session, however its
\* attach, the agents' messages and the agents' comings and goings interleave.
THEOREM NothingMissed == Spec => []NoMissedPayload
<1>1. Delivered => NoMissedPayload
  BY DEF Delivered, Served, Knows, NoMissedPayload
<1> QED BY <1>1, DeliveredInit, DeliveredNext, TypedAlways, LinkedAlways, PTL DEF Spec

-----------------------------------------------------------------------------
\* Ownership.

\* What SessionOwnership sees of a step, session by session and connection by
\* connection.
SameOwners ==
  \A s \in Sessions : sess'[s].made = sess[s].made /\ sess'[s].conn = sess[s].conn

SameConn(c) ==
  /\ conn'[c].shows = conn[c].shows
  /\ ah'[c].sess # None <=> ah[c].sess # None

SameEnd(c) == Ended(c)' <=> Ended(c)

\* A step that changes none of it is a stutter.
LEMMA OwnershipStutter ==
  ASSUME SameOwners, \A c \in Conns : SameConn(c) /\ SameEnd(c)
  PROVE  UNCHANGED Ownership!vars
<1>1. {s \in Sessions : sess'[s].made} = {s \in Sessions : sess[s].made}
      /\ [s \in Sessions |-> sess'[s].conn] = [s \in Sessions |-> sess[s].conn]
  BY DEF SameOwners
<1>2. [c \in Conns |-> conn'[c].shows] = [c \in Conns |-> conn[c].shows]
      /\ {c \in Conns : ah'[c].sess # None} = {c \in Conns : ah[c].sess # None}
  BY DEF SameConn
<1>3. {c \in Conns : Ended(c)'} = {c \in Conns : Ended(c)}
  BY DEF SameEnd
<1> QED BY <1>1, <1>2, <1>3 DEF Ownership!vars

\* A step that only ends a connection.
LEMMA OwnershipEnd ==
  ASSUME NEW c \in Conns, SameOwners, \A d \in Conns : SameConn(d),
         \A d \in Conns : d # c => SameEnd(d), Ended(c)'
  PROVE  Ownership!Next
<1>1. {s \in Sessions : sess'[s].made} = {s \in Sessions : sess[s].made}
      /\ [s \in Sessions |-> sess'[s].conn] = [s \in Sessions |-> sess[s].conn]
  BY DEF SameOwners
<1>2. [d \in Conns |-> conn'[d].shows] = [d \in Conns |-> conn[d].shows]
      /\ {d \in Conns : ah'[d].sess # None} = {d \in Conns : ah[d].sess # None}
  BY DEF SameConn
<1>3. {d \in Conns : Ended(d)'} = {d \in Conns : Ended(d)} \cup {c}
  BY DEF SameEnd
<1>4. Ownership!End(c)
  BY <1>1, <1>2, <1>3 DEF Ownership!End
<1> QED BY <1>4 DEF Ownership!Next

\* Steps of handlers, browsers and DELETEs that leave ownership alone.
LEMMA SilentMoves ==
  ASSUME Typed, NEW c \in Conns,
         SendPairCode(c) \/ BindLocal(c) \/ DropSuperseded(c) \/ DeleteLegacy(c)
  PROVE  UNCHANGED Ownership!vars
<1>1. conn \in [Conns -> ConnRecord] /\ ah \in [Conns -> AgentHandlerRecord]
  BY DEF Typed, TypeOK
<1>2. SameOwners
  BY DEF SameOwners, SendPairCode, BindLocal, DropSuperseded, DeleteLegacy
<1>3. ASSUME NEW d \in Conns PROVE SameConn(d) /\ SameEnd(d)
  BY <1>1 DEF SameConn, SameEnd, Ended, ConnRecord, AgentHandlerRecord, SendPairCode,
              BindLocal, DropSuperseded, DeleteLegacy
<1> QED BY <1>2, <1>3, OwnershipStutter

\* Steps that leave ownership alone: routing a message,
LEMMA SilentRoute ==
  ASSUME Typed, NEW c \in Conns,
         RouteHello(c) \/ RouteSnapshot(c) \/ RouteDiscoveryError(c) \/ UnbindLocal(c)
  PROVE  UNCHANGED Ownership!vars
<1>1. ah \in [Conns -> AgentHandlerRecord] /\ sess \in [Sessions -> SessionRecord]
  BY DEF Typed, TypeOK
<1>2. SameOwners
  BY <1>1 DEF SameOwners, SessionRecord, RouteHello, RouteSnapshot, RouteDiscoveryError,
              UnbindLocal
<1>3. ASSUME NEW d \in Conns PROVE SameConn(d) /\ SameEnd(d)
  BY <1>1 DEF SameConn, SameEnd, Ended, AgentHandlerRecord, RouteHello, RouteSnapshot,
              RouteDiscoveryError, UnbindLocal, Broadcast, Connected, Disconnected
<1> QED BY <1>2, <1>3, OwnershipStutter

\* sending it to browsers,
LEMMA SilentBroadcast ==
  ASSUME Typed, NEW c \in Conns, CopyBrowsers(c) \/ \E b \in Browsers : SendTo(c, b)
  PROVE  UNCHANGED Ownership!vars
<1>1. ah \in [Conns -> AgentHandlerRecord]
  BY DEF Typed, TypeOK
<1>2. SameOwners
  BY DEF SameOwners, CopyBrowsers, SendTo
<1>3. /\ ah[c].pc \in {"copying", "casting"} /\ UNCHANGED conn
      /\ \E browsers : Casting(c, browsers)
  BY DEF CopyBrowsers, SendTo
<1>4. PICK browsers : Casting(c, browsers)
  BY <1>3
<1>5. /\ \A d \in Conns : d # c => ah'[d] = ah[d]
      /\ ah'[c].sess = ah[c].sess /\ ah'[c].msg = ah[c].msg
      /\ ah'[c].pc \in {"casting", "done"} \/ ah[c].msg # Disconnected
      /\ ah'[c].pc \in {"casting", "reading"} \/ ah[c].msg = Disconnected
  BY <1>1, <1>4 DEF Casting, AgentHandlerRecord
<1>6. ah'[c].pc \in {"casting", "done", "reading"}
  BY <1>1, <1>4 DEF Casting, AgentHandlerRecord
<1>7. ASSUME NEW d \in Conns PROVE SameConn(d) /\ SameEnd(d)
  <2>1. SameConn(d)
    BY <1>3, <1>5 DEF SameConn
  <2>2. CASE d # c
    BY <2>1, <2>2, <1>5 DEF SameEnd, Ended
  <2>3. CASE d = c
    BY <2>1, <2>3, <1>3, <1>5, <1>6 DEF SameEnd, Ended
  <2> QED BY <2>2, <2>3
<1> QED BY <1>2, <1>7, OwnershipStutter

\* what a browser does,
LEMMA SilentBrowser ==
  ASSUME Typed, NEW b \in Browsers, BrowserHandler(b) \/ BrowserActs(b)
  PROVE  UNCHANGED Ownership!vars
<1>1. sess \in [Sessions -> SessionRecord]
  BY DEF Typed, TypeOK
<1>2. UNCHANGED <<conn, ah>> /\ SameOwners
  BY <1>1 DEF BrowserHandler, BrowserActs, Attach, ReadOnline, ReplayHello, ReadCache,
              ReplayCache, ReplayOffline, PairLocal, PairByKey, PairTo, Detach, SameOwners,
              SessionRecord
<1>3. \A c \in Conns : SameConn(c) /\ SameEnd(c)
  BY <1>2 DEF SameConn, SameEnd, Ended
<1> QED BY <1>2, <1>3, OwnershipStutter

\* a DELETE request,
LEMMA SilentDelete ==
  ASSUME NEW d \in Deleters,
         DeleteHandler(d) \/ \E m \in Clusters : RemoveCluster(d, m) \/ RemoveFails(d, m)
  PROVE  UNCHANGED Ownership!vars
<1>1. UNCHANGED <<conn, ah, sess>>
  BY DEF DeleteHandler, RemoveCluster, RemoveFails, FindRemoved, DeleteSession
<1>2. SameOwners /\ \A c \in Conns : SameConn(c) /\ SameEnd(c)
  BY <1>1 DEF SameOwners, SameConn, SameEnd, Ended
<1> QED BY <1>2, OwnershipStutter

\* and what agents and the network do.
LEMMA SilentAgents ==
  ASSUME Typed, (\E m \in Machines : AgentStops(m))
                \/ (\E c \in Conns : ConnLost(c) \/ ReceivePairCode(c))
                \/ UNCHANGED vars
  PROVE  UNCHANGED Ownership!vars
<1>1. conn \in [Conns -> ConnRecord]
  BY DEF Typed, TypeOK
<1>2. UNCHANGED <<ah, sess>> /\ \A c \in Conns : conn'[c].shows = conn[c].shows
  BY <1>1 DEF AgentStops, ConnLost, ReceivePairCode, ConnRecord, vars
<1>3. SameOwners /\ \A c \in Conns : SameConn(c) /\ SameEnd(c)
  BY <1>2 DEF SameOwners, SameConn, SameEnd, Ended
<1> QED BY <1>3, OwnershipStutter

\* The steps SessionOwnership sees.
LEMMA OwnershipArrive ==
  ASSUME Typed, Linked, NEW c \in Conns, NEW m, NEW k \in Conns \cup {None}, Dial(c, m, k)
  PROVE  Ownership!Next
<1>1. conn \in [Conns -> ConnRecord] /\ ah \in [Conns -> AgentHandlerRecord]
  BY DEF Typed, TypeOK
<1>2. /\ ah[c].pc = "none" /\ ah[c].sess = None /\ UNCHANGED sess
      /\ \A d \in Conns : ah'[d].sess = ah[d].sess /\ ah'[d].msg = ah[d].msg
      /\ \A d \in Conns : d # c => ah'[d].pc = ah[d].pc
      /\ ah'[c].pc = "hello"
  BY <1>1 DEF Dial, Linked, Opened, AgentHandlerRecord
<1>3. \A d \in Conns : SameEnd(d) /\ ~Ended(c)
  BY <1>2 DEF SameEnd, Ended
<1>4. {d \in Conns : Ended(d)'} = {d \in Conns : Ended(d)}
  BY <1>3 DEF SameEnd
<1>5. {d \in Conns : ah'[d].sess # None} = {d \in Conns : ah[d].sess # None}
  BY <1>2
<1>6. [d \in Conns |-> conn'[d].shows]
        = [[d \in Conns |-> conn[d].shows] EXCEPT ![c] = k]
  BY <1>1 DEF Dial, ConnRecord
<1>7. Ownership!Arrive(c, k)
  BY <1>2, <1>3, <1>4, <1>5, <1>6 DEF Ownership!Arrive
<1> QED BY <1>7 DEF Ownership!Next

\* Steps that are one of SessionOwnership: a connection arrives or ends,
LEMMA OwnershipEnds ==
  ASSUME Typed, NEW c \in Conns,
         NoHello(c) \/ RejectHello(c) \/ PairCodeFails(c) \/ ReadFails(c)
  PROVE  Ownership!Next
<1>1. conn \in [Conns -> ConnRecord] /\ ah \in [Conns -> AgentHandlerRecord]
  BY DEF Typed, TypeOK
<1>2. SameOwners
  BY DEF SameOwners, NoHello, RejectHello, PairCodeFails, ReadFails
<1>3. \A d \in Conns : SameConn(d)
  <2>1. \A d \in Conns : conn'[d].shows = conn[d].shows
    BY <1>1 DEF ConnRecord, NoHello, RejectHello, PairCodeFails, ReadFails
  <2>2. \A d \in Conns : ah'[d].sess = ah[d].sess
    BY <1>1 DEF AgentHandlerRecord, NoHello, RejectHello, PairCodeFails, ReadFails
  <2> QED BY <2>1, <2>2 DEF SameConn
<1>4. \A d \in Conns : d # c => SameEnd(d)
  BY <1>1 DEF SameEnd, Ended, NoHello, RejectHello, PairCodeFails, ReadFails
<1>5. Ended(c)'
  BY <1>1 DEF Ended, AgentHandlerRecord, NoHello, RejectHello, PairCodeFails, ReadFails
<1> QED BY <1>2, <1>3, <1>4, <1>5, OwnershipEnd

\* A handler that registers: its connection is used from then on, and nobody's
\* end is touched.
LEMMA Registers ==
  ASSUME Typed, NEW c \in Conns, NEW s \in Sessions, ah[c].pc = "hello",
         ah'[c].pc = "registered", ah'[c].sess = s, \A d \in Conns : d # c => ah'[d] = ah[d],
         UNCHANGED conn
  PROVE  /\ [d \in Conns |-> conn'[d].shows] = [d \in Conns |-> conn[d].shows]
         /\ {d \in Conns : ah'[d].sess # None} = {d \in Conns : ah[d].sess # None} \cup {c}
         /\ {d \in Conns : Ended(d)'} = {d \in Conns : Ended(d)}
         /\ ~Ended(c)
<1>1. s # None
  BY DEF Sessions
<1>2. \A d \in Conns : SameEnd(d)
  BY DEF SameEnd, Ended
<1>3. ~Ended(c)
  BY DEF Ended
<1>4. {d \in Conns : Ended(d)'} = {d \in Conns : Ended(d)}
  BY <1>2 DEF SameEnd
<1> QED BY <1>1, <1>3, <1>4

\* opens a session,
LEMMA OwnershipOpen ==
  ASSUME Typed, Linked, NEW c \in Conns, CreateSession(c)
  PROVE  Ownership!Next
<1>1. /\ sess \in [Sessions -> SessionRecord] /\ ah \in [Conns -> AgentHandlerRecord]
      /\ c \in Sessions
  BY DEF Typed, TypeOK, Sessions
<1>2. /\ ah[c].pc = "hello" /\ ah'[c].pc = "registered" /\ ah'[c].sess = c
      /\ \A d \in Conns : d # c => ah'[d] = ah[d]
      /\ UNCHANGED conn
  BY <1>1 DEF CreateSession, AgentHandlerRecord
<1>3. ah[c].sess = None /\ ~sess[c].made
  BY <1>2 DEF Linked, Opened
<1>4. /\ \A s \in Sessions : s # c => sess'[s] = sess[s]
      /\ sess'[c].made /\ sess'[c].conn = c
  BY <1>1 DEF CreateSession, NoSession
<1>5. {s \in Sessions : sess'[s].made} = {s \in Sessions : sess[s].made} \cup {c}
  BY <1>1, <1>4
<1>6. [s \in Sessions |-> sess'[s].conn] = [[s \in Sessions |-> sess[s].conn] EXCEPT ![c] = c]
  BY <1>1, <1>4
<1>7. Ownership!Open(c)
  BY <1>1, <1>2, <1>3, <1>5, <1>6, Registers DEF Ownership!Open
<1> QED BY <1>7 DEF Ownership!Next

\* takes one over with its secret,
LEMMA OwnershipTakeOver ==
  ASSUME Typed, Linked, NEW c \in Conns, ResumeSession(c)
  PROVE  Ownership!Next
<1> DEFINE r == byMachine[conn[c].by]
<1>1. /\ sess \in [Sessions -> SessionRecord] /\ ah \in [Conns -> AgentHandlerRecord]
      /\ conn[c].by \in Machines /\ r \in Sessions /\ conn[c].shows = r /\ r # None
  BY DEF ResumeSession, Typed, TypeOK, ConnRecord, OptMachine, OptSession
<1>2. /\ ah[c].pc = "hello" /\ ah'[c].pc = "registered" /\ ah'[c].sess = r
      /\ \A d \in Conns : d # c => ah'[d] = ah[d]
      /\ UNCHANGED conn
  BY <1>1 DEF ResumeSession, AgentHandlerRecord
<1>3. ah[c].sess = None
  BY <1>2 DEF Linked, Opened
<1>4. /\ \A s \in Sessions : sess'[s].made = sess[s].made
      /\ \A s \in Sessions : s # r => sess'[s].conn = sess[s].conn
      /\ sess'[r].conn = c
  BY <1>1 DEF ResumeSession, SessionRecord
<1>5. sess[r].made
  BY <1>1 DEF Linked, StoreConsistent, Opened
<1> HIDE DEF r
<1>6. {s \in Sessions : sess'[s].made} = {s \in Sessions : sess[s].made}
  BY <1>4
<1>7. [s \in Sessions |-> sess'[s].conn] = [[s \in Sessions |-> sess[s].conn] EXCEPT ![r] = c]
  BY <1>1, <1>4
<1>8. PICK s \in Conns : s = r
  BY <1>1 DEF Sessions
<1>9. Ownership!TakeOver(c, s)
  BY <1>1, <1>2, <1>3, <1>5, <1>6, <1>7, <1>8, Registers DEF Ownership!TakeOver
<1> QED BY <1>9 DEF Ownership!Next

\* or gives one up.
LEMMA OwnershipRelease ==
  ASSUME Typed, NEW c \in Conns, DropAgent(c)
  PROVE  Ownership!Next
<1> DEFINE r == ah[c].sess
<1>1. /\ sess \in [Sessions -> SessionRecord] /\ ah \in [Conns -> AgentHandlerRecord]
      /\ ah[c].pc = "closing" /\ r \in Sessions /\ sess[r].conn = c /\ UNCHANGED conn
  BY DEF DropAgent, Typed, TypeOK, HasSession
<1>2. /\ \A s \in Sessions : sess'[s].made = sess[s].made
      /\ \A s \in Sessions : s # r => sess'[s].conn = sess[s].conn
      /\ sess'[r].conn = None
  BY <1>1 DEF DropAgent, SessionRecord
<1>3. /\ \A d \in Conns : d # c => ah'[d] = ah[d]
      /\ ah'[c].sess = r
      /\ ah'[c].pc = "dropped" \/ (ah'[c].pc = "copying" /\ ah'[c].msg = Disconnected)
  BY <1>1 DEF DropAgent, AgentHandlerRecord
<1> HIDE DEF r
<1>4. ah[c].sess = r
  BY DEF r
<1>5. Ended(c) /\ \A d \in Conns : SameEnd(d)
  BY <1>1, <1>3 DEF Ended, SameEnd
<1>6. {d \in Conns : Ended(d)'} = {d \in Conns : Ended(d)}
  BY <1>5 DEF SameEnd
<1>7. {d \in Conns : ah'[d].sess # None} = {d \in Conns : ah[d].sess # None}
      /\ [d \in Conns |-> conn'[d].shows] = [d \in Conns |-> conn[d].shows]
  BY <1>1, <1>3, <1>4
<1>8. {s \in Sessions : sess'[s].made} = {s \in Sessions : sess[s].made}
      /\ [s \in Sessions |-> sess'[s].conn]
           = [[s \in Sessions |-> sess[s].conn] EXCEPT ![r] = None]
  BY <1>1, <1>2
<1>9. PICK s \in Conns : s = r
  BY <1>1 DEF Sessions
<1>10. Ownership!Release(s)
  BY <1>1, <1>5, <1>6, <1>7, <1>8, <1>9 DEF Ownership!Release
<1> QED BY <1>10 DEF Ownership!Next

\* A session is taken over only with its secret, and given up only when its
\* owner's own connection has ended.
THEOREM OwnershipRefinement == Spec => ImplementsOwnership
<1>1. Init => Ownership!Init
  BY DEF Init, Ownership!Init, NoSession, Ended, Sessions
<1>2. Typed /\ Linked /\ [Next]_vars => [Ownership!Next]_(Ownership!vars)
  <2> SUFFICES ASSUME Typed, Linked, [Next]_vars
               PROVE  Ownership!Next \/ UNCHANGED Ownership!vars
    OBVIOUS
  <2>1. CASE Agents
    <3>1. \A m \in Machines : held[m] \in Conns \cup {None}
      BY DEF Typed, TypeOK, OptSession, Sessions
    <3>2. ASSUME NEW m \in Machines, NEW c \in Conns, AgentDial(m, c)
          PROVE  Ownership!Next
      BY <3>1, <3>2, OwnershipArrive DEF AgentDial
    <3>3. ASSUME NEW c \in Conns, LegacyDial(c) PROVE Ownership!Next
      BY <3>3, OwnershipArrive DEF LegacyDial
    <3> QED BY <2>1, <3>2, <3>3, SilentAgents DEF Agents
  <2>2. ASSUME NEW c \in Conns, AgentHandler(c)
        PROVE  Ownership!Next \/ UNCHANGED Ownership!vars
    BY <2>2, OwnershipEnds, OwnershipOpen, OwnershipTakeOver, OwnershipRelease, SilentMoves,
       SilentRoute, SilentBroadcast
    DEF AgentHandler
  <2>3. ASSUME NEW c \in Conns, AgentMessages(c)
        PROVE  Ownership!Next \/ UNCHANGED Ownership!vars
    BY <2>3, OwnershipEnds, SilentRoute DEF AgentMessages
  <2>4. ASSUME NEW b \in Browsers, BrowserHandler(b) \/ BrowserActs(b)
        PROVE  UNCHANGED Ownership!vars
    BY <2>4, SilentBrowser
  <2>5. ASSUME NEW d \in Deleters,
               DeleteHandler(d) \/ \E m \in Clusters : RemoveCluster(d, m) \/ RemoveFails(d, m)
        PROVE  UNCHANGED Ownership!vars
    BY <2>5, SilentDelete
  <2>6. CASE UNCHANGED vars
    BY <2>6, SilentAgents
  <2> QED BY <2>1, <2>2, <2>3, <2>4, <2>5, <2>6 DEF Next
<1> QED BY <1>1, <1>2, TypedAlways, LinkedAlways, PTL
        DEF Spec, ImplementsOwnership, Ownership!Spec
=============================================================================
