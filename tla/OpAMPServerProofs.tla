-------------------------- MODULE OpAMPServerProofs --------------------------
(***************************************************************************)
(* Proofs about OpAMPServer for any number of agents, connections and       *)
(* requests.  The invariants of the registry are not inductive as they      *)
(* stand: they need to know where handlers and requests are in possession   *)
(* of an Agent object, and that the objects of a live connection are all    *)
(* registered.                                                              *)
(***************************************************************************)
EXTENDS OpAMPServer, TLAPS

(* Every object of a live connection is registered; a connection that was   *)
(* never accepted has none.                                                 *)
NoOrphans ==
    \A i \in Ids, c \in Conns :
      heap[i][c] # Nil => \/ agentsById[i] = c
                          \/ phase[c] = "removed"

(* A message loop only runs on a live connection.  One that is about to     *)
(* update a status has a report and the object it is for; the agent of one  *)
(* that is loading a file is not registered yet.                            *)
LoopsHold ==
    \A c \in Conns :
      /\ pc[c] # "idle" => phase[c] \in {"open", "broken"}
      /\ pc[c] = "update" => /\ cur[c] # Nil
                             /\ ref[c] # Nil
                             /\ heap[cur[c].id][ref[c]] # Nil
      /\ pc[c] = "load" => cur[c] # Nil /\ agentsById[cur[c].id] = Nil

(* A request under way knows what it was asked for, and one that sets or    *)
(* sends a config or an offer has the object it is for.                     *)
RequestsHold ==
    \A r \in Requests :
      /\ apiPc[r] \in SaveSteps \cup OfferSteps => apiReq[r] # Nil
      /\ apiPc[r] \in {"set", "send", "offering"} =>
           /\ apiRef[r] # Nil
           /\ heap[apiReq[r].id][apiRef[r]] # Nil

IndInv ==
    /\ TypeOK
    /\ RegistryConsistent
    /\ NoOrphans
    /\ LoopsHold
    /\ RequestsHold
    /\ OfferHoldsRegistry
    /\ RemoteConfigCurrent
    /\ WaiterNotForgotten

-----------------------------------------------------------------------------
(* What processStatusUpdate leaves in an Agent is an Agent again.           *)
LEMMA UpdateTyping ==
    ASSUME NEW a \in Agent, NEW m \in AgentToServer
    PROVE  /\ processStatusUpdate(a, m) \in Agent
           /\ processStatusUpdate(a, m).watchers = a.watchers
           /\ processStatusUpdate(a, m).custom = a.custom
           /\ processStatusUpdate(a, m).status \in AgentToServer
<1>1. updateStatusField(a, m) \in AgentToServer
  BY DEF updateStatusField, orElse, Agent, AgentToServer
<1>2. [a EXCEPT !.status = updateStatusField(a, m)] \in Agent
  BY <1>1 DEF Agent
<1>3. QED
  BY <1>1, <1>2 DEF processStatusUpdate, calcRemoteConfig, Agent

(* The answer to a report is a well-formed message. *)
LEMMA ResponseTyping ==
    ASSUME NEW a \in Agent, NEW m \in AgentToServer
    PROVE  statusResponse(a, m) \in ServerToAgent
<1>1. processStatusUpdate(a, m).remote \in Bodies \cup {Nil}
  BY UpdateTyping DEF Agent
<1>2. /\ (IF agentDescrChanged(a, m) THEN {"metrics"} ELSE {})
         \cup (IF m.csr = "granted" THEN {"certificate"} ELSE {})
           \in SUBSET {"metrics", "certificate", "tls"}
      /\ (IF offersConfig(a, m) THEN processStatusUpdate(a, m).remote ELSE Nil)
           \in Bodies \cup {Nil}
      /\ (statusIsCompressed(a, m) /\ lostPreviousUpdate(a, m)) \in BOOLEAN
      /\ (m.csr = "refused") \in BOOLEAN
  BY <1>1
<1>3. QED
  BY <1>2 DEF statusResponse, ServerToAgent

(* Setting a custom config rebuilds the remote config from it. *)
LEMMA SetTyping ==
    ASSUME NEW a \in Agent, NEW body \in Bodies, NEW r \in Requests
    PROVE  /\ SetCustomConfig(a, body, r) \in Agent
           /\ SetCustomConfig(a, body, r).remote = body
           /\ SetCustomConfig(a, body, r).custom = body
BY DEF SetCustomConfig, calcRemoteConfig, Agent, Bodies

(* A report leaves the remote config built from the custom one. *)
LEMMA UpdateRemote ==
    ASSUME NEW a \in Agent, NEW m \in AgentToServer,
           \/ a.remote = a.custom
           \/ a.remote = Nil /\ a.status = Nil /\ a.custom = EmptyConfig
    PROVE  processStatusUpdate(a, m).remote = processStatusUpdate(a, m).custom
BY DEF processStatusUpdate, calcRemoteConfig, agentDescrChanged, Agent

(* What an Agent object may be when it is registered: its remote config, if *)
(* any, is its custom one, and nobody watches it.                           *)
Initial(a) ==
    /\ a \in Agent
    /\ \/ a.remote = a.custom
       \/ a.remote = Nil /\ a.status = Nil /\ a.custom = EmptyConfig
    /\ a.watchers = {}

(* A new Agent, and one that was given the content of its file. *)
LEMMA NewTyping ==
    /\ Initial(NewAgent) /\ NewAgent.custom = EmptyConfig
    /\ \A content \in Bodies :
         /\ Initial(calcRemoteConfig([NewAgent EXCEPT !.custom = content]))
         /\ calcRemoteConfig([NewAgent EXCEPT !.custom = content]).custom = content
<1>1. NewAgent \in Agent
  BY DEF NewAgent, Agent, Bodies
<1>2. Initial(NewAgent) /\ NewAgent.custom = EmptyConfig
  BY <1>1 DEF Initial, NewAgent
<1>3. ASSUME NEW content \in Bodies
      PROVE  /\ Initial(calcRemoteConfig([NewAgent EXCEPT !.custom = content]))
             /\ calcRemoteConfig([NewAgent EXCEPT !.custom = content]).custom = content
  <2> DEFINE a == [NewAgent EXCEPT !.custom = content]
             b == calcRemoteConfig(a)
  <2>1. a \in Agent /\ a.custom = content /\ a.watchers = {}
    BY <1>1 DEF Agent, NewAgent
  <2> HIDE DEF a
  <2>2. b \in Agent
    BY <2>1 DEF calcRemoteConfig, Agent
  <2>3. b.custom = content /\ b.remote = content /\ b.watchers = {}
    BY <2>1 DEF calcRemoteConfig, Agent
  <2> HIDE DEF b
  <2>4. Initial(b) /\ b.custom = content
    BY <2>2, <2>3 DEF Initial
  <2>5. QED
    BY <2>4 DEF b, a
<1>4. QED
  BY <1>2, <1>3

(* The outcomes of loading a file (loadPersistedConfig): an initial Agent,  *)
(* with the config that was read or none, and a file that is left alone or  *)
(* removed.                                                                 *)
LEMMA LoadTyping ==
    ASSUME TypeOK, NEW c \in Conns, loadPersistedConfig(c)
    PROVE  /\ \E a : /\ Register(c, cur[c].id, a) /\ Initial(a)
                     /\ a.custom \in {loaded[c], EmptyConfig, Garbled}
           /\ \/ files' = files /\ linked' = linked
              \/ /\ files' = [files EXCEPT ![cur[c].id][Canonical] = Nil]
                 /\ linked' = Unlink(cur[c].id, Canonical)
                 /\ \/ loaded[c] \in {EmptyConfig, Garbled}
                    \/ loaded[c] # files[cur[c].id][Canonical]
<1>1. PICK content \in contentRead(c) : useConfig(c, content) \/ skipConfig(c, content)
  BY DEF loadPersistedConfig
<1>2. \/ content = loaded[c]
      \/ content = Garbled /\ loaded[c] # files[cur[c].id][Canonical]
  BY DEF contentRead
<1>3. CASE useConfig(c, content)
  <2>1. content \in Bodies
    BY <1>3 DEF useConfig, Bodies
  <2>2. QED
    BY <1>2, <1>3, <2>1, NewTyping DEF useConfig
<1>4. CASE skipConfig(c, content)
  <2>1. Register(c, cur[c].id, NewAgent) /\ content \in {EmptyConfig, Garbled}
    BY <1>4 DEF skipConfig
  <2>2. \/ files' = files /\ linked' = linked
        \/ /\ files' = [files EXCEPT ![cur[c].id][Canonical] = Nil]
           /\ linked' = Unlink(cur[c].id, Canonical)
    BY <1>4 DEF skipConfig
  <2>3. QED
    BY <1>2, <2>1, <2>2, NewTyping
<1>5. QED
  BY <1>1, <1>3, <1>4

(* What a send of a well-formed message leaves in the outboxes is well      *)
(* formed (Connection.Send).                                                *)
LEMMA SendTyping ==
    ASSUME TypeOK, NEW c \in Conns, NEW msg \in ServerToAgent, Send(c, msg)
    PROVE  outbox' \in [Conns -> Seq(ServerToAgent)]
<1>1. Append(outbox[c], msg) \in Seq(ServerToAgent)
  BY DEF TypeOK
<1>2. QED
  BY <1>1 DEF Send, TypeOK

(* The messages SendToAgent and OfferConnectionSettings build from the      *)
(* empty one are well formed.                                               *)
LEMMA MessageTyping ==
    /\ EmptyMessage \in ServerToAgent
    /\ \A body \in Configs \cup {EmptyConfig} :
         [EmptyMessage EXCEPT !.config = body] \in ServerToAgent
    /\ \A offered \in SUBSET {"certificate", "tls"} :
         [EmptyMessage EXCEPT !.settings = offered] \in ServerToAgent
<1>1. EmptyMessage \in ServerToAgent
  BY DEF EmptyMessage, ServerToAgent
<1>2. QED
  BY <1>1 DEF ServerToAgent, Bodies

(* Every step keeps the type invariant. *)
LEMMA TypeStep ==
    ASSUME IndInv, [Next]_vars
    PROVE  TypeOK'
<1> USE DEF IndInv
<1> USE ServerAssumption
<1>1. ASSUME NEW c \in Conns, Accept(c) PROVE TypeOK'
  BY <1>1 DEF Accept, TypeOK, registryVars, apiVars, diskVars
<1>2. ASSUME NEW c \in Conns, PeerGone(c) PROVE TypeOK'
  BY <1>2 DEF PeerGone, TypeOK, registryVars, apiVars, diskVars
<1>3. ASSUME NEW c \in Conns, NetworkTake(c) PROVE TypeOK'
  BY <1>3 DEF NetworkTake, TypeOK, registryVars, loopVars, apiVars, diskVars
<1>4. ASSUME NEW c \in Conns, RemoveConnection(c) PROVE TypeOK'
  BY <1>4 DEF RemoveConnection, TypeOK, apiVars, diskVars
<1>5. ASSUME NEW c \in Conns, rejectMessage(c) PROVE TypeOK'
  BY <1>5, MessageTyping DEF rejectMessage, TypeOK, registryVars, apiVars, diskVars
<1>6. ASSUME NEW c \in Conns, NEW m \in Messages, onMessage(c, m) PROVE TypeOK'
  <2>1. m \in AgentToServer /\ m.id \in Ids
    BY DEF AgentToServer
  <2>2. CASE FindAgentOf(c, m)
    BY <1>6, <2>1, <2>2 DEF onMessage, FindAgentOf, TypeOK, registryVars, apiVars, diskVars
  <2>3. CASE CreateAgent(c, m)
    <3>1. NewAgent \in Agent /\ Register(c, m.id, NewAgent)
      BY <2>3, NewTyping DEF CreateAgent, Initial
    <3>2. heap' \in [Ids -> [Conns -> Agent \cup {Nil}]]
      BY <2>1, <3>1 DEF Register, TypeOK
    <3>3. QED
      BY <1>6, <2>1, <2>3, <3>1, <3>2 DEF onMessage, CreateAgent, Register, TypeOK, apiVars, diskVars
  <2>4. CASE readConfigFile(c, m)
    BY <1>6, <2>1, <2>4 DEF onMessage, readConfigFile, TypeOK, apiVars
  <2>5. QED
    BY <1>6, <2>2, <2>3, <2>4 DEF onMessage
<1>19. ASSUME NEW c \in Conns, loadPersistedConfig(c) PROVE TypeOK'
  <2>1. cur[c].id \in Ids
    BY <1>19 DEF loadPersistedConfig, LoopsHold, TypeOK, AgentToServer
  <2>2. PICK a : Register(c, cur[c].id, a) /\ a \in Agent
    BY <1>19, LoadTyping DEF Initial
  <2>3. heap' \in [Ids -> [Conns -> Agent \cup {Nil}]]
    BY <2>1, <2>2 DEF Register, TypeOK
  <2>4. files' \in [Ids -> [Spellings -> Bodies \cup {Nil}]] /\ linked' \subseteq Requests
    <3>1. \/ files' = files /\ linked' = linked
          \/ /\ files' = [files EXCEPT ![cur[c].id][Canonical] = Nil]
             /\ linked' \subseteq linked
      <4>1. Unlink(cur[c].id, Canonical) \subseteq linked
        BY DEF Unlink
      <4>2. QED
        BY <1>19, <4>1, LoadTyping
    <3>2. files \in [Ids -> [Spellings -> Bodies \cup {Nil}]] /\ linked \subseteq Requests
      BY DEF TypeOK
    <3>3. QED
      BY <2>1, <3>1, <3>2
  <2>5. /\ agentsById' \in [Ids -> Conns \cup {Nil}]
        /\ connections' \in [Conns -> SUBSET Ids]
        /\ ref' \in [Conns -> Conns \cup {Nil}]
        /\ pc' \in [Conns -> {"idle", "load", "update", "respond"}]
    BY <2>1, <2>2 DEF Register, TypeOK
  <2>6. loaded' \in [Conns -> Bodies \cup {Nil}]
    <3>1. loaded' = [loaded EXCEPT ![c] = Nil]
      BY <1>19 DEF loadPersistedConfig
    <3>2. QED
      BY <3>1 DEF TypeOK
  <2>7. /\ registryMux' \in Requests \cup Conns \cup {Nil}
        /\ UNCHANGED <<phase, cur, resp, outbox, apiPc, apiReq, apiRef, chan, crashes>>
    BY <1>19 DEF loadPersistedConfig, apiVars
  <2>8. /\ phase' \in [Conns -> {"fresh", "open", "broken", "removed"}]
        /\ cur' \in [Conns -> AgentToServer \cup {Nil}]
        /\ resp' \in [Conns -> ServerToAgent]
        /\ outbox' \in [Conns -> Seq(ServerToAgent)]
        /\ crashes' \in 0 .. MaxCrashes
    BY <2>7 DEF TypeOK
  <2>9. /\ apiPc' \in [Requests -> {"new"} \cup SaveSteps \cup OfferSteps \cup Answers]
        /\ apiReq' \in [Requests -> Request \cup {Nil}]
        /\ apiRef' \in [Requests -> Conns \cup {Nil}]
        /\ chan' \in [Requests -> BOOLEAN]
    BY <2>7 DEF TypeOK
  <2>10. QED
    BY <2>3, <2>4, <2>5, <2>6, <2>7, <2>8, <2>9 DEF TypeOK
<1>7. ASSUME NEW c \in Conns, UpdateStatus(c) PROVE TypeOK'
  <2> DEFINE m == cur[c]
             a == heap[m.id][ref[c]]
  <2>1. m \in AgentToServer /\ m.id \in Ids /\ ref[c] \in Conns /\ a \in Agent
    BY <1>7 DEF UpdateStatus, TypeOK, LoopsHold, AgentToServer
  <2>2. [processStatusUpdate(a, m) EXCEPT !.watchers = {}] \in Agent
    BY <2>1, UpdateTyping DEF Agent
  <2>3. heap' \in [Ids -> [Conns -> Agent \cup {Nil}]]
    BY <1>7, <2>1, <2>2 DEF UpdateStatus, TypeOK
  <2>4. resp' \in [Conns -> ServerToAgent] /\ chan' \in [Requests -> BOOLEAN]
    BY <1>7, <2>1, ResponseTyping DEF UpdateStatus, TypeOK
  <2>5. QED
    BY <1>7, <2>3, <2>4 DEF UpdateStatus, TypeOK, registryVars, diskVars
<1>8. ASSUME NEW c \in Conns, SendResponse(c) PROVE TypeOK'
  <2>1. resp[c] \in ServerToAgent /\ Send(c, resp[c])
    BY <1>8 DEF SendResponse, TypeOK
  <2>2. outbox' \in [Conns -> Seq(ServerToAgent)]
    BY <2>1, SendTyping
  <2>3. QED
    BY <1>8, <2>2, MessageTyping DEF SendResponse, TypeOK, registryVars, apiVars, diskVars
<1>9. ASSUME NEW r \in Requests, NEW i \in Ids, refuseRequest(r, i) PROVE TypeOK'
  BY <1>9 DEF refuseRequest, Answer, Answers, TypeOK, registryVars, loopVars, diskVars
<1>10. ASSUME NEW r \in Requests, NEW i \in Ids, NEW s \in Spellings,
              NEW body \in Configs \cup {EmptyConfig}, handleSaveConfig(r, i, s, body)
       PROVE  TypeOK'
  <2>1. [id |-> i, spelling |-> s, body |-> body, settings |-> {}] \in Request
    BY DEF Request
  <2>2. QED
    BY <1>10, <2>1 DEF handleSaveConfig, Goto, SaveSteps, TypeOK, registryVars, loopVars, diskVars
<1>11. ASSUME NEW r \in Requests, NEW i \in Ids, NEW setting \in {"certificate", "tls"},
              handleOffer(r, i, setting)
       PROVE  TypeOK'
  <2>1. [id |-> i, spelling |-> Canonical, body |-> EmptyConfig, settings |-> {setting}] \in Request
    BY DEF Request
  <2>2. QED
    BY <1>11, <2>1 DEF handleOffer, Goto, OfferSteps, TypeOK, registryVars, loopVars, diskVars
<1>12. ASSUME NEW r \in Requests, apiPc[r] \in SaveSteps \cup OfferSteps
       PROVE  apiReq[r] \in Request /\ apiReq[r].id \in Ids /\ apiReq[r].spelling \in Spellings
              /\ apiReq[r].body \in Configs \cup {EmptyConfig}
              /\ apiReq[r].settings \in SUBSET {"certificate", "tls"}
  BY <1>12 DEF RequestsHold, TypeOK, Request
<1>13. ASSUME NEW r \in Requests, ApiStep(r) \/ persistFails(r) \/ createCertFails(r)
       PROVE  TypeOK'
  <2>1. CASE removeConfigFile(r)
    BY <1>12, <2>1 DEF removeConfigFile, Goto, Unlink, SaveSteps, TypeOK, registryVars, loopVars
  <2>2. CASE openConfigFile(r)
    BY <1>12, <2>2 DEF openConfigFile, Goto, SaveSteps, Bodies, TypeOK, registryVars, loopVars
  <2>3. CASE writeConfigFile(r)
    <3>1. apiReq[r].id \in Ids /\ apiReq[r].spelling \in Spellings
          /\ apiReq[r].body \in Configs \cup {EmptyConfig}
      BY <1>12, <2>3 DEF writeConfigFile, SaveSteps
    <3>2. \A old : Overwrite(old, apiReq[r].body) \subseteq Bodies
      BY <3>1 DEF Overwrite, Bodies
    <3>3. files' \in [Ids -> [Spellings -> Bodies \cup {Nil}]]
      <4>1. CASE r \in linked
        <5>1. PICK new \in Overwrite(files[apiReq[r].id][apiReq[r].spelling], apiReq[r].body) :
                 files' = [files EXCEPT ![apiReq[r].id][apiReq[r].spelling] = new]
          BY <2>3, <4>1 DEF writeConfigFile
        <5>2. new \in Bodies
          BY <3>2
        <5>3. QED
          BY <3>1, <5>1, <5>2 DEF TypeOK
      <4>2. CASE r \notin linked
        BY <2>3, <4>2 DEF writeConfigFile, TypeOK
      <4>3. QED
        BY <4>1, <4>2
    <3>4. QED
      BY <2>3, <3>3 DEF writeConfigFile, Goto, SaveSteps, TypeOK, registryVars, loopVars
  <2>4. CASE FindAgent(r)
    BY <1>12, <2>4 DEF FindAgent, Goto, SaveSteps, TypeOK, registryVars, loopVars, diskVars
  <2>5. CASE SetCustomConfigForAgent(r)
    <3> DEFINE i == apiReq[r].id
               a == heap[i][apiRef[r]]
               b == SetCustomConfig(a, apiReq[r].body, r)
    <3>1. i \in Ids /\ apiRef[r] \in Conns /\ a \in Agent /\ apiReq[r].body \in Bodies
      BY <1>12, <2>5 DEF SetCustomConfigForAgent, SaveSteps, RequestsHold, TypeOK, Bodies
    <3>2. b \in Agent
      BY <3>1, SetTyping
    <3>3. heap' \in [Ids -> [Conns -> Agent \cup {Nil}]]
      BY <2>5, <3>1, <3>2 DEF SetCustomConfigForAgent, TypeOK
    <3>4. /\ apiPc' \in [Requests -> {"new"} \cup SaveSteps \cup OfferSteps \cup Answers]
          /\ chan' \in [Requests -> BOOLEAN]
      <4>1. \/ apiPc' = [apiPc EXCEPT ![r] = "send"] /\ chan' = chan
            \/ apiPc' = [apiPc EXCEPT ![r] = "wait"] /\ chan' = [chan EXCEPT ![r] = TRUE]
        BY <2>5 DEF SetCustomConfigForAgent, Goto
      <4>2. QED
        BY <4>1 DEF SaveSteps, TypeOK
    <3>5. UNCHANGED <<registryVars, loopVars, outbox, apiReq, apiRef, diskVars, crashes>>
      BY <2>5 DEF SetCustomConfigForAgent
    <3>6. QED
      BY <3>3, <3>4, <3>5 DEF TypeOK, registryVars, loopVars, diskVars
  <2>6. CASE SendToAgent(r)
    <3>1. apiRef[r] \in Conns /\ [EmptyMessage EXCEPT !.config = apiReq[r].body] \in ServerToAgent
      BY <1>12, <2>6, MessageTyping DEF SendToAgent, SaveSteps, RequestsHold, TypeOK
    <3>2. outbox' \in [Conns -> Seq(ServerToAgent)]
      BY <2>6, <3>1, SendTyping DEF SendToAgent
    <3>3. QED
      BY <2>6, <3>2 DEF SendToAgent, Goto, SaveSteps, TypeOK, registryVars, loopVars, diskVars
  <2>7. CASE saveNotified(r) \/ saveTimedOut(r) \/ offerAnswered(r)
    <3>1. apiPc' \in [Requests -> {"new"} \cup SaveSteps \cup OfferSteps \cup Answers]
      BY <2>7 DEF saveNotified, saveTimedOut, offerAnswered, Answer, Answers, TypeOK
    <3>2. chan' \in [Requests -> BOOLEAN]
      BY <2>7 DEF saveNotified, saveTimedOut, offerAnswered, TypeOK
    <3>3. QED
      BY <2>7, <3>1, <3>2 DEF saveNotified, saveTimedOut, offerAnswered, TypeOK,
                              registryVars, loopVars, diskVars
  <2>8. CASE OfferAgentConnectionSettings(r)
    BY <1>12, <2>8 DEF OfferAgentConnectionSettings, Goto, OfferSteps, TypeOK, loopVars, diskVars
  <2>9. CASE OfferConnectionSettings(r)
    <3>1. apiRef[r] \in Conns /\ [EmptyMessage EXCEPT !.settings = apiReq[r].settings] \in ServerToAgent
      BY <1>12, <2>9, MessageTyping DEF OfferConnectionSettings, OfferSteps, RequestsHold, TypeOK
    <3>2. outbox' \in [Conns -> Seq(ServerToAgent)]
      BY <2>9, <3>1, SendTyping DEF OfferConnectionSettings
    <3>3. QED
      BY <2>9, <3>2 DEF OfferConnectionSettings, Goto, OfferSteps, TypeOK, loopVars, diskVars
  <2>10. CASE persistFails(r)
    BY <2>10 DEF persistFails, Answer, Answers, TypeOK, registryVars, loopVars
  <2>11. CASE createCertFails(r)
    BY <2>11 DEF createCertFails, Answer, Answers, TypeOK, registryVars, loopVars, diskVars
  <2>12. QED
    BY <1>13, <2>1, <2>2, <2>3, <2>4, <2>5, <2>6, <2>7, <2>8, <2>9, <2>10, <2>11 DEF ApiStep
<1>14. ASSUME LoseMemory, crashes' \in 0 .. MaxCrashes PROVE TypeOK'
  BY <1>14, MessageTyping DEF LoseMemory, Answers, TypeOK
<1>15. ASSUME Crash PROVE TypeOK'
  BY <1>14, <1>15 DEF Crash, TypeOK
<1>16. ASSUME NEW c \in Conns, UpdateStatusPanics(c) PROVE TypeOK'
  BY <1>14, <1>16 DEF UpdateStatusPanics, TypeOK
<1>17. CASE UNCHANGED vars
  BY <1>17 DEF vars, TypeOK, registryVars, loopVars, apiVars, diskVars
<1>18. QED
  BY <1>1, <1>2, <1>3, <1>4, <1>5, <1>6, <1>7, <1>8, <1>9, <1>10, <1>11, <1>13, <1>15, <1>16, <1>17,
     <1>19 DEF Next, ServerNext, LoopStep, ApiRequest

-----------------------------------------------------------------------------
(* Most steps leave the registry, the objects and the connections alone.    *)
Quiet == UNCHANGED <<agentsById, connections, heap, phase>>

(* An agent is registered at once, or when its file is loaded.              *)
Creates(c, i) ==
    \/ \E m \in Messages : i = m.id /\ onMessage(c, m) /\ CreateAgent(c, m)
    \/ i = cur[c].id /\ loadPersistedConfig(c)

(* The steps that do not, told apart.                                       *)
LEMMA Steps ==
    ASSUME [Next]_vars
    PROVE  \/ \E c \in Conns : Accept(c) \/ PeerGone(c) \/ RemoveConnection(c) \/ UpdateStatus(c)
           \/ \E c \in Conns : \E i : Creates(c, i)
           \/ \E r \in Requests : SetCustomConfigForAgent(r)
           \/ LoseMemory
           \/ Quiet
<1> USE DEF Quiet, registryVars, loopVars, apiVars, diskVars
<1>1. ASSUME NEW c \in Conns, NetworkTake(c) \/ rejectMessage(c) \/ SendResponse(c) PROVE Quiet
  BY <1>1 DEF NetworkTake, rejectMessage, SendResponse
<1>2. ASSUME NEW r \in Requests, ApiRequest(r) PROVE Quiet
  BY <1>2 DEF ApiRequest, refuseRequest, handleSaveConfig, handleOffer
<1>3. ASSUME NEW r \in Requests,
             \/ removeConfigFile(r) \/ openConfigFile(r) \/ writeConfigFile(r)
             \/ FindAgent(r) \/ SendToAgent(r) \/ saveNotified(r) \/ saveTimedOut(r)
      PROVE  Quiet
  BY <1>3 DEF removeConfigFile, openConfigFile, writeConfigFile, FindAgent, SendToAgent,
              saveNotified, saveTimedOut
<1>4. ASSUME NEW r \in Requests,
             \/ OfferAgentConnectionSettings(r) \/ OfferConnectionSettings(r) \/ offerAnswered(r)
             \/ persistFails(r) \/ createCertFails(r)
      PROVE  Quiet
  BY <1>4 DEF OfferAgentConnectionSettings, OfferConnectionSettings, offerAnswered,
              persistFails, createCertFails
<1>5. ASSUME NEW c \in Conns, NEW m \in Messages, onMessage(c, m)
      PROVE  Creates(c, m.id) \/ Quiet
  BY <1>5 DEF onMessage, FindAgentOf, readConfigFile, Creates
<1>6. ASSUME NEW c \in Conns, loadPersistedConfig(c) PROVE Creates(c, cur[c].id)
  BY <1>6 DEF Creates
<1>7. CASE UNCHANGED vars
  BY <1>7 DEF vars
<1>8. QED
  BY <1>1, <1>2, <1>3, <1>4, <1>5, <1>6, <1>7
     DEF Next, ServerNext, LoopStep, ApiStep, UpdateStatusPanics, Crash

(* What creating an agent does to the registry, the objects and the loop.   *)
LEMMA Created ==
    ASSUME IndInv, NEW c \in Conns, NEW i, Creates(c, i)
    PROVE  /\ i \in Ids /\ heap[i][c] = Nil /\ agentsById[i] = Nil
           /\ phase[c] \in {"open", "broken"} /\ phase' = phase
           /\ registryMux' = Nil
           /\ \A d \in Conns : d # c => cur'[d] = cur[d]
           /\ cur'[c] # Nil /\ cur'[c].id = i
           /\ UNCHANGED <<resp, outbox, apiVars>>
           /\ \E a : /\ Register(c, i, a) /\ Initial(a)
                     /\ \/ a.custom \in {EmptyConfig, Garbled}
                        \/ pc[c] = "load" /\ cur[c].id = i /\ a.custom = loaded[c]
<1> TypeOK
  BY DEF IndInv
<1>1. CASE \E m \in Messages : i = m.id /\ onMessage(c, m) /\ CreateAgent(c, m)
  <2>1. PICK m \in Messages : i = m.id /\ onMessage(c, m) /\ CreateAgent(c, m)
    BY <1>1
  <2>2. m.id \in Ids /\ m # Nil
    BY ServerAssumption DEF AgentToServer
  <2>3. agentsById[i] = Nil /\ phase[c] = "open" /\ phase' = phase
        /\ registryMux' = Nil /\ cur' = [cur EXCEPT ![c] = m] /\ Register(c, i, NewAgent)
        /\ UNCHANGED <<resp, outbox, apiVars>>
    BY <2>1 DEF onMessage, CreateAgent
  <2>4. heap[i][c] = Nil
    BY <2>1, <2>2, <2>3, ServerAssumption DEF IndInv, NoOrphans
  <2>5. QED
    BY <2>1, <2>2, <2>3, <2>4, NewTyping DEF TypeOK
<1>2. CASE i = cur[c].id /\ loadPersistedConfig(c)
  <2>1. /\ pc[c] = "load" /\ cur[c] # Nil /\ agentsById[i] = Nil
        /\ phase[c] \in {"open", "broken"}
    BY <1>2 DEF loadPersistedConfig, IndInv, LoopsHold
  <2>2. i \in Ids
    BY <1>2, <2>1 DEF TypeOK, AgentToServer
  <2>3. phase' = phase /\ registryMux' = Nil /\ cur' = cur /\ UNCHANGED <<resp, outbox, apiVars>>
    BY <1>2 DEF loadPersistedConfig
  <2>4. heap[i][c] = Nil
    BY <2>1, <2>2, ServerAssumption DEF IndInv, NoOrphans
  <2>5. QED
    BY <1>2, <2>1, <2>2, <2>3, <2>4, LoadTyping
<1>3. QED
  BY <1>1, <1>2 DEF Creates

(* What a report does to its object. *)
LEMMA Updated ==
    ASSUME IndInv, NEW c \in Conns, UpdateStatus(c)
    PROVE  /\ cur[c] \in AgentToServer /\ cur[c].id \in Ids /\ ref[c] \in Conns
           /\ heap[cur[c].id][ref[c]] \in Agent
           /\ \E a \in Agent : /\ heap' = [heap EXCEPT ![cur[c].id][ref[c]] = a]
                               /\ a.remote = a.custom
<1> DEFINE m == cur[c]
           a == heap[m.id][ref[c]]
           b == [processStatusUpdate(a, m) EXCEPT !.watchers = {}]
<1>1. m \in AgentToServer /\ m.id \in Ids /\ ref[c] \in Conns /\ a \in Agent
  BY ServerAssumption DEF IndInv, UpdateStatus, TypeOK, LoopsHold, AgentToServer
<1>2. \/ a.remote = a.custom
      \/ a.remote = Nil /\ a.status = Nil /\ a.custom = EmptyConfig
  BY <1>1, ServerAssumption DEF IndInv, RemoteConfigCurrent
<1>3. processStatusUpdate(a, m).remote = processStatusUpdate(a, m).custom
  BY <1>1, <1>2, UpdateRemote
<1>4. b \in Agent /\ b.remote = b.custom
  BY <1>1, <1>3, UpdateTyping DEF Agent
<1>5. heap' = [heap EXCEPT ![m.id][ref[c]] = b]
  BY DEF UpdateStatus
<1>6. QED
  BY <1>1, <1>4, <1>5

(* What a save does to its object. *)
LEMMA ConfigSet ==
    ASSUME IndInv, NEW r \in Requests, SetCustomConfigForAgent(r)
    PROVE  /\ apiReq[r] # Nil /\ apiReq[r].id \in Ids /\ apiRef[r] \in Conns
           /\ heap[apiReq[r].id][apiRef[r]] \in Agent
           /\ \E a \in Agent : /\ heap' = [heap EXCEPT ![apiReq[r].id][apiRef[r]] = a]
                               /\ a.remote = a.custom
                               /\ heap[apiReq[r].id][apiRef[r]].watchers \subseteq a.watchers
                               /\ \/ apiPc' = [apiPc EXCEPT ![r] = "send"] /\ r \in a.watchers
                                     /\ chan' = chan
                                  \/ apiPc' = [apiPc EXCEPT ![r] = "wait"]
                                     /\ chan' = [chan EXCEPT ![r] = TRUE]
<1> DEFINE i == apiReq[r].id
           a == heap[i][apiRef[r]]
           b == SetCustomConfig(a, apiReq[r].body, r)
<1>1. apiReq[r] # Nil /\ i \in Ids /\ apiRef[r] \in Conns /\ a \in Agent /\ apiReq[r].body \in Bodies
  BY DEF IndInv, SetCustomConfigForAgent, SaveSteps, RequestsHold, TypeOK, Request, Bodies
<1>2. b \in Agent /\ b.remote = b.custom
  BY <1>1, SetTyping
<1>3. a.watchers \subseteq b.watchers
  BY <1>1 DEF SetCustomConfig, calcRemoteConfig, Agent
<1>4. heap' = [heap EXCEPT ![i][apiRef[r]] = b]
  BY DEF SetCustomConfigForAgent
<1>5. \/ apiPc' = [apiPc EXCEPT ![r] = "send"] /\ r \in b.watchers /\ chan' = chan
      \/ apiPc' = [apiPc EXCEPT ![r] = "wait"] /\ chan' = [chan EXCEPT ![r] = TRUE]
  BY DEF SetCustomConfigForAgent, Goto
<1>6. QED
  BY <1>1, <1>2, <1>3, <1>4, <1>5

(* Every step, a crash too, keeps the two maps of the registry and the      *)
(* objects in agreement.                                                    *)
LEMMA RegistryStep ==
    ASSUME IndInv, [Next]_vars
    PROVE  RegistryConsistent' /\ NoOrphans'
<1> USE ServerAssumption DEF IndInv, RegistryConsistent, NoOrphans
<1>1. ASSUME NEW c \in Conns, Accept(c) PROVE RegistryConsistent' /\ NoOrphans'
  BY <1>1 DEF Accept, TypeOK, registryVars
<1>2. ASSUME NEW c \in Conns, PeerGone(c) PROVE RegistryConsistent' /\ NoOrphans'
  BY <1>2 DEF PeerGone, TypeOK, registryVars
<1>3. ASSUME NEW c \in Conns, RemoveConnection(c) PROVE RegistryConsistent' /\ NoOrphans'
  BY <1>3 DEF RemoveConnection, TypeOK
<1>4. ASSUME NEW c \in Conns, UpdateStatus(c) PROVE RegistryConsistent' /\ NoOrphans'
  <2>1. UNCHANGED <<agentsById, connections, phase>>
    BY <1>4 DEF UpdateStatus, registryVars
  <2>2. cur[c].id \in Ids /\ ref[c] \in Conns /\ heap[cur[c].id][ref[c]] \in Agent
    BY <1>4, Updated
  <2>3. PICK a \in Agent : heap' = [heap EXCEPT ![cur[c].id][ref[c]] = a]
    BY <1>4, Updated
  <2>4. \A j \in Ids, d \in Conns :
          heap'[j][d] = IF j = cur[c].id /\ d = ref[c] THEN a ELSE heap[j][d]
    BY <2>2, <2>3 DEF TypeOK
  <2>5. \A j \in Ids, d \in Conns : heap'[j][d] = Nil <=> heap[j][d] = Nil
    BY <2>2, <2>4
  <2>6. QED
    BY <2>1, <2>5
<1>5. ASSUME NEW c \in Conns, NEW i, Creates(c, i)
      PROVE  RegistryConsistent' /\ NoOrphans'
  <2> HIDE DEF IndInv, RegistryConsistent, NoOrphans
  <2>1. /\ i \in Ids /\ agentsById[i] = Nil
        /\ phase' = phase /\ phase[c] \in {"open", "broken"}
    BY <1>5, Created
  <2>2. PICK a : Register(c, i, a) /\ Initial(a)
    BY <1>5, Created
  <2> USE DEF IndInv, RegistryConsistent, NoOrphans
  <2>3. a # Nil
    BY <2>2 DEF Initial
  <2>4. \A j \in Ids, d \in Conns :
          heap'[j][d] = IF j = i /\ d = c THEN a ELSE heap[j][d]
    BY <2>1, <2>2 DEF Register, TypeOK
  <2>5. \A j \in Ids, d \in Conns :
          /\ agentsById'[j] = IF j = i THEN c ELSE agentsById[j]
          /\ j \in connections'[d] <=> (j \in connections[d] \/ (j = i /\ d = c))
    BY <2>1, <2>2 DEF Register, TypeOK
  <2>6. RegistryConsistent'
    BY <2>1, <2>3, <2>4, <2>5
  <2>7. NoOrphans'
    BY <2>1, <2>3, <2>4, <2>5
  <2>8. QED
    BY <2>6, <2>7
<1>6. ASSUME NEW r \in Requests, SetCustomConfigForAgent(r) PROVE RegistryConsistent' /\ NoOrphans'
  <2>1. UNCHANGED <<agentsById, connections, phase>>
    BY <1>6 DEF SetCustomConfigForAgent, registryVars, loopVars
  <2>2. apiReq[r].id \in Ids /\ apiRef[r] \in Conns /\ heap[apiReq[r].id][apiRef[r]] \in Agent
    BY <1>6, ConfigSet
  <2>3. PICK a \in Agent : heap' = [heap EXCEPT ![apiReq[r].id][apiRef[r]] = a]
    BY <1>6, ConfigSet
  <2>4. \A j \in Ids, d \in Conns :
          heap'[j][d] = IF j = apiReq[r].id /\ d = apiRef[r] THEN a ELSE heap[j][d]
    BY <2>2, <2>3 DEF TypeOK
  <2>5. \A j \in Ids, d \in Conns : heap'[j][d] = Nil <=> heap[j][d] = Nil
    BY <2>2, <2>4
  <2>6. QED
    BY <2>1, <2>5
<1>7. ASSUME LoseMemory PROVE RegistryConsistent' /\ NoOrphans'
  BY <1>7 DEF LoseMemory
<1>8. CASE Quiet
  BY <1>8 DEF Quiet
<1>9. QED
  BY <1>1, <1>2, <1>3, <1>4, <1>5, <1>6, <1>7, <1>8, Steps

(* Outside a crash, an object that exists keeps existing.                   *)
LEMMA HeapGrows ==
    ASSUME IndInv, [Next]_vars, NEW i \in Ids, NEW c \in Conns, heap[i][c] # Nil
    PROVE  LoseMemory \/ heap'[i][c] # Nil
<1>1. ASSUME NEW d \in Conns, UpdateStatus(d) PROVE heap'[i][c] # Nil
  <2>1. cur[d].id \in Ids /\ ref[d] \in Conns
    BY <1>1, Updated
  <2>2. PICK a \in Agent : heap' = [heap EXCEPT ![cur[d].id][ref[d]] = a]
    BY <1>1, Updated
  <2>3. QED
    BY <2>1, <2>2, ServerAssumption DEF IndInv, TypeOK
<1>2. ASSUME NEW d \in Conns, NEW j, Creates(d, j) PROVE heap'[i][c] # Nil
  <2>1. PICK a : Register(d, j, a) /\ Initial(a)
    BY <1>2, Created
  <2>2. j \in Ids
    BY <1>2, Created
  <2>3. QED
    BY <2>1, <2>2, ServerAssumption DEF Register, Initial, IndInv, TypeOK
<1>3. ASSUME NEW r \in Requests, SetCustomConfigForAgent(r) PROVE heap'[i][c] # Nil
  <2>1. apiReq[r].id \in Ids /\ apiRef[r] \in Conns
    BY <1>3, ConfigSet
  <2>2. PICK a \in Agent : heap' = [heap EXCEPT ![apiReq[r].id][apiRef[r]] = a]
    BY <1>3, ConfigSet
  <2>3. QED
    BY <2>1, <2>2, ServerAssumption DEF IndInv, TypeOK
<1>4. ASSUME NEW d \in Conns, Accept(d) \/ PeerGone(d) \/ RemoveConnection(d)
      PROVE  heap'[i][c] # Nil
  BY <1>4 DEF Accept, PeerGone, RemoveConnection
<1>5. QED
  BY <1>1, <1>2, <1>3, <1>4, Steps DEF Quiet

(* Every object's remote config stays the one built from its custom config. *)
LEMMA RemoteStep ==
    ASSUME IndInv, [Next]_vars
    PROVE  RemoteConfigCurrent'
<1>1. ASSUME NEW c \in Conns, UpdateStatus(c) PROVE RemoteConfigCurrent'
  <2>1. cur[c].id \in Ids /\ ref[c] \in Conns
    BY <1>1, Updated
  <2>2. PICK a \in Agent : /\ heap' = [heap EXCEPT ![cur[c].id][ref[c]] = a]
                           /\ a.remote = a.custom
    BY <1>1, Updated
  <2>3. QED
    BY <2>1, <2>2 DEF IndInv, TypeOK, RemoteConfigCurrent
<1>2. ASSUME NEW c \in Conns, NEW i, Creates(c, i) PROVE RemoteConfigCurrent'
  <2>1. PICK a : Register(c, i, a) /\ Initial(a)
    BY <1>2, Created
  <2>2. i \in Ids
    BY <1>2, Created
  <2>3. QED
    BY <2>1, <2>2 DEF Register, Initial, IndInv, TypeOK, RemoteConfigCurrent
<1>3. ASSUME NEW r \in Requests, SetCustomConfigForAgent(r) PROVE RemoteConfigCurrent'
  <2>1. apiReq[r].id \in Ids /\ apiRef[r] \in Conns
    BY <1>3, ConfigSet
  <2>2. PICK a \in Agent : /\ heap' = [heap EXCEPT ![apiReq[r].id][apiRef[r]] = a]
                           /\ a.remote = a.custom
    BY <1>3, ConfigSet
  <2>3. QED
    BY <2>1, <2>2 DEF IndInv, TypeOK, RemoteConfigCurrent
<1>4. ASSUME NEW c \in Conns, Accept(c) \/ PeerGone(c) \/ RemoveConnection(c)
      PROVE  RemoteConfigCurrent'
  BY <1>4 DEF Accept, PeerGone, RemoveConnection, IndInv, RemoteConfigCurrent
<1>5. ASSUME LoseMemory PROVE RemoteConfigCurrent'
  BY <1>5 DEF LoseMemory, RemoteConfigCurrent
<1>6. CASE Quiet
  BY <1>6 DEF Quiet, IndInv, RemoteConfigCurrent
<1>7. QED
  BY <1>1, <1>2, <1>3, <1>4, <1>5, <1>6, Steps

(* Only a step of its own moves a holder of agents.mux, and while it is     *)
(* held nothing else moves the registry.                                    *)
LEMMA OfferStep ==
    ASSUME IndInv, [Next]_vars
    PROVE  OfferHoldsRegistry'
<1> TypeOK /\ OfferHoldsRegistry
  BY DEF IndInv
<1> Nil \notin Requests \cup Conns /\ Conns \cap Requests = {}
  BY ServerAssumption
<1> USE DEF OfferHoldsRegistry
<1>1. CASE LoseMemory
  BY <1>1 DEF LoseMemory, SaveSteps, OfferSteps
<1>2. ASSUME NEW c \in Conns, RemoveConnection(c) PROVE OfferHoldsRegistry'
  <2>1. registryMux = Nil /\ UNCHANGED <<registryMux, apiPc, apiReq, apiRef, pc>>
    BY <1>2 DEF RemoveConnection, apiVars
  <2>2. QED
    BY <2>1
<1>3. ASSUME NEW c \in Conns, NEW i, Creates(c, i) PROVE OfferHoldsRegistry'
  <2>1. UNCHANGED <<apiPc, apiReq, apiRef>> /\ registryMux' = Nil
    BY <1>3, Created DEF apiVars
  <2>2. pc' = [pc EXCEPT ![c] = "update"]
    BY <1>3, Created DEF Register
  <2>3. registryMux = Nil \/ registryMux = c
    BY <1>3 DEF Creates, onMessage, loadPersistedConfig
  <2>4. QED
    BY <2>1, <2>2, <2>3 DEF TypeOK
<1>4. ASSUME NEW c \in Conns, NEW m \in Messages, onMessage(c, m), ~ CreateAgent(c, m)
      PROVE  OfferHoldsRegistry'
  <2>1. /\ registryMux = Nil /\ pc[c] = "idle" /\ UNCHANGED <<agentsById, apiPc, apiReq, apiRef>>
        /\ \/ registryMux' = Nil /\ pc' = [pc EXCEPT ![c] = "update"]
           \/ registryMux' = c /\ pc' = [pc EXCEPT ![c] = "load"]
    BY <1>4 DEF onMessage, FindAgentOf, readConfigFile, registryVars, apiVars
  <2>2. QED
    BY <2>1 DEF TypeOK
<1>5. ASSUME NEW c \in Conns,
             \/ Accept(c) \/ PeerGone(c) \/ NetworkTake(c) \/ rejectMessage(c)
             \/ UpdateStatus(c) \/ SendResponse(c)
      PROVE  OfferHoldsRegistry'
  <2>1. /\ UNCHANGED <<agentsById, registryMux, apiPc, apiReq, apiRef>>
        /\ \/ pc' = pc
           \/ pc[c] # "load" /\ \E step \in {"idle", "respond"} : pc' = [pc EXCEPT ![c] = step]
    BY <1>5 DEF Accept, PeerGone, NetworkTake, rejectMessage, UpdateStatus, SendResponse,
                registryVars, apiVars, loopVars
  <2>2. QED
    BY <2>1 DEF TypeOK
<1>6. ASSUME NEW r \in Requests, OfferAgentConnectionSettings(r)
      PROVE  OfferHoldsRegistry'
  <2>1. /\ registryMux = Nil /\ UNCHANGED <<agentsById, apiReq, pc>>
        /\ apiRef' = [apiRef EXCEPT ![r] = agentsById[apiReq[r].id]]
        /\ \/ registryMux' = r /\ apiPc' = [apiPc EXCEPT ![r] = "offering"]
           \/ registryMux' = Nil /\ apiPc' = [apiPc EXCEPT ![r] = "delay"]
    BY <1>6 DEF OfferAgentConnectionSettings, Goto, loopVars
  <2>2. QED
    BY <2>1 DEF TypeOK
<1>7. ASSUME NEW r \in Requests, OfferConnectionSettings(r)
      PROVE  OfferHoldsRegistry'
  <2>1. /\ registryMux = r /\ registryMux' = Nil /\ pc' = pc
        /\ apiPc' = [apiPc EXCEPT ![r] = "delay"]
    BY <1>7 DEF OfferConnectionSettings, Goto, loopVars
  <2>2. QED
    BY <2>1 DEF TypeOK
<1>8. ASSUME NEW r \in Requests,
             \/ ApiRequest(r) \/ persistFails(r) \/ createCertFails(r)
             \/ removeConfigFile(r) \/ openConfigFile(r) \/ writeConfigFile(r)
             \/ FindAgent(r) \/ SetCustomConfigForAgent(r) \/ SendToAgent(r)
             \/ saveNotified(r) \/ saveTimedOut(r) \/ offerAnswered(r)
      PROVE  OfferHoldsRegistry'
  <2>1. /\ UNCHANGED <<agentsById, registryMux, pc>> /\ apiPc[r] # "offering"
        /\ \E step : step # "offering" /\ apiPc' = [apiPc EXCEPT ![r] = step]
        /\ \A q \in Requests \ {r} : apiReq'[q] = apiReq[q] /\ apiRef'[q] = apiRef[q]
    BY <1>8 DEF ApiRequest, refuseRequest, handleSaveConfig, handleOffer, persistFails,
                createCertFails, removeConfigFile, openConfigFile, writeConfigFile, FindAgent,
                SetCustomConfigForAgent, SendToAgent, saveNotified, saveTimedOut,
                offerAnswered, Answer, Goto, registryVars, loopVars, TypeOK
  <2>2. QED
    BY <2>1 DEF TypeOK
<1>9. CASE UNCHANGED vars
  BY <1>9 DEF vars, registryVars, apiVars, loopVars
<1>10. ASSUME NEW c \in Conns, loadPersistedConfig(c) PROVE Creates(c, cur[c].id)
  BY <1>10 DEF Creates
<1>11. ASSUME NEW c \in Conns, NEW m \in Messages, onMessage(c, m), CreateAgent(c, m)
       PROVE  Creates(c, m.id)
  BY <1>11 DEF Creates
<1>12. QED
  BY <1>1, <1>2, <1>3, <1>4, <1>5, <1>6, <1>7, <1>8, <1>9, <1>10, <1>11
     DEF Next, ServerNext, LoopStep, ApiStep, UpdateStatusPanics, Crash

(* An agent whose file is being loaded is registered by that loader alone:  *)
(* all who change the registry take agents.mux.                             *)
LEMMA LoaderAlone ==
    ASSUME IndInv, [Next]_vars, ~ LoseMemory, NEW c \in Conns, pc[c] = "load", pc'[c] = "load"
    PROVE  agentsById' = agentsById
<1> TypeOK /\ registryMux = c /\ Nil # c
  BY ServerAssumption DEF IndInv, OfferHoldsRegistry
<1>1. ASSUME NEW d \in Conns, Accept(d) \/ PeerGone(d) \/ UpdateStatus(d)
      PROVE  agentsById' = agentsById
  BY <1>1 DEF Accept, PeerGone, UpdateStatus, registryVars
<1>2. ASSUME NEW d \in Conns, RemoveConnection(d) PROVE FALSE
  BY <1>2 DEF RemoveConnection
<1>3. ASSUME NEW d \in Conns, NEW i, Creates(d, i) PROVE FALSE
  <2>1. d = c
    BY <1>3 DEF Creates, onMessage, loadPersistedConfig, IndInv, OfferHoldsRegistry
  <2>2. pc' = [pc EXCEPT ![d] = "update"]
    BY <1>3, Created DEF Register
  <2>3. QED
    BY <2>1, <2>2 DEF TypeOK
<1>4. ASSUME NEW r \in Requests, SetCustomConfigForAgent(r) PROVE agentsById' = agentsById
  BY <1>4 DEF SetCustomConfigForAgent, registryVars
<1>5. QED
  BY <1>1, <1>2, <1>3, <1>4, Steps DEF Quiet

(* A message loop keeps the object its report is for.                       *)
LEMMA LoopStepHolds ==
    ASSUME IndInv, [Next]_vars, ~ LoseMemory
    PROVE  LoopsHold'
<1>1. \A i \in Ids, c \in Conns : heap[i][c] # Nil => heap'[i][c] # Nil
  BY HeapGrows
<1>2. \A c \in Conns : pc[c] = "update" => cur[c].id \in Ids /\ ref[c] \in Conns
  BY DEF IndInv, TypeOK, LoopsHold, AgentToServer
<1>3. \A c \in Conns : pc[c] = "load" /\ pc'[c] = "load" => agentsById' = agentsById
  BY LoaderAlone
<1>4. ASSUME NEW c \in Conns, Accept(c) \/ PeerGone(c) \/ RemoveConnection(c)
      PROVE  LoopsHold'
  BY <1>1, <1>2, <1>3, <1>4 DEF Accept, PeerGone, RemoveConnection, IndInv, TypeOK, LoopsHold
<1>5. ASSUME NEW c \in Conns, NEW m \in Messages, onMessage(c, m), ~ CreateAgent(c, m)
      PROVE  LoopsHold'
  <2>1. m \in AgentToServer /\ m # Nil /\ m.id \in Ids
    BY ServerAssumption DEF AgentToServer
  <2>2. /\ cur' = [cur EXCEPT ![c] = m] /\ heap' = heap /\ agentsById' = agentsById
        /\ phase' = phase /\ phase[c] = "open"
    BY <1>5 DEF onMessage, FindAgentOf, readConfigFile, registryVars
  <2>3. CASE FindAgentOf(c, m)
    <3>1. /\ ref' = [ref EXCEPT ![c] = agentsById[m.id]] /\ pc' = [pc EXCEPT ![c] = "update"]
          /\ agentsById[m.id] \in Conns
      BY <2>1, <2>3 DEF FindAgentOf, IndInv, TypeOK
    <3>2. heap[m.id][agentsById[m.id]] # Nil /\ agentsById[m.id] # Nil
      BY <2>1, <3>1, ServerAssumption DEF IndInv, RegistryConsistent
    <3>3. QED
      BY <2>1, <2>2, <3>1, <3>2 DEF IndInv, TypeOK, LoopsHold
  <2>4. CASE readConfigFile(c, m)
    <3>1. ref' = ref /\ pc' = [pc EXCEPT ![c] = "load"] /\ agentsById[m.id] = Nil
      BY <2>4 DEF readConfigFile
    <3>2. QED
      BY <2>1, <2>2, <3>1 DEF IndInv, TypeOK, LoopsHold
  <2>5. QED
    BY <1>5, <2>3, <2>4 DEF onMessage
<1>6. ASSUME NEW c \in Conns, NEW i, Creates(c, i) PROVE LoopsHold'
  <2>1. /\ i \in Ids /\ phase' = phase /\ phase[c] \in {"open", "broken"}
        /\ \A d \in Conns : d # c => cur'[d] = cur[d]
        /\ cur'[c] # Nil /\ cur'[c].id = i
    BY <1>6, Created
  <2>2. PICK a : Register(c, i, a) /\ Initial(a)
    BY <1>6, Created
  <2>3. /\ pc' = [pc EXCEPT ![c] = "update"] /\ ref' = [ref EXCEPT ![c] = c]
        /\ heap'[i][c] # Nil /\ c # Nil
    BY <2>1, <2>2, ServerAssumption DEF Register, Initial, IndInv, TypeOK
  <2>4. \A d \in Conns : d # c =>
          pc'[d] = pc[d] /\ cur'[d] = cur[d] /\ ref'[d] = ref[d] /\ phase'[d] = phase[d]
    BY <2>1, <2>3 DEF IndInv, TypeOK
  <2>5. pc'[c] = "update" /\ ref'[c] = c
    BY <2>3 DEF IndInv, TypeOK
  <2>6. QED
    BY <1>1, <1>2, <1>3, <2>1, <2>3, <2>4, <2>5 DEF IndInv, LoopsHold
<1>7. ASSUME NEW c \in Conns, UpdateStatus(c) \/ SendResponse(c) \/ rejectMessage(c)
      PROVE  LoopsHold'
  BY <1>1, <1>2, <1>3, <1>7 DEF UpdateStatus, SendResponse, rejectMessage, IndInv, TypeOK, LoopsHold
<1>8. ASSUME UNCHANGED <<phase, pc, cur, ref>> PROVE LoopsHold'
  BY <1>1, <1>2, <1>3, <1>8 DEF IndInv, LoopsHold
<1>9. ASSUME NEW r \in Requests, ApiRequest(r) \/ ApiStep(r) \/ persistFails(r) \/ createCertFails(r)
      PROVE  UNCHANGED <<phase, pc, cur, ref>>
  BY <1>9 DEF ApiRequest, refuseRequest, handleSaveConfig, handleOffer, ApiStep, removeConfigFile,
              openConfigFile, writeConfigFile, FindAgent, SetCustomConfigForAgent, SendToAgent,
              saveNotified, saveTimedOut, OfferAgentConnectionSettings, OfferConnectionSettings,
              offerAnswered, persistFails, createCertFails, loopVars
<1>10. ASSUME NEW c \in Conns, NetworkTake(c) PROVE UNCHANGED <<phase, pc, cur, ref>>
  BY <1>10 DEF NetworkTake, loopVars
<1>11. CASE UNCHANGED vars
  BY <1>8, <1>11 DEF vars, loopVars
<1>12. ASSUME NEW c \in Conns, loadPersistedConfig(c) PROVE Creates(c, cur[c].id)
  BY <1>12 DEF Creates
<1>13. ASSUME NEW c \in Conns, NEW m \in Messages, onMessage(c, m), CreateAgent(c, m)
       PROVE  Creates(c, m.id)
  BY <1>13 DEF Creates
<1>14. QED
  BY <1>4, <1>5, <1>6, <1>7, <1>8, <1>9, <1>10, <1>11, <1>12, <1>13
     DEF Next, ServerNext, LoopStep, UpdateStatusPanics, Crash

(* What a step can do to the requests: nothing, or let one of them move.    *)
(* A request keeps what it was asked for, and what it found.                *)
LEMMA RequestMoves ==
    ASSUME IndInv, [Next]_vars, ~ LoseMemory
    PROVE  \/ UNCHANGED <<apiPc, apiReq, apiRef>>
           \/ \E r \in Requests, i \in Ids :
                \/ refuseRequest(r, i)
                \/ \E s \in Spellings, body \in Configs \cup {EmptyConfig} :
                     handleSaveConfig(r, i, s, body)
                \/ \E setting \in {"certificate", "tls"} : handleOffer(r, i, setting)
           \/ \E r \in Requests : ApiStep(r) \/ persistFails(r) \/ createCertFails(r)
<1>1. ASSUME NEW c \in Conns,
             \/ Accept(c) \/ PeerGone(c) \/ NetworkTake(c) \/ rejectMessage(c)
             \/ LoopStep(c) \/ \E m \in Messages : onMessage(c, m)
      PROVE  UNCHANGED <<apiPc, apiReq, apiRef>>
  BY <1>1 DEF Accept, PeerGone, NetworkTake, rejectMessage, LoopStep, RemoveConnection,
              loadPersistedConfig, UpdateStatus, SendResponse, onMessage, apiVars
<1>2. CASE UNCHANGED vars
  BY <1>2 DEF vars, apiVars
<1>3. QED
  BY <1>1, <1>2 DEF Next, ServerNext, UpdateStatusPanics, Crash, ApiRequest

(* A request keeps its object, and finds one before it needs it.            *)
LEMMA RequestStepHolds ==
    ASSUME IndInv, [Next]_vars, ~ LoseMemory
    PROVE  RequestsHold'
<1>1. \A i \in Ids, c \in Conns : heap[i][c] # Nil => heap'[i][c] # Nil
  BY HeapGrows
<1>2. \A r \in Requests : apiPc[r] \in SaveSteps \cup OfferSteps =>
        apiReq[r] \in Request /\ apiReq[r].id \in Ids
  BY DEF IndInv, TypeOK, RequestsHold, Request
<1>3. \A r \in Requests : apiPc[r] \in {"set", "send", "offering"} => apiRef[r] \in Conns
  BY DEF IndInv, TypeOK, RequestsHold
<1>4. CASE UNCHANGED <<apiPc, apiReq, apiRef>>
  BY <1>1, <1>2, <1>3, <1>4 DEF IndInv, RequestsHold, SaveSteps, OfferSteps
<1>5. ASSUME NEW r \in Requests, NEW i \in Ids, refuseRequest(r, i) PROVE RequestsHold'
  BY <1>1, <1>2, <1>3, <1>5 DEF refuseRequest, Answer, IndInv, TypeOK, RequestsHold, SaveSteps, OfferSteps
<1>6. ASSUME NEW r \in Requests, NEW i \in Ids, NEW s \in Spellings,
             NEW body \in Configs \cup {EmptyConfig}, handleSaveConfig(r, i, s, body)
      PROVE  RequestsHold'
  <2>1. [id |-> i, spelling |-> s, body |-> body, settings |-> {}] # Nil
    BY ServerAssumption DEF Request
  <2>2. QED
    BY <1>1, <1>2, <1>3, <1>6, <2>1
       DEF handleSaveConfig, Goto, IndInv, TypeOK, RequestsHold, SaveSteps, OfferSteps
<1>7. ASSUME NEW r \in Requests, NEW i \in Ids, NEW setting \in {"certificate", "tls"},
             handleOffer(r, i, setting)
      PROVE  RequestsHold'
  <2>1. [id |-> i, spelling |-> Canonical, body |-> EmptyConfig, settings |-> {setting}] # Nil
    BY ServerAssumption DEF Request
  <2>2. QED
    BY <1>1, <1>2, <1>3, <1>7, <2>1
       DEF handleOffer, Goto, IndInv, TypeOK, RequestsHold, SaveSteps, OfferSteps
<1>8. ASSUME NEW r \in Requests, FindAgent(r) \/ OfferAgentConnectionSettings(r)
      PROVE  RequestsHold'
  <2>1. apiReq[r] \in Request /\ apiReq[r].id \in Ids
    BY <1>2, <1>8 DEF FindAgent, OfferAgentConnectionSettings, SaveSteps, OfferSteps
  <2>2. agentsById[apiReq[r].id] # Nil => heap[apiReq[r].id][agentsById[apiReq[r].id]] # Nil
    BY <2>1 DEF IndInv, TypeOK, RegistryConsistent
  <2>3. heap' = heap /\ apiReq' = apiReq /\ apiReq[r] # Nil
        /\ apiRef' = [apiRef EXCEPT ![r] = agentsById[apiReq[r].id]]
    BY <1>8, <2>1, ServerAssumption DEF FindAgent, OfferAgentConnectionSettings
  <2>4. \/ apiPc' = [apiPc EXCEPT ![r] = "wait"] \/ apiPc' = [apiPc EXCEPT ![r] = "delay"]
        \/ agentsById[apiReq[r].id] # Nil
           /\ (apiPc' = [apiPc EXCEPT ![r] = "set"] \/ apiPc' = [apiPc EXCEPT ![r] = "offering"])
    BY <1>8 DEF FindAgent, OfferAgentConnectionSettings, Goto
  <2>5. QED
    BY <1>2, <2>2, <2>3, <2>4 DEF IndInv, TypeOK, RequestsHold, SaveSteps, OfferSteps
<1>9. ASSUME NEW r \in Requests, SetCustomConfigForAgent(r) PROVE RequestsHold'
  <2>1. /\ apiReq' = apiReq /\ apiRef' = apiRef /\ apiPc[r] = "set"
        /\ \/ apiPc' = [apiPc EXCEPT ![r] = "send"] \/ apiPc' = [apiPc EXCEPT ![r] = "wait"]
    BY <1>9 DEF SetCustomConfigForAgent, Goto
  <2>2. QED
    BY <1>1, <1>2, <1>3, <2>1 DEF IndInv, TypeOK, RequestsHold, SaveSteps, OfferSteps
<1>10. ASSUME NEW r \in Requests,
              \/ removeConfigFile(r) \/ openConfigFile(r) \/ writeConfigFile(r)
              \/ SendToAgent(r) \/ OfferConnectionSettings(r)
       PROVE  RequestsHold'
  <2>1. /\ apiReq' = apiReq /\ apiRef' = apiRef /\ apiPc[r] \in SaveSteps \cup OfferSteps
        /\ \E step \in {"lookup", "write", "wait", "delay"} : apiPc' = [apiPc EXCEPT ![r] = step]
    BY <1>10 DEF removeConfigFile, openConfigFile, writeConfigFile, SendToAgent,
                 OfferConnectionSettings, Goto, SaveSteps, OfferSteps
  <2>2. QED
    BY <1>1, <1>2, <1>3, <2>1 DEF IndInv, TypeOK, RequestsHold, SaveSteps, OfferSteps
<1>11. ASSUME NEW r \in Requests,
              \/ saveNotified(r) \/ saveTimedOut(r) \/ offerAnswered(r)
              \/ persistFails(r) \/ createCertFails(r)
       PROVE  RequestsHold'
  <2>1. /\ apiReq' = apiReq /\ apiRef' = apiRef
        /\ \E code \in {"200", "408", "500", "aborted"} : apiPc' = [apiPc EXCEPT ![r] = code]
    BY <1>11 DEF saveNotified, saveTimedOut, offerAnswered, persistFails, createCertFails, Answer
  <2>2. QED
    BY <1>1, <1>2, <1>3, <2>1 DEF IndInv, TypeOK, RequestsHold, SaveSteps, OfferSteps
<1>12. QED
  BY <1>4, <1>5, <1>6, <1>7, <1>8, <1>9, <1>10, <1>11, RequestMoves DEF ApiStep

(* A waiting save keeps its registration until it gets its token.           *)
LEMMA WaiterStep ==
    ASSUME IndInv, [Next]_vars, ~ LoseMemory
    PROVE  WaiterNotForgotten'
<1>1. \A q \in Requests : apiPc[q] \in {"send", "wait"} =>
        /\ apiReq[q].id \in Ids /\ apiRef[q] \in Conns \cup {Nil}
        /\ chan[q] \/ apiRef[q] = Nil \/ q \in watchersOf(apiReq[q].id, apiRef[q])
  BY DEF IndInv, TypeOK, RequestsHold, SaveSteps, OfferSteps, Request, WaiterNotForgotten
<1>2. ASSUME heap' = heap, apiReq' = apiReq,
             \A q \in Requests : apiPc'[q] \in {"send", "wait"} =>
                \/ apiRef'[q] = Nil
                \/ apiPc[q] \in {"send", "wait"} /\ apiRef'[q] = apiRef[q] /\ chan'[q] = chan[q]
      PROVE  WaiterNotForgotten'
  BY <1>1, <1>2 DEF WaiterNotForgotten, watchersOf
<1>3. ASSUME NEW c \in Conns, UpdateStatus(c) PROVE WaiterNotForgotten'
  <2> DEFINE a == heap[cur[c].id][ref[c]]
  <2>1. /\ cur[c].id \in Ids /\ ref[c] \in Conns /\ a \in Agent
    BY <1>3, Updated
  <2>2. /\ apiPc' = apiPc /\ apiReq' = apiReq /\ apiRef' = apiRef
        /\ \A q \in Requests : chan'[q] = (chan[q] \/ q \in a.watchers)
    BY <1>3 DEF UpdateStatus
  <2>3. PICK b \in Agent : heap' = [heap EXCEPT ![cur[c].id][ref[c]] = b] /\ b.remote = b.custom
    BY <1>3, Updated
  <2>4. \A j \in Ids, d \in Conns :
          \/ heap'[j][d] = heap[j][d]
          \/ j = cur[c].id /\ d = ref[c] /\ watchersOf(j, d) = a.watchers
    BY <2>1, <2>3, ServerAssumption DEF IndInv, TypeOK, watchersOf
  <2>5. ASSUME NEW q \in Requests, apiPc'[q] \in {"send", "wait"}
        PROVE  chan'[q] \/ apiRef'[q] = Nil \/ q \in watchersOf(apiReq[q].id, apiRef[q])'
    BY <1>1, <2>2, <2>4, <2>5 DEF watchersOf
  <2>6. QED
    BY <2>2, <2>5 DEF WaiterNotForgotten
<1>4. ASSUME NEW c \in Conns, NEW i, Creates(c, i) PROVE WaiterNotForgotten'
  <2>1. UNCHANGED <<apiPc, apiReq, apiRef, chan>> /\ i \in Ids /\ heap[i][c] = Nil
    BY <1>4, Created DEF apiVars
  <2>2. PICK a : Register(c, i, a)
    BY <1>4, Created
  <2>3. \A j \in Ids, d \in Conns : heap[j][d] # Nil => heap'[j][d] = heap[j][d]
    BY <2>1, <2>2 DEF Register, IndInv, TypeOK
  <2>4. QED
    BY <1>1, <2>1, <2>3 DEF WaiterNotForgotten, watchersOf
<1>5. ASSUME NEW r \in Requests, SetCustomConfigForAgent(r) PROVE WaiterNotForgotten'
  <2> DEFINE i == apiReq[r].id
  <2>1. i \in Ids /\ apiRef[r] \in Conns /\ heap[i][apiRef[r]] \in Agent
        /\ apiReq' = apiReq /\ apiRef' = apiRef
    BY <1>5, ConfigSet DEF SetCustomConfigForAgent
  <2>2. PICK a \in Agent : /\ heap' = [heap EXCEPT ![i][apiRef[r]] = a]
                           /\ a.remote = a.custom
                           /\ heap[i][apiRef[r]].watchers \subseteq a.watchers
                           /\ \/ apiPc' = [apiPc EXCEPT ![r] = "send"] /\ r \in a.watchers
                                 /\ chan' = chan
                              \/ apiPc' = [apiPc EXCEPT ![r] = "wait"]
                                 /\ chan' = [chan EXCEPT ![r] = TRUE]
    BY <1>5, ConfigSet
  <2>3. \A j \in Ids, d \in Conns :
          heap'[j][d] = IF j = i /\ d = apiRef[r] THEN a ELSE heap[j][d]
    BY <2>1, <2>2 DEF IndInv, TypeOK
  <2>4. \A j \in Ids, d \in Conns : watchersOf(j, d) \subseteq watchersOf(j, d)'
    BY <2>1, <2>2, <2>3, ServerAssumption DEF watchersOf
  <2>5. ASSUME NEW q \in Requests, q # r, apiPc'[q] \in {"send", "wait"}
        PROVE  chan'[q] \/ apiRef'[q] = Nil \/ q \in watchersOf(apiReq[q].id, apiRef[q])'
    <3>1. apiPc[q] = apiPc'[q] /\ chan'[q] = chan[q]
      BY <2>2, <2>5 DEF IndInv, TypeOK
    <3>2. QED
      BY <1>1, <2>1, <2>4, <2>5, <3>1 DEF watchersOf
  <2>6. chan'[r] \/ r \in watchersOf(apiReq[r].id, apiRef[r])'
    BY <2>1, <2>2, <2>3, ServerAssumption DEF watchersOf, IndInv, TypeOK
  <2>7. QED
    BY <2>5, <2>6 DEF WaiterNotForgotten
<1>6. ASSUME NEW r \in Requests,
             FindAgent(r) \/ SendToAgent(r) \/ OfferAgentConnectionSettings(r)
      PROVE  WaiterNotForgotten'
  <2>1. heap' = heap /\ apiReq' = apiReq /\ chan' = chan
    BY <1>6 DEF FindAgent, SendToAgent, OfferAgentConnectionSettings
  <2>2. \/ apiPc[r] = "send" /\ apiPc' = [apiPc EXCEPT ![r] = "wait"] /\ apiRef' = apiRef
        \/ /\ apiRef' = [apiRef EXCEPT ![r] = agentsById[apiReq[r].id]]
           /\ \/ apiPc' = [apiPc EXCEPT ![r] = "wait"] /\ agentsById[apiReq[r].id] = Nil
              \/ \E step \in {"set", "delay", "offering"} : apiPc' = [apiPc EXCEPT ![r] = step]
    BY <1>6 DEF FindAgent, SendToAgent, OfferAgentConnectionSettings, Goto
  <2>3. QED
    BY <1>2, <2>1, <2>2 DEF IndInv, TypeOK
<1>7. ASSUME NEW r \in Requests,
             \/ removeConfigFile(r) \/ openConfigFile(r) \/ writeConfigFile(r)
             \/ OfferConnectionSettings(r) \/ saveNotified(r) \/ saveTimedOut(r) \/ offerAnswered(r)
             \/ persistFails(r) \/ createCertFails(r) \/ \E i \in Ids : refuseRequest(r, i)
      PROVE  WaiterNotForgotten'
  <2>1. /\ heap' = heap /\ apiReq' = apiReq /\ apiRef' = apiRef
        /\ chan' = chan \/ chan' = [chan EXCEPT ![r] = FALSE]
        /\ \E step \in {"lookup", "write", "delay", "200", "400", "404", "408", "500", "aborted"} :
             apiPc' = [apiPc EXCEPT ![r] = step]
    BY <1>7 DEF removeConfigFile, openConfigFile, writeConfigFile, OfferConnectionSettings,
                saveNotified, saveTimedOut, offerAnswered, persistFails, createCertFails,
                refuseRequest, Goto, Answer
  <2>2. QED
    BY <1>2, <2>1 DEF IndInv, TypeOK
<1>8. ASSUME NEW r \in Requests, NEW i \in Ids,
             \/ \E s \in Spellings, body \in Configs \cup {EmptyConfig} :
                  handleSaveConfig(r, i, s, body)
             \/ \E setting \in {"certificate", "tls"} : handleOffer(r, i, setting)
      PROVE  WaiterNotForgotten'
  <2>1. /\ heap' = heap /\ apiRef' = apiRef /\ chan' = chan
        /\ \E req : apiReq' = [apiReq EXCEPT ![r] = req]
        /\ \E step \in {"persist", "offer"} : apiPc' = [apiPc EXCEPT ![r] = step]
    BY <1>8 DEF handleSaveConfig, handleOffer, Goto
  <2>2. \A q \in Requests : apiPc'[q] \in {"send", "wait"} =>
          q # r /\ apiPc'[q] = apiPc[q] /\ apiReq'[q] = apiReq[q]
    BY <2>1 DEF IndInv, TypeOK
  <2>3. QED
    BY <1>1, <2>1, <2>2 DEF WaiterNotForgotten, watchersOf
<1>9. ASSUME NEW c \in Conns,
             \/ Accept(c) \/ PeerGone(c) \/ NetworkTake(c) \/ rejectMessage(c)
             \/ RemoveConnection(c) \/ SendResponse(c)
      PROVE  UNCHANGED <<heap, apiPc, apiReq, apiRef, chan>>
  BY <1>9 DEF Accept, PeerGone, NetworkTake, rejectMessage, RemoveConnection, SendResponse, apiVars
<1>10. ASSUME NEW c \in Conns, NEW m \in Messages, onMessage(c, m), ~ CreateAgent(c, m)
       PROVE  UNCHANGED <<heap, apiPc, apiReq, apiRef, chan>>
  BY <1>10 DEF onMessage, FindAgentOf, readConfigFile, apiVars
<1>11. CASE UNCHANGED vars
  BY <1>2, <1>11 DEF vars, apiVars
<1>12. ASSUME NEW c \in Conns, loadPersistedConfig(c) PROVE Creates(c, cur[c].id)
  BY <1>12 DEF Creates
<1>13. ASSUME NEW c \in Conns, NEW m \in Messages, onMessage(c, m), CreateAgent(c, m)
       PROVE  Creates(c, m.id)
  BY <1>13 DEF Creates
<1>14. QED
  BY <1>2, <1>3, <1>4, <1>5, <1>6, <1>7, <1>8, <1>9, <1>10, <1>11, <1>12, <1>13
     DEF Next, ServerNext, LoopStep, ApiStep, ApiRequest, UpdateStatusPanics, Crash

-----------------------------------------------------------------------------
(* A crash leaves nothing to hold on to.                                    *)
LEMMA CrashStep ==
    ASSUME LoseMemory, TypeOK
    PROVE  LoopsHold' /\ RequestsHold' /\ WaiterNotForgotten'
<1>1. /\ \A c \in Conns : pc'[c] = "idle"
      /\ \A r \in Requests : apiPc'[r] \notin SaveSteps \cup OfferSteps
  BY DEF LoseMemory, SaveSteps, OfferSteps
<1>2. QED
  BY <1>1 DEF LoopsHold, RequestsHold, WaiterNotForgotten, SaveSteps, OfferSteps

LEMMA InductiveInit == Init => IndInv
<1> SUFFICES ASSUME Init PROVE IndInv
  OBVIOUS
<1>1. TypeOK
  BY MessageTyping, ServerAssumption DEF Init, TypeOK
<1>2. RegistryConsistent /\ NoOrphans /\ RemoteConfigCurrent
  BY ServerAssumption DEF Init, RegistryConsistent, NoOrphans, RemoteConfigCurrent
<1>3. LoopsHold /\ RequestsHold /\ OfferHoldsRegistry /\ WaiterNotForgotten
  BY ServerAssumption DEF Init, LoopsHold, RequestsHold, OfferHoldsRegistry, WaiterNotForgotten,
                          SaveSteps, OfferSteps
<1>4. QED
  BY <1>1, <1>2, <1>3 DEF IndInv

LEMMA InductiveStep == IndInv /\ [Next]_vars => IndInv'
<1> SUFFICES ASSUME IndInv, [Next]_vars PROVE IndInv'
  OBVIOUS
<1>1. TypeOK' /\ RegistryConsistent' /\ NoOrphans' /\ RemoteConfigCurrent' /\ OfferHoldsRegistry'
  BY TypeStep, RegistryStep, RemoteStep, OfferStep
<1>2. LoopsHold' /\ RequestsHold' /\ WaiterNotForgotten'
  <2>1. CASE LoseMemory
    BY <2>1, CrashStep DEF IndInv
  <2>2. CASE ~ LoseMemory
    BY <2>2, LoopStepHolds, RequestStepHolds, WaiterStep
  <2>3. QED
    BY <2>1, <2>2
<1>3. QED
  BY <1>1, <1>2 DEF IndInv

(* The inductive invariant holds in every reachable state.                  *)
THEOREM Inductive == Spec => []IndInv
BY InductiveInit, InductiveStep, PTL DEF Spec

(* The server's state is well typed, with any number of agents.             *)
THEOREM TypeCorrect == Spec => []TypeOK
<1>1. IndInv => TypeOK
  BY DEF IndInv
<1>2. QED
  BY <1>1, Inductive, PTL

(* The two maps of the registry always agree (agents.go).                   *)
THEOREM RegistryAgrees == Spec => []RegistryConsistent
<1>1. IndInv => RegistryConsistent
  BY DEF IndInv
<1>2. QED
  BY <1>1, Inductive, PTL

(* No report dereferences a missing remote config, and what is offered is   *)
(* what was set (agent.go).                                                 *)
THEOREM RemoteConfigReady == Spec => []RemoteConfigCurrent
<1>1. IndInv => RemoteConfigCurrent
  BY DEF IndInv
<1>2. QED
  BY <1>1, Inductive, PTL

(* No save loses its wake-up (SetCustomConfig against UpdateStatus).        *)
THEOREM NoLostWakeUp == Spec => []WaiterNotForgotten
<1>1. IndInv => WaiterNotForgotten
  BY DEF IndInv
<1>2. QED
  BY <1>1, Inductive, PTL

(* A handler that sends or loads a file while it holds agents.mux is the    *)
(* only holder and lets it go when it is done, and the agent of an offer is *)
(* registered all the while (OfferAgentConnectionSettings and               *)
(* FindOrCreateAgent).                                                      *)
THEOREM OffersAreExclusive == Spec => []OfferHoldsRegistry
<1>1. IndInv => OfferHoldsRegistry
  BY DEF IndInv
<1>2. QED
  BY <1>1, Inductive, PTL

(* An agent that enters the registry is a new object: naming objects by id  *)
(* and connection loses nothing.                                            *)
THEOREM RegisteredObjectsAreNew == Spec => ObjectsAreFresh
<1> DEFINE Fresh == \A i \in Ids, c \in Conns :
                      agentsById'[i] = c /\ agentsById[i] # c => heap[i][c] = Nil
<1>1. IndInv /\ [Next]_vars => [Fresh]_vars
  <2> SUFFICES ASSUME IndInv, [Next]_vars PROVE Fresh
    OBVIOUS
  <2>1. ASSUME NEW c \in Conns, Accept(c) \/ PeerGone(c) \/ UpdateStatus(c)
        PROVE  agentsById' = agentsById
    BY <2>1 DEF Accept, PeerGone, UpdateStatus, registryVars
  <2>2. ASSUME NEW c \in Conns, RemoveConnection(c) PROVE Fresh
    BY <2>2, ServerAssumption DEF RemoveConnection
  <2>3. ASSUME NEW c \in Conns, NEW i, Creates(c, i) PROVE Fresh
    <3>1. i \in Ids /\ heap[i][c] = Nil
      BY <2>3, Created
    <3>2. agentsById' = [agentsById EXCEPT ![i] = c]
      BY <2>3, Created DEF Register
    <3>3. QED
      BY <3>1, <3>2 DEF IndInv, TypeOK
  <2>4. ASSUME NEW r \in Requests, SetCustomConfigForAgent(r) PROVE agentsById' = agentsById
    BY <2>4 DEF SetCustomConfigForAgent, registryVars
  <2>5. ASSUME LoseMemory PROVE Fresh
    BY <2>5, ServerAssumption DEF LoseMemory
  <2>6. QED
    BY <2>1, <2>2, <2>3, <2>4, <2>5, Steps DEF Quiet
<1>2. QED
  BY <1>1, Inductive, PTL DEF Spec, ObjectsAreFresh

-----------------------------------------------------------------------------
(* The steps that write or remove config files. *)
LEMMA FileSteps ==
    ASSUME [Next]_vars
    PROVE  \/ \E c \in Conns : loadPersistedConfig(c)
           \/ \E r \in Requests : removeConfigFile(r) \/ openConfigFile(r) \/ writeConfigFile(r)
           \/ files' = files
<1> USE DEF registryVars, loopVars, apiVars, diskVars
<1>1. ASSUME NEW c \in Conns,
             \/ Accept(c) \/ PeerGone(c) \/ NetworkTake(c) \/ rejectMessage(c)
             \/ UpdateStatus(c) \/ SendResponse(c) \/ RemoveConnection(c)
      PROVE  files' = files
  BY <1>1 DEF Accept, PeerGone, NetworkTake, rejectMessage, UpdateStatus, SendResponse,
              RemoveConnection
<1>2. ASSUME NEW c \in Conns, NEW m \in Messages, onMessage(c, m)
      PROVE  files' = files
  BY <1>2 DEF onMessage, FindAgentOf, CreateAgent, readConfigFile
<1>3. ASSUME NEW r \in Requests, ApiRequest(r) \/ persistFails(r) \/ createCertFails(r)
      PROVE  files' = files
  BY <1>3 DEF ApiRequest, refuseRequest, handleSaveConfig, handleOffer, persistFails,
              createCertFails
<1>4. ASSUME NEW r \in Requests,
             \/ FindAgent(r) \/ SetCustomConfigForAgent(r) \/ SendToAgent(r)
             \/ saveNotified(r) \/ saveTimedOut(r)
             \/ OfferAgentConnectionSettings(r) \/ OfferConnectionSettings(r) \/ offerAnswered(r)
      PROVE  files' = files
  BY <1>4 DEF FindAgent, SetCustomConfigForAgent, SendToAgent, saveNotified, saveTimedOut,
              OfferAgentConnectionSettings, OfferConnectionSettings, offerAnswered
<1>5. CASE LoseMemory \/ UNCHANGED vars
  BY <1>5 DEF LoseMemory, vars
<1>6. QED
  BY <1>1, <1>2, <1>3, <1>4, <1>5
     DEF Next, ServerNext, LoopStep, ApiStep, UpdateStatusPanics, Crash

(* A complete config file is changed by nothing but a save of that file, or *)
(* a loader that had read something else (os.ReadFile and os.Remove in      *)
(* loadPersistedConfig against os.WriteFile in handleSaveConfig): no        *)
(* restart, reconnecting agent or failing disk operation by itself loses    *)
(* what was complete before.                                                *)
THEOREM CompleteFilesKept == Spec => SavedFileKept
<1> DEFINE SavedBy(r, i, s) == /\ apiPc[r] \in {"persist", "write"}
                               /\ apiPc'[r] # apiPc[r]
                               /\ apiReq[r].id = i /\ apiReq[r].spelling = s
           ReadBefore(c, i, s) == /\ pc[c] = "load" /\ pc'[c] # "load"
                                  /\ cur[c].id = i /\ s = Canonical
                                  /\ loaded[c] # files[i][s]
           Kept == \A i \in Ids, s \in Spellings :
                     files[i][s] \in Configs /\ files'[i][s] # files[i][s] =>
                       \/ \E r \in Requests : SavedBy(r, i, s)
                       \/ \E c \in Conns : ReadBefore(c, i, s)
<1>1. IndInv /\ [Next]_vars => [Kept]_vars
  <2> SUFFICES ASSUME IndInv, [Next]_vars,
                      NEW i \in Ids, NEW s \in Spellings,
                      files[i][s] \in Configs, files'[i][s] # files[i][s]
               PROVE  \/ \E r \in Requests : SavedBy(r, i, s)
                      \/ \E c \in Conns : ReadBefore(c, i, s)
    OBVIOUS
  <2>1. /\ files \in [Ids -> [Spellings -> Bodies \cup {Nil}]]
        /\ DOMAIN apiPc = Requests
        /\ DOMAIN pc = Conns
    BY DEF IndInv, TypeOK
  <2>2. ASSUME NEW c \in Conns, loadPersistedConfig(c) PROVE ReadBefore(c, i, s)
    <3>1. /\ files' = [files EXCEPT ![cur[c].id][Canonical] = Nil]
          /\ \/ loaded[c] \in {EmptyConfig, Garbled}
             \/ loaded[c] # files[cur[c].id][Canonical]
      BY <2>2, LoadTyping DEF IndInv
    <3>2. i = cur[c].id /\ s = Canonical
      BY <2>1, <3>1
    <3>3. pc[c] = "load" /\ pc'[c] = "update"
      BY <2>1, <2>2, LoadTyping DEF loadPersistedConfig, Register, IndInv
    <3>4. files[i][s] \notin {EmptyConfig, Garbled}
      BY StatusAssumption
    <3>5. QED
      BY <3>1, <3>2, <3>3, <3>4
  <2>3. ASSUME NEW r \in Requests, removeConfigFile(r) \/ openConfigFile(r) \/ writeConfigFile(r)
        PROVE  SavedBy(r, i, s)
    <3>1. apiPc[r] \in {"persist", "write"} /\ apiPc'[r] # apiPc[r]
      BY <2>1, <2>3 DEF removeConfigFile, openConfigFile, writeConfigFile, Goto
    <3>2. \E new : files' = [files EXCEPT ![apiReq[r].id][apiReq[r].spelling] = new]
      BY <2>3 DEF removeConfigFile, openConfigFile, writeConfigFile
    <3>3. apiReq[r].id = i /\ apiReq[r].spelling = s
      BY <2>1, <3>2
    <3>4. QED
      BY <3>1, <3>3
  <2>4. QED
    BY <2>2, <2>3, FileSteps
<1>2. QED
  BY <1>1, Inductive, PTL DEF Spec, SavedFileKept
=============================================================================
