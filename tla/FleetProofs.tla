----------------------------- MODULE FleetProofs ------------------------------
(***************************************************************************)
(* Proofs about the fleet: the agents and the server together are a run of  *)
(* the server under clients of its own kind, so that what is proved of the  *)
(* server holds in the fleet; and no agent ever runs another's config.      *)
(***************************************************************************)
EXTENDS Fleet, OpAMPConfigProofs

-----------------------------------------------------------------------------
(* The fleet's steps are steps of the server. *)

(* What the agents know is well typed. *)
AgentsTyped ==
    /\ link \in [Ids -> Conns \cup {Nil}]
    /\ seqNum \in [Ids -> 0 .. SeqModulus - 1]
    /\ applied \in [Ids -> Bodies \cup {Nil}]
    /\ descr \in [Ids -> Descriptions]

(* What an agent reports is one of the reports the server may get.          *)
LEMMA ReportTyping ==
    ASSUME AgentsTyped, NEW i \in Ids
    PROVE  Report(i) \in Messages
<1>1. /\ seqNum[i] \in 0 .. SeqModulus - 1
      /\ applied[i] \in Bodies \cup {Nil}
      /\ descr[i] \in Descriptions
  BY DEF AgentsTyped
<1>2. /\ ConfigHash(applied[i]) \in Hashes \/ applied[i] = Nil
      /\ <<>> \in Hashes
      /\ orElse(applied[i], EmptyConfig) \in Bodies
  BY <1>1 DEF Hashes, orElse, Bodies
<1> DEFINE tells(what) == needFull[i] \/ what \in dirty[i]
           rcs == IF "remote_config_status" \notin Caps \/ ~ tells("config") THEN Nil
                  ELSE IF applied[i] = Nil THEN <<>> ELSE ConfigHash(applied[i])
           eff == IF "effective_config" \notin Caps \/ ~ tells("config") THEN Nil
                  ELSE orElse(applied[i], EmptyConfig)
           rest == (IF tells("health") THEN {"health"} ELSE {}) \cap Caps
           told == IF tells("descr") THEN descr[i] ELSE Nil
<1>3. /\ rcs \in Hashes \cup {Nil} /\ eff \in Bodies \cup {Nil}
      /\ rest \in SUBSET ({"health"} \cap Caps) /\ told \in Descriptions \cup {Nil}
  BY <1>1, <1>2
<1>4. Report(i) = [id |-> i, seq |-> seqNum[i], caps |-> Caps, descr |-> told,
                   rcs |-> rcs, eff |-> eff, rest |-> rest, csr |-> "none"]
  BY DEF Report
<1> HIDE DEF rcs, eff, rest, told
<1>5. Report(i) \in Reports
  BY <1>1, <1>3, <1>4 DEF Reports
<1>6. QED
  BY <1>5, FleetAssumption

(* Every step of the fleet is a step of the server, or leaves it alone.     *)
LEMMA FleetStep ==
    ASSUME AgentsTyped, [FleetNext]_fleetVars
    PROVE  [Next]_vars
<1>1. CASE FleetServerStep
  <2>1. ASSUME NEW r \in Requests, SaveRequest(r) PROVE ApiRequest(r)
    BY <2>1, ServerAssumption DEF SaveRequest, ApiRequest
  <2>2. QED
    BY <1>1, <2>1 DEF FleetServerStep, Next, ServerNext
<1>2. ASSUME NEW i \in Ids, AgentConnect(i) PROVE Next
  BY <1>2 DEF AgentConnect, Next
<1>3. ASSUME NEW i \in Ids, AgentReport(i) PROVE Next
  <2>1. link[i] \in Conns /\ onMessage(link[i], Report(i)) /\ Report(i) \in Messages
    BY <1>3, ReportTyping DEF AgentReport, AgentsTyped
  <2>2. QED
    BY <2>1 DEF Next
<1>4. ASSUME NEW i \in Ids, AgentReceive(i) PROVE Next
  BY <1>4 DEF AgentReceive, AgentsTyped, Next
<1>5. ASSUME NEW i \in Ids, AgentDrop(i) PROVE Next
  BY <1>5 DEF AgentDrop, AgentsTyped, Next
<1>6. ASSUME NEW i \in Ids, DescriptionChange(i) \/ HealthChange(i) \/ AgentNotices(i)
      PROVE  UNCHANGED vars
  BY <1>6 DEF DescriptionChange, HealthChange, AgentNotices
<1>7. CASE UNCHANGED fleetVars
  BY <1>7 DEF fleetVars
<1>8. QED
  BY <1>1, <1>2, <1>3, <1>4, <1>5, <1>6, <1>7 DEF FleetNext

(* Sequence numbers wrap, and what is applied is a config that was offered. *)
LEMMA AgentsTypedStep ==
    ASSUME TypeOK, AgentsTyped, [FleetNext]_fleetVars
    PROVE  AgentsTyped'
<1>1. \A n \in 0 .. SeqModulus - 1, k \in {0, 1} : (n + k) % SeqModulus \in 0 .. SeqModulus - 1
  BY StatusAssumption
<1>2. ASSUME NEW i \in Ids, AgentReceive(i) PROVE AgentsTyped'
  <2>1. /\ link[i] \in Conns /\ outbox[link[i]] # <<>>
        /\ applied' = [applied EXCEPT ![i] = orElse(Head(outbox[link[i]]).config, @)]
        /\ UNCHANGED <<link, seqNum, descr>>
    BY <1>2 DEF AgentReceive, NetworkTake, AgentsTyped
  <2>2. Head(outbox[link[i]]).config \in Bodies \cup {Nil}
    <3>1. outbox[link[i]] \in Seq(ServerToAgent)
      BY <2>1 DEF TypeOK
    <3>2. Head(outbox[link[i]]) \in ServerToAgent
      BY <2>1, <3>1
    <3>3. QED
      BY <3>2 DEF ServerToAgent
  <2>3. orElse(Head(outbox[link[i]]).config, applied[i]) \in Bodies \cup {Nil}
    BY <2>2 DEF orElse, AgentsTyped
  <2>4. QED
    BY <2>1, <2>3 DEF AgentsTyped
<1>3. ASSUME NEW i \in Ids, AgentConnect(i) PROVE AgentsTyped'
  BY <1>3 DEF AgentConnect, AgentsTyped
<1>4. ASSUME NEW i \in Ids, AgentReport(i) PROVE AgentsTyped'
  BY <1>1, <1>4 DEF AgentReport, AgentsTyped
<1>5. ASSUME NEW i \in Ids, AgentDrop(i) PROVE AgentsTyped'
  BY <1>1, <1>5 DEF AgentDrop, AgentsTyped
<1>6. ASSUME NEW i \in Ids, DescriptionChange(i) \/ HealthChange(i) \/ AgentNotices(i)
      PROVE  AgentsTyped'
  BY <1>6 DEF DescriptionChange, HealthChange, AgentNotices, AgentsTyped
<1>7. CASE FleetServerStep \/ UNCHANGED fleetVars
  BY <1>7 DEF FleetServerStep, fleetVars, agentVars, AgentsTyped
<1>8. QED
  BY <1>2, <1>3, <1>4, <1>5, <1>6, <1>7 DEF FleetNext

(* Refinement: however agents connect, report, break and return, what       *)
(* happens to the server is what arbitrary clients may do to it.            *)
THEOREM FleetIsServer == FleetSpec => Spec
<1>1. FleetInit => Init /\ IndInv /\ AgentsTyped
  BY InductiveInit, StatusAssumption DEF FleetInit, AgentsTyped
<1>2. IndInv /\ AgentsTyped /\ [FleetNext]_fleetVars =>
        [Next]_vars /\ IndInv' /\ AgentsTyped'
  BY FleetStep, AgentsTypedStep, InductiveStep DEF IndInv
<1>3. QED
  BY <1>1, <1>2, PTL DEF FleetSpec, Spec

(* What is proved of the server for any clients holds in the fleet: its     *)
(* registry agrees, no save is forgotten, and no send into a channel blocks.*)
THEOREM FleetKeepsServer ==
    FleetSpec => [](TypeOK /\ RegistryConsistent /\ RemoteConfigCurrent /\ WaiterNotForgotten
                    /\ ChannelHasRoom /\ ConfigProvenance /\ OfferHoldsRegistry)
BY FleetIsServer, TypeCorrect, RegistryAgrees, RemoteConfigReady, NoLostWakeUp,
   ChannelNeverBlocks, ConfigsWereSaved, OffersAreExclusive, PTL

-----------------------------------------------------------------------------
(* Whose configs travel on a connection. *)

(* A connection carries one agent's traffic: the one that believes in it    *)
(* is the only one with an object, a report or a config on it.  A           *)
(* connection nobody has accepted yet carries nothing.                      *)
OneAgentPerLink ==
    /\ \A i \in Ids : link[i] # Nil => phase[link[i]] # "fresh"
    /\ \A i, j \in Ids : link[i] # Nil /\ link[i] = link[j] => i = j
    /\ \A c \in Conns : phase[c] = "fresh" => outbox[c] = <<>>
    /\ \A i, j \in Ids, c \in Conns : link[i] = c /\ heap[j][c] # Nil => i = j
    /\ \A i \in Ids, c \in Conns : link[i] = c /\ pc[c] \in {"load", "update"} => cur[c].id = i

OwnTraffic ==
    \A i \in Ids, c \in Conns : link[i] = c =>
      /\ pc[c] = "respond" => resp[c].config \in savedFor(i)
      /\ \A n \in 1 .. Len(outbox[c]) : outbox[c][n].config \in savedFor(i)

(* A message sent on a connection is the last one in its outbox, or lost.   *)
LEMMA Sent ==
    ASSUME TypeOK, NEW c \in Conns, NEW msg, Send(c, msg), NEW d \in Conns,
           NEW n \in 1 .. Len(outbox'[d])
    PROVE  \/ n \in 1 .. Len(outbox[d]) /\ outbox'[d][n] = outbox[d][n]
           \/ d = c /\ outbox'[d][n] = msg
<1>1. outbox[d] \in Seq(ServerToAgent) /\ outbox \in [Conns -> Seq(ServerToAgent)]
  BY DEF TypeOK
<1>2. CASE outbox' = outbox
  BY <1>1, <1>2
<1>3. CASE outbox' = [outbox EXCEPT ![c] = Append(@, msg)]
  <2>1. CASE d = c
    <3>1. outbox'[d] = Append(outbox[d], msg)
      BY <1>1, <1>3, <2>1
    <3>2. QED
      BY <1>1, <2>1, <3>1
  <2>2. CASE d # c
    BY <1>1, <1>3, <2>2
  <2>3. QED
    BY <2>1, <2>2
<1>4. QED
  BY <1>2, <1>3 DEF Send

(* The steps of the server and of the network, but for a new connection and *)
(* a new report.                                                            *)
Serves ==
    \/ FleetServerStep
    \/ \E c \in Conns : PeerGone(c) \/ NetworkTake(c)

(* A connection nobody has accepted, and one without an object or a report, *)
(* is not given one by them, unless it is loading its agent's file.         *)
LEMMA ServesKnown ==
    ASSUME IndInv, Serves, NEW c \in Conns
    PROVE  /\ phase'[c] = "fresh" <=> phase[c] = "fresh"
           /\ \A j \in Ids : heap'[j][c] # Nil =>
                heap[j][c] # Nil \/ (pc[c] = "load" /\ cur[c].id = j)
           /\ pc'[c] \in {"load", "update"} =>
                pc[c] \in {"load", "update"} /\ cur'[c] = cur[c]
           /\ phase[c] = "fresh" /\ outbox[c] = <<>> => outbox'[c] = <<>>
<1> TypeOK
  BY DEF IndInv
<1> /\ phase \in [Conns -> {"fresh", "open", "broken", "removed"}]
    /\ heap \in [Ids -> [Conns -> Agent \cup {Nil}]]
    /\ pc \in [Conns -> {"idle", "load", "update", "respond"}]
    /\ cur \in [Conns -> AgentToServer \cup {Nil}]
    /\ outbox \in [Conns -> Seq(ServerToAgent)]
  BY DEF TypeOK
<1>1. ASSUME NEW d \in Conns, NEW msg, Send(d, msg), phase[c] = "fresh"
      PROVE  outbox'[c] = outbox[c]
  BY <1>1 DEF Send
<1>2. ASSUME NEW d \in Conns, UpdateStatus(d)
      PROVE  /\ \A j \in Ids : heap'[j][c] # Nil => heap[j][c] # Nil
             /\ pc' = [pc EXCEPT ![d] = "respond"]
             /\ UNCHANGED <<phase, cur, outbox>>
  <2>1. /\ cur[d].id \in Ids /\ ref[d] \in Conns /\ heap[cur[d].id][ref[d]] \in Agent
        /\ \E a \in Agent : heap' = [heap EXCEPT ![cur[d].id][ref[d]] = a]
    BY <1>2, Updated
  <2>2. heap[cur[d].id][ref[d]] # Nil
    BY <2>1, ServerAssumption
  <2>3. QED
    BY <1>2, <2>1, <2>2 DEF UpdateStatus
<1>3. ASSUME NEW d \in Conns, SendResponse(d)
      PROVE  /\ pc' = [pc EXCEPT ![d] = "idle"] /\ cur' = [cur EXCEPT ![d] = Nil]
             /\ UNCHANGED <<phase, heap>>
             /\ phase[c] = "fresh" => outbox'[c] = outbox[c]
  BY <1>1, <1>3 DEF SendResponse
<1>4. ASSUME NEW d \in Conns, RemoveConnection(d) \/ PeerGone(d)
      PROVE  /\ \E p \in {"removed", "broken"} : phase' = [phase EXCEPT ![d] = p]
             /\ phase[d] # "fresh"
             /\ UNCHANGED <<heap, pc, cur>>
             /\ outbox' = outbox \/ outbox' = [outbox EXCEPT ![d] = <<>>]
  BY <1>4 DEF RemoveConnection, PeerGone
<1>5. ASSUME NEW d \in Conns, NetworkTake(d)
      PROVE  /\ UNCHANGED <<phase, heap, pc, cur>>
             /\ outbox[d] # <<>> /\ outbox' = [outbox EXCEPT ![d] = Tail(@)]
  BY <1>5 DEF NetworkTake, loopVars
<1>6. ASSUME NEW r \in Requests, SetCustomConfigForAgent(r)
      PROVE  /\ \A j \in Ids : heap'[j][c] # Nil => heap[j][c] # Nil
             /\ UNCHANGED <<phase, pc, cur, outbox>>
  <2>1. /\ apiReq[r].id \in Ids /\ apiRef[r] \in Conns
        /\ heap[apiReq[r].id][apiRef[r]] \in Agent
        /\ \E a \in Agent : heap' = [heap EXCEPT ![apiReq[r].id][apiRef[r]] = a]
    BY <1>6, ConfigSet
  <2>2. heap[apiReq[r].id][apiRef[r]] # Nil
    BY <2>1, ServerAssumption
  <2>3. QED
    BY <1>6, <2>1, <2>2 DEF SetCustomConfigForAgent, loopVars
<1>7. ASSUME NEW r \in Requests, SendToAgent(r) \/ OfferConnectionSettings(r)
      PROVE  /\ UNCHANGED <<phase, heap, pc, cur>>
             /\ phase[c] = "fresh" => outbox'[c] = outbox[c]
  <2>1. apiRef[r] \in Conns
    BY <1>7 DEF IndInv, TypeOK, RequestsHold, SendToAgent, OfferConnectionSettings
  <2>2. QED
    BY <1>1, <1>7, <2>1 DEF SendToAgent, OfferConnectionSettings, loopVars
<1>8. ASSUME NEW r \in Requests,
             \/ SaveRequest(r)
             \/ removeConfigFile(r) \/ openConfigFile(r) \/ writeConfigFile(r) \/ FindAgent(r)
             \/ saveNotified(r) \/ saveTimedOut(r)
             \/ OfferAgentConnectionSettings(r) \/ offerAnswered(r)
      PROVE  UNCHANGED <<phase, heap, pc, cur, outbox>>
  BY <1>8 DEF SaveRequest, handleSaveConfig, removeConfigFile, openConfigFile, writeConfigFile,
              FindAgent, saveNotified, saveTimedOut, OfferAgentConnectionSettings,
              offerAnswered, loopVars
<1>9. ASSUME Crash
      PROVE  /\ phase'[c] = "fresh" <=> phase[c] = "fresh"
             /\ \A j \in Ids : heap'[j][c] = Nil
             /\ pc'[c] = "idle" /\ outbox'[c] = <<>>
  BY <1>9 DEF Crash, LoseMemory
<1>14. ASSUME NEW d \in Conns, loadPersistedConfig(d)
       PROVE  /\ \A j \in Ids : heap'[j][c] # Nil => heap[j][c] # Nil \/ (d = c /\ cur[c].id = j)
              /\ pc[d] = "load" /\ pc' = [pc EXCEPT ![d] = "update"]
              /\ UNCHANGED <<phase, cur, outbox>>
  <2>1. cur[d].id \in Ids
    BY <1>14 DEF loadPersistedConfig, IndInv, LoopsHold, TypeOK, AgentToServer
  <2>2. PICK a : Register(d, cur[d].id, a)
    BY <1>14, LoadTyping
  <2>3. /\ heap' = [heap EXCEPT ![cur[d].id][d] = a]
        /\ pc[d] = "load" /\ pc' = [pc EXCEPT ![d] = "update"]
        /\ UNCHANGED <<phase, cur, outbox>>
    BY <1>14, <2>2 DEF loadPersistedConfig, Register
  <2>4. \A j \in Ids : heap'[j][c] # Nil => heap[j][c] # Nil \/ (d = c /\ cur[c].id = j)
    BY <2>1, <2>3
  <2>5. QED
    BY <2>3, <2>4
<1>10. CASE \E d \in Conns : LoopStep(d) \/ PeerGone(d) \/ NetworkTake(d)
  <2>1. CASE \E d \in Conns : loadPersistedConfig(d)
    BY <1>14, <2>1
  <2>2. CASE \E d \in Conns : UpdateStatus(d) \/ SendResponse(d)
    BY <1>2, <1>3, <2>2
  <2>3. CASE \E d \in Conns : RemoveConnection(d) \/ PeerGone(d) \/ NetworkTake(d)
    BY <1>4, <1>5, <2>3
  <2>4. QED
    BY <1>10, <2>1, <2>2, <2>3 DEF LoopStep
<1>11. CASE \E r \in Requests : SaveRequest(r) \/ ApiStep(r)
  BY <1>6, <1>7, <1>8, <1>11 DEF ApiStep
<1>12. CASE Crash
  BY <1>9, <1>12
<1>13. QED
  BY <1>10, <1>11, <1>12 DEF Serves, FleetServerStep

(* Every step leaves each connection to one agent.                          *)
LEMMA OneAgentStep ==
    ASSUME IndInv, AgentsTyped, OneAgentPerLink, [FleetNext]_fleetVars
    PROVE  OneAgentPerLink'
<1> /\ phase \in [Conns -> {"fresh", "open", "broken", "removed"}]
    /\ heap \in [Ids -> [Conns -> Agent \cup {Nil}]]
    /\ pc \in [Conns -> {"idle", "load", "update", "respond"}]
    /\ cur \in [Conns -> AgentToServer \cup {Nil}]
    /\ link \in [Ids -> Conns \cup {Nil}]
    /\ Nil \notin Conns
  BY ServerAssumption DEF IndInv, TypeOK, AgentsTyped
<1>1. ASSUME Serves, \A i \in Ids : link'[i] \in {link[i], Nil}
      PROVE  OneAgentPerLink'
  <2>1. \A i \in Ids : link'[i] # Nil => link'[i] = link[i] /\ link[i] \in Conns
    BY <1>1
  <2>2. ASSUME NEW i \in Ids, NEW c \in Conns, link[i] = c
        PROVE  /\ \A j \in Ids : heap'[j][c] # Nil => i = j
               /\ pc'[c] \in {"load", "update"} => cur'[c].id = i
    BY <1>1, <2>2, ServesKnown DEF OneAgentPerLink
  <2>3. \A c \in Conns : /\ phase'[c] = "fresh" <=> phase[c] = "fresh"
                         /\ phase[c] = "fresh" /\ outbox[c] = <<>> => outbox'[c] = <<>>
    BY <1>1, ServesKnown
  <2>4. QED
    BY <2>1, <2>2, <2>3 DEF OneAgentPerLink
<1>2. ASSUME UNCHANGED vars, \A i \in Ids : link'[i] \in {link[i], Nil}
      PROVE  OneAgentPerLink'
  BY <1>2 DEF OneAgentPerLink, vars, loopVars
<1>3. ASSUME NEW i \in Ids, AgentConnect(i) PROVE OneAgentPerLink'
  <2>1. PICK c \in Conns : Accept(c) /\ link' = [link EXCEPT ![i] = c]
    BY <1>3 DEF AgentConnect
  <2>2. /\ phase[c] = "fresh" /\ phase' = [phase EXCEPT ![c] = "open"]
        /\ UNCHANGED <<heap, pc, cur, outbox>>
    BY <2>1 DEF Accept
  <2>3. /\ pc[c] = "idle"
        /\ \A j \in Ids : heap[j][c] = Nil /\ link[j] # c
    BY <2>2 DEF IndInv, LoopsHold, NoOrphans, RegistryConsistent, OneAgentPerLink
  <2>4. QED
    BY <2>1, <2>2, <2>3 DEF OneAgentPerLink
<1>4. ASSUME NEW i \in Ids, AgentReport(i) PROVE OneAgentPerLink'
  <2>1. /\ link[i] \in Conns /\ UNCHANGED <<link, phase, outbox>>
        /\ \E p : pc' = [pc EXCEPT ![link[i]] = p]
        /\ cur' = [cur EXCEPT ![link[i]] = Report(i)]
    BY <1>4 DEF AgentReport, onMessage, FindAgentOf, CreateAgent, readConfigFile, Register
  <2>2. Report(i).id = i
    BY DEF Report
  <2>3. heap' = heap \/ \E a : heap' = [heap EXCEPT ![i][link[i]] = a]
    BY <1>4, <2>2 DEF AgentReport, onMessage, FindAgentOf, CreateAgent, readConfigFile, Register
  <2>4. QED
    BY <2>1, <2>2, <2>3 DEF OneAgentPerLink
<1>5. ASSUME NEW i \in Ids,
             \/ AgentReceive(i) \/ AgentDrop(i) \/ AgentNotices(i)
             \/ DescriptionChange(i) \/ HealthChange(i)
      PROVE  OneAgentPerLink'
  BY <1>1, <1>2, <1>5 DEF AgentReceive, AgentDrop, AgentNotices, DescriptionChange, HealthChange, Serves
<1>6. CASE FleetServerStep \/ UNCHANGED fleetVars
  BY <1>1, <1>2, <1>6 DEF FleetServerStep, Serves, fleetVars, agentVars
<1>7. QED
  BY <1>3, <1>4, <1>5, <1>6 DEF FleetNext

(* What the server sends on an agent's connection was saved for that agent: *)
(* the config a request carries goes to the object it found, and the answer *)
(* to a report comes from the object the report is for.                     *)
LEMMA ServesOwn ==
    ASSUME IndInv, NewRequests, ConfigProvenance, OneAgentPerLink, OwnTraffic, Serves,
           [Next]_vars, NEW i \in Ids, NEW c \in Conns, link[i] = c
    PROVE  /\ pc'[c] = "respond" => resp'[c].config \in savedFor(i)'
           /\ \A n \in 1 .. Len(outbox'[c]) : outbox'[c][n].config \in savedFor(i)'
<1> TypeOK
  BY DEF IndInv
<1> /\ pc \in [Conns -> {"idle", "load", "update", "respond"}]
    /\ resp \in [Conns -> ServerToAgent]
    /\ outbox \in [Conns -> Seq(ServerToAgent)]
  BY DEF TypeOK
<1> Nil \in savedFor(i) /\ savedFor(i) \subseteq savedFor(i)'
  BY AskedKept DEF savedFor
<1>1. /\ pc[c] = "respond" => resp[c].config \in savedFor(i)
      /\ \A n \in 1 .. Len(outbox[c]) : outbox[c][n].config \in savedFor(i)
  BY DEF OwnTraffic
<1>2. ASSUME NEW d \in Conns, NEW msg, Send(d, msg), d = c => msg.config \in savedFor(i)
      PROVE  \A n \in 1 .. Len(outbox'[c]) : outbox'[c][n].config \in savedFor(i)'
  <2> SUFFICES ASSUME NEW n \in 1 .. Len(outbox'[c])
               PROVE  outbox'[c][n].config \in savedFor(i)'
    OBVIOUS
  <2>1. \/ n \in 1 .. Len(outbox[c]) /\ outbox'[c][n] = outbox[c][n]
        \/ c = d /\ outbox'[c][n] = msg
    BY <1>2, Sent
  <2>2. QED
    BY <1>1, <1>2, <2>1
<1>3. ASSUME \/ outbox'[c] = outbox[c]
             \/ outbox'[c] = <<>>
             \/ outbox[c] # <<>> /\ outbox'[c] = Tail(outbox[c])
      PROVE  \A n \in 1 .. Len(outbox'[c]) : outbox'[c][n].config \in savedFor(i)'
  <2>1. outbox[c] \in Seq(ServerToAgent)
    OBVIOUS
  <2>2. CASE outbox[c] # <<>> /\ outbox'[c] = Tail(outbox[c])
    <3>1. \A n \in 1 .. Len(outbox'[c]) :
            n + 1 \in 1 .. Len(outbox[c]) /\ outbox'[c][n] = outbox[c][n + 1]
      BY <2>1, <2>2
    <3>2. QED
      BY <1>1, <3>1
  <2>3. CASE outbox'[c] = <<>>
    BY <2>3
  <2>4. CASE outbox'[c] = outbox[c]
    BY <1>1, <2>4
  <2>5. QED
    BY <1>3, <2>2, <2>3, <2>4
<1>4. CASE \E d \in Conns : UpdateStatus(d)
  <2>1. PICK d \in Conns : UpdateStatus(d)
    BY <1>4
  <2>2. /\ pc[d] = "update" /\ outbox' = outbox
        /\ \A e \in Conns : e # d => pc'[e] = pc[e] /\ resp'[e] = resp[e]
    BY <2>1 DEF UpdateStatus
  <2>3. resp'[d].config \in savedFor(cur[d].id)
    BY <2>1, AnswerOwn
  <2>4. d = c => cur[d].id = i
    BY <2>2 DEF OneAgentPerLink
  <2>5. QED
    BY <1>1, <1>3, <2>2, <2>3, <2>4
<1>5. CASE \E d \in Conns : SendResponse(d)
  <2>1. PICK d \in Conns : SendResponse(d)
    BY <1>5
  <2>2. /\ pc[d] = "respond" /\ Send(d, resp[d]) /\ pc' = [pc EXCEPT ![d] = "idle"]
        /\ resp' = [resp EXCEPT ![d] = EmptyMessage]
    BY <2>1 DEF SendResponse
  <2>3. QED
    BY <1>1, <1>2, <2>2
<1>6. CASE \E d \in Conns : RemoveConnection(d) \/ PeerGone(d) \/ NetworkTake(d)
  <2>1. PICK d \in Conns : RemoveConnection(d) \/ PeerGone(d) \/ NetworkTake(d)
    BY <1>6
  <2>2. /\ UNCHANGED <<pc, resp>>
        /\ \/ outbox' = outbox \/ outbox' = [outbox EXCEPT ![d] = <<>>]
           \/ outbox[d] # <<>> /\ outbox' = [outbox EXCEPT ![d] = Tail(@)]
    BY <2>1 DEF RemoveConnection, PeerGone, NetworkTake, loopVars
  <2>3. \/ outbox'[c] = outbox[c]
        \/ outbox'[c] = <<>>
        \/ outbox[c] # <<>> /\ outbox'[c] = Tail(outbox[c])
    <3>1. CASE d = c
      BY <2>2, <3>1
    <3>2. CASE d # c
      BY <2>2, <3>2
    <3>3. QED
      BY <3>1, <3>2
  <2>4. \A n \in 1 .. Len(outbox'[c]) : outbox'[c][n].config \in savedFor(i)'
    BY <1>3, <2>3
  <2>5. pc' = pc /\ resp' = resp
    BY <2>2
  <2>6. pc'[c] = "respond" => resp'[c].config \in savedFor(i)'
    BY <1>1, <2>5
  <2>7. QED
    BY <2>4, <2>6
<1>7. CASE \E r \in Requests : SendToAgent(r)
  <2>1. PICK r \in Requests : SendToAgent(r)
    BY <1>7
  <2>2. /\ apiPc[r] = "send" /\ UNCHANGED <<pc, resp>>
        /\ Send(apiRef[r], [EmptyMessage EXCEPT !.config = apiReq[r].body])
    BY <2>1 DEF SendToAgent, loopVars
  <2>3. /\ apiRef[r] \in Conns /\ apiReq[r].id \in Ids
        /\ heap[apiReq[r].id][apiRef[r]] # Nil
        /\ apiReq[r].body \in savedFor(apiReq[r].id)
    BY <2>2, BodyAsked DEF IndInv, TypeOK, RequestsHold, SaveSteps, Request
  <2>4. apiRef[r] = c => apiReq[r].id = i
    BY <2>3 DEF OneAgentPerLink
  <2>5. [EmptyMessage EXCEPT !.config = apiReq[r].body].config = apiReq[r].body
    BY DEF EmptyMessage
  <2>6. QED
    BY <1>1, <1>2, <2>2, <2>3, <2>4, <2>5
<1>8. CASE \E r \in Requests : OfferConnectionSettings(r)
  <2>1. PICK r \in Requests : OfferConnectionSettings(r)
    BY <1>8
  <2>2. /\ apiRef[r] \in Conns /\ UNCHANGED <<pc, resp>>
        /\ Send(apiRef[r], [EmptyMessage EXCEPT !.settings = apiReq[r].settings])
    BY <2>1 DEF OfferConnectionSettings, loopVars, IndInv, TypeOK, RequestsHold
  <2>3. [EmptyMessage EXCEPT !.settings = apiReq[r].settings].config = Nil
    BY DEF EmptyMessage
  <2>4. QED
    BY <1>1, <1>2, <2>2, <2>3
<1>9. ASSUME NEW r \in Requests,
             \/ SaveRequest(r) \/ SetCustomConfigForAgent(r)
             \/ removeConfigFile(r) \/ openConfigFile(r) \/ writeConfigFile(r) \/ FindAgent(r)
             \/ saveNotified(r) \/ saveTimedOut(r)
             \/ OfferAgentConnectionSettings(r) \/ offerAnswered(r)
      PROVE  UNCHANGED <<pc, resp, outbox>>
  BY <1>9 DEF SaveRequest, handleSaveConfig, removeConfigFile, openConfigFile, writeConfigFile,
              FindAgent, SetCustomConfigForAgent, saveNotified, saveTimedOut,
              OfferAgentConnectionSettings, offerAnswered, loopVars
<1>10. CASE UNCHANGED <<pc, resp, outbox>>
  BY <1>1, <1>3, <1>10
<1>11. CASE Crash
  <2>1. pc'[c] = "idle" /\ outbox'[c] = <<>>
    BY <1>11 DEF Crash, LoseMemory
  <2>2. QED
    BY <1>3, <2>1
<1>12. CASE \E d \in Conns : loadPersistedConfig(d)
  <2>1. PICK d \in Conns : loadPersistedConfig(d)
    BY <1>12
  <2>2. /\ pc' = [pc EXCEPT ![d] = "update"] /\ UNCHANGED <<resp, outbox>>
    BY <2>1, LoadTyping DEF loadPersistedConfig, Register
  <2>3. QED
    BY <1>1, <1>3, <2>2
<1>13. QED
  BY <1>4, <1>5, <1>6, <1>7, <1>8, <1>9, <1>10, <1>11, <1>12
     DEF Serves, FleetServerStep, LoopStep, ApiStep

(* Every step keeps the agents' traffic and what they run their own.        *)
LEMMA OwnStep ==
    ASSUME IndInv, NewRequests, ConfigProvenance, AgentsTyped, OneAgentPerLink, OwnTraffic,
           OwnConfigs, [FleetNext]_fleetVars
    PROVE  OwnTraffic' /\ OwnConfigs'
<1> /\ pc \in [Conns -> {"idle", "load", "update", "respond"}]
    /\ resp \in [Conns -> ServerToAgent]
    /\ outbox \in [Conns -> Seq(ServerToAgent)]
    /\ link \in [Ids -> Conns \cup {Nil}]
    /\ applied \in [Ids -> Bodies \cup {Nil}]
    /\ Nil \notin Conns
  BY ServerAssumption DEF IndInv, TypeOK, AgentsTyped
<1> [Next]_vars
  BY FleetStep
<1>1. \A i \in Ids : savedFor(i) \subseteq savedFor(i)'
  BY AskedKept
<1>2. ASSUME UNCHANGED applied PROVE OwnConfigs'
  BY <1>1, <1>2 DEF OwnConfigs
<1>3. ASSUME Serves, \A i \in Ids : link'[i] \in {link[i], Nil}
      PROVE  OwnTraffic'
  BY <1>3, ServesOwn DEF OwnTraffic
<1>4. ASSUME UNCHANGED vars, \A i \in Ids : link'[i] \in {link[i], Nil}
      PROVE  OwnTraffic'
  <2>1. UNCHANGED <<pc, resp, outbox>>
    BY <1>4 DEF vars, loopVars
  <2>2. QED
    BY <1>1, <1>4, <2>1 DEF OwnTraffic
<1>5. ASSUME NEW i \in Ids, AgentConnect(i) PROVE OwnTraffic' /\ OwnConfigs'
  <2>1. PICK c \in Conns : Accept(c) /\ link' = [link EXCEPT ![i] = c]
    BY <1>5 DEF AgentConnect
  <2>2. phase[c] = "fresh" /\ UNCHANGED <<pc, resp, outbox, applied>>
    BY <1>5, <2>1 DEF AgentConnect, Accept
  <2>3. pc[c] = "idle" /\ outbox[c] = <<>>
    BY <2>2 DEF IndInv, LoopsHold, OneAgentPerLink
  <2>4. QED
    BY <1>1, <1>2, <2>1, <2>2, <2>3 DEF OwnTraffic
<1>6. ASSUME NEW i \in Ids, AgentReport(i) PROVE OwnTraffic' /\ OwnConfigs'
  <2>1. /\ UNCHANGED <<link, resp, outbox, applied>>
        /\ \E p \in {"load", "update"} : pc' = [pc EXCEPT ![link[i]] = p]
    BY <1>6 DEF AgentReport, onMessage, FindAgentOf, CreateAgent, readConfigFile, Register
  <2>2. QED
    BY <1>1, <1>2, <2>1 DEF OwnTraffic
<1>7. ASSUME NEW i \in Ids, AgentReceive(i) PROVE OwnTraffic' /\ OwnConfigs'
  <2>1. /\ link[i] \in Conns /\ outbox[link[i]] # <<>> /\ NetworkTake(link[i])
        /\ UNCHANGED link
        /\ applied' = [applied EXCEPT ![i] = orElse(Head(outbox[link[i]]).config, @)]
    BY <1>7 DEF AgentReceive, NetworkTake
  <2>2. Head(outbox[link[i]]).config \in savedFor(i)
    <3>1. /\ 1 \in 1 .. Len(outbox[link[i]])
          /\ Head(outbox[link[i]]) = outbox[link[i]][1]
      BY <2>1
    <3>2. QED
      BY <2>1, <3>1 DEF OwnTraffic
  <2>3. orElse(Head(outbox[link[i]]).config, applied[i]) \in savedFor(i)
    BY <2>2 DEF orElse, OwnConfigs
  <2>4. OwnConfigs'
    BY <1>1, <2>1, <2>3 DEF OwnConfigs
  <2>5. QED
    BY <1>3, <2>1, <2>4 DEF Serves
<1>8. ASSUME NEW i \in Ids,
             AgentDrop(i) \/ AgentNotices(i) \/ DescriptionChange(i) \/ HealthChange(i)
      PROVE  OwnTraffic' /\ OwnConfigs'
  <2>1. /\ \A j \in Ids : link'[j] \in {link[j], Nil}
        /\ UNCHANGED applied
        /\ Serves \/ UNCHANGED vars
    BY <1>8 DEF AgentDrop, AgentNotices, DescriptionChange, HealthChange, Serves
  <2>2. QED
    BY <1>2, <1>3, <1>4, <2>1
<1>9. CASE FleetServerStep \/ UNCHANGED fleetVars
  <2>1. UNCHANGED <<link, applied>> /\ (Serves \/ UNCHANGED vars)
    BY <1>9 DEF FleetServerStep, Serves, fleetVars, agentVars
  <2>2. QED
    BY <1>2, <1>3, <1>4, <2>1
<1>10. QED
  BY <1>5, <1>6, <1>7, <1>8, <1>9 DEF FleetNext

(* No agent ever runs a config that was not saved for it, in a fleet of any *)
(* size: through the API, files, restarts, agents that come back on other   *)
(* connections, and offers that are on their way meanwhile (SendToAgent,    *)
(* the answer of UpdateStatus, loadPersistedConfig).                        *)
THEOREM AgentsRunTheirOwn == FleetSpec => []OwnConfigs
<1> DEFINE Inv == /\ NewRequests /\ AgentsTyped /\ OneAgentPerLink
                  /\ OwnTraffic /\ OwnConfigs
<1>1. FleetInit => Inv
  <2> SUFFICES ASSUME FleetInit PROVE Inv
    OBVIOUS
  <2>1. NewRequests /\ AgentsTyped
    BY StatusAssumption DEF FleetInit, Init, NewRequests, AgentsTyped
  <2>2. \A i \in Ids : link[i] = Nil /\ applied[i] = Nil
    BY DEF FleetInit
  <2>3. \A c \in Conns : outbox[c] = <<>> /\ c # Nil
    BY ServerAssumption DEF FleetInit, Init
  <2>4. QED
    BY <2>1, <2>2, <2>3 DEF OneAgentPerLink, OwnTraffic, OwnConfigs, savedFor
<1>2. IndInv /\ ConfigProvenance /\ Inv /\ [FleetNext]_fleetVars => Inv'
  <2> SUFFICES ASSUME IndInv, ConfigProvenance, Inv, [FleetNext]_fleetVars PROVE Inv'
    OBVIOUS
  <2>1. NewRequests' /\ AgentsTyped'
    BY FleetStep, AskedKept, AgentsTypedStep DEF IndInv
  <2>2. QED
    BY <2>1, OneAgentStep, OwnStep
<1>3. Inv => OwnConfigs
  OBVIOUS
<1>4. QED
  BY <1>1, <1>2, <1>3, FleetIsServer, Inductive, ConfigsWereSaved, PTL DEF FleetSpec
=============================================================================
