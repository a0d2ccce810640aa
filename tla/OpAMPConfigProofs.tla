-------------------------- MODULE OpAMPConfigProofs --------------------------
(***************************************************************************)
(* Proofs about saves and offers: where a save is registered, where a send  *)
(* is safe, and where the configurations in files and objects come from.   *)
(* They rest on the inductive invariant of OpAMPServerProofs.              *)
(***************************************************************************)
EXTENDS OpAMPServerProofs, FiniteSetTheorems

(* Where a save can be while its channel is registered or holds a token: a  *)
(* save that timed out leaves its channel behind.                           *)
Waits == {"send", "wait", "408"}

(* A save is registered with no object but the one it found, only after it  *)
(* has set its config there, and not once it has its token.                 *)
Registrations ==
    \A r \in Requests :
      /\ \A i \in Ids, c \in Conns : r \in watchersOf(i, c) =>
           /\ apiPc[r] \in Waits
           /\ i = apiReq[r].id /\ c = apiRef[r]
           /\ ~ chan[r]
      /\ chan[r] => apiPc[r] \in Waits

(* Every step keeps a save's registration to one object and one token.      *)
LEMMA RegistrationsStep ==
    ASSUME IndInv, Registrations, [Next]_vars
    PROVE  Registrations'
<1> USE DEF Waits
<1>1. ASSUME heap' = heap,
             \A q \in Requests :
               \/ apiPc[q] \notin Waits /\ chan'[q] = chan[q]
               \/ /\ apiPc[q] \in Waits /\ apiPc'[q] \in Waits
                  /\ apiReq'[q] = apiReq[q] /\ apiRef'[q] = apiRef[q] /\ chan'[q] = chan[q]
               \/ chan[q] /\ ~ chan'[q]
      PROVE  Registrations'
  BY <1>1 DEF Registrations, watchersOf
<1>2. ASSUME NEW c \in Conns, UpdateStatus(c) PROVE Registrations'
  <2> DEFINE a == heap[cur[c].id][ref[c]]
  <2>1. cur[c] \in AgentToServer /\ cur[c].id \in Ids /\ ref[c] \in Conns /\ a \in Agent
    BY <1>2, Updated
  <2>2. /\ apiPc' = apiPc /\ apiReq' = apiReq /\ apiRef' = apiRef
        /\ \A q \in Requests : chan'[q] = (chan[q] \/ q \in a.watchers)
        /\ heap' = [heap EXCEPT ![cur[c].id][ref[c]] =
                       [processStatusUpdate(a, cur[c]) EXCEPT !.watchers = {}]]
    BY <1>2 DEF UpdateStatus
  <2>3. /\ [processStatusUpdate(a, cur[c]) EXCEPT !.watchers = {}] \in Agent
        /\ [processStatusUpdate(a, cur[c]) EXCEPT !.watchers = {}].watchers = {}
    BY <2>1, UpdateTyping DEF Agent
  <2>4. \A j \in Ids, d \in Conns :
          watchersOf(j, d)' = IF j = cur[c].id /\ d = ref[c] THEN {} ELSE watchersOf(j, d)
    BY <2>1, <2>2, <2>3, ServerAssumption DEF watchersOf, IndInv, TypeOK
  <2>5. watchersOf(cur[c].id, ref[c]) = a.watchers
    BY <2>1, ServerAssumption DEF watchersOf
  <2>6. ASSUME NEW q \in Requests
        PROVE  /\ \A j \in Ids, d \in Conns : q \in watchersOf(j, d)' =>
                    /\ q \in watchersOf(j, d)
                    /\ ~ chan'[q]
               /\ chan'[q] => apiPc[q] \in Waits
    <3>1. chan'[q] <=> chan[q] \/ q \in watchersOf(cur[c].id, ref[c])
      BY <2>2, <2>5
    <3>2. ASSUME NEW j \in Ids, NEW d \in Conns, q \in watchersOf(j, d)'
          PROVE  q \in watchersOf(j, d) /\ ~ chan'[q]
      <4>1. q \in watchersOf(j, d) /\ (j # cur[c].id \/ d # ref[c])
        BY <2>4, <3>2
      <4>2. QED
        BY <2>1, <3>1, <4>1 DEF Registrations
    <3>3. chan'[q] => apiPc[q] \in Waits
      BY <2>1, <3>1 DEF Registrations
    <3>4. QED
      BY <3>2, <3>3
  <2>7. QED
    BY <2>2, <2>6 DEF Registrations
<1>3. ASSUME NEW c \in Conns, NEW i, Creates(c, i) PROVE Registrations'
  <2>1. /\ UNCHANGED <<apiPc, apiReq, apiRef, chan>>
        /\ \E a : a.watchers = {} /\ i \in Ids /\ heap' = [heap EXCEPT ![i][c] = a]
    <3>1. /\ UNCHANGED apiVars /\ i \in Ids
          /\ \E a : Register(c, i, a) /\ Initial(a)
      BY <1>3, Created
    <3>2. QED
      BY <3>1 DEF apiVars, Register, Initial
  <2>2. \A j \in Ids, d \in Conns : watchersOf(j, d)' \subseteq watchersOf(j, d)
    BY <2>1 DEF watchersOf, IndInv, TypeOK
  <2>3. QED
    BY <2>1, <2>2 DEF Registrations
<1>4. ASSUME NEW r \in Requests, SetCustomConfigForAgent(r) PROVE Registrations'
  <2> DEFINE i == apiReq[r].id
             a == heap[i][apiRef[r]]
             b == SetCustomConfig(a, apiReq[r].body, r)
  <2>1. /\ i \in Ids /\ apiRef[r] \in Conns /\ a \in Agent
        /\ apiReq' = apiReq /\ apiRef' = apiRef /\ apiPc[r] = "set"
        /\ heap' = [heap EXCEPT ![i][apiRef[r]] = b]
    BY <1>4, ConfigSet DEF SetCustomConfigForAgent
  <2>2. /\ b # Nil
        /\ b.watchers \in {a.watchers, a.watchers \cup {r}}
    <3>1. apiReq[r].body \in Bodies
      BY <1>4 DEF IndInv, SetCustomConfigForAgent, SaveSteps, RequestsHold, TypeOK, Request, Bodies
    <3>2. b \in Agent
      BY <2>1, <3>1, SetTyping
    <3>3. QED
      BY <2>1, <3>2, ServerAssumption DEF SetCustomConfig, calcRemoteConfig, Agent
  <2>3. ~ chan[r] /\ r \notin a.watchers
    BY <2>1, ServerAssumption DEF Registrations, watchersOf
  <2>4. \/ r \in b.watchers /\ apiPc' = [apiPc EXCEPT ![r] = "send"] /\ chan' = chan
        \/ r \notin b.watchers /\ apiPc' = [apiPc EXCEPT ![r] = "wait"]
           /\ chan' = [chan EXCEPT ![r] = TRUE]
    BY <1>4 DEF SetCustomConfigForAgent, Goto
  <2>5. \A j \in Ids, d \in Conns :
          watchersOf(j, d)' = IF j = i /\ d = apiRef[r] THEN b.watchers ELSE watchersOf(j, d)
    BY <2>1, <2>2 DEF watchersOf, IndInv, TypeOK
  <2>6. watchersOf(i, apiRef[r]) = a.watchers
    BY <2>1, ServerAssumption DEF watchersOf
  <2>7. ASSUME NEW q \in Requests, q # r
        PROVE  /\ apiPc'[q] = apiPc[q] /\ chan'[q] = chan[q]
               /\ \A j \in Ids, d \in Conns : q \in watchersOf(j, d)' <=> q \in watchersOf(j, d)
    <3>1. apiPc'[q] = apiPc[q] /\ chan'[q] = chan[q]
      BY <2>4, <2>7 DEF IndInv, TypeOK
    <3>2. q \in b.watchers <=> q \in a.watchers
      BY <2>2, <2>7
    <3>3. QED
      BY <2>5, <2>6, <3>1, <3>2
  <2>8. /\ apiPc'[r] \in Waits
        /\ \A j \in Ids, d \in Conns : r \in watchersOf(j, d)' =>
             j = i /\ d = apiRef[r] /\ ~ chan'[r]
    BY <2>1, <2>3, <2>4, <2>5 DEF Registrations, IndInv, TypeOK
  <2>9. QED
    BY <2>1, <2>7, <2>8 DEF Registrations
<1>5. ASSUME NEW r \in Requests, FindAgent(r) \/ OfferAgentConnectionSettings(r)
      PROVE  Registrations'
  <2>1. /\ heap' = heap /\ apiReq' = apiReq /\ chan' = chan /\ apiPc[r] \in {"lookup", "offer"}
        /\ apiRef' = [apiRef EXCEPT ![r] = agentsById[apiReq[r].id]]
        /\ \E step \in {"wait", "set", "delay", "offering"} : apiPc' = [apiPc EXCEPT ![r] = step]
    BY <1>5 DEF FindAgent, OfferAgentConnectionSettings, Goto
  <2>2. QED
    BY <1>1, <2>1 DEF IndInv, TypeOK
<1>6. ASSUME NEW r \in Requests, SendToAgent(r) \/ saveTimedOut(r) PROVE Registrations'
  <2>1. /\ heap' = heap /\ apiReq' = apiReq /\ apiRef' = apiRef /\ chan' = chan
        /\ apiPc[r] \in Waits
        /\ \E step \in Waits : apiPc' = [apiPc EXCEPT ![r] = step]
    BY <1>6 DEF SendToAgent, saveTimedOut, Goto, Answer
  <2>2. QED
    BY <1>1, <2>1 DEF IndInv, TypeOK
<1>7. ASSUME NEW r \in Requests, saveNotified(r) PROVE Registrations'
  <2>1. /\ heap' = heap /\ apiReq' = apiReq /\ apiRef' = apiRef
        /\ chan[r] /\ chan' = [chan EXCEPT ![r] = FALSE]
        /\ apiPc' = [apiPc EXCEPT ![r] = "200"]
    BY <1>7 DEF saveNotified, Answer
  <2>2. QED
    BY <1>1, <2>1 DEF IndInv, TypeOK
<1>8. ASSUME NEW r \in Requests,
             \/ removeConfigFile(r) \/ openConfigFile(r) \/ writeConfigFile(r)
             \/ OfferConnectionSettings(r) \/ offerAnswered(r)
             \/ persistFails(r) \/ createCertFails(r) \/ ApiRequest(r)
      PROVE  Registrations'
  <2>1. /\ heap' = heap /\ apiRef' = apiRef /\ chan' = chan /\ apiPc[r] \notin Waits
        /\ apiReq' = apiReq \/ \E req : apiReq' = [apiReq EXCEPT ![r] = req]
        /\ \E step : apiPc' = [apiPc EXCEPT ![r] = step]
    BY <1>8 DEF removeConfigFile, openConfigFile, writeConfigFile, OfferConnectionSettings,
                offerAnswered, persistFails, createCertFails, ApiRequest, refuseRequest,
                handleSaveConfig, handleOffer, Goto, Answer
  <2>2. QED
    BY <1>1, <2>1 DEF IndInv, TypeOK
<1>9. ASSUME NEW c \in Conns,
             \/ Accept(c) \/ PeerGone(c) \/ NetworkTake(c) \/ rejectMessage(c)
             \/ RemoveConnection(c) \/ SendResponse(c)
      PROVE  UNCHANGED <<heap, apiPc, apiReq, apiRef, chan>>
  BY <1>9 DEF Accept, PeerGone, NetworkTake, rejectMessage, RemoveConnection, SendResponse, apiVars
<1>10. CASE LoseMemory
  BY <1>10 DEF LoseMemory, Registrations, watchersOf
<1>11. CASE UNCHANGED <<heap, apiPc, apiReq, apiRef, chan>>
  BY <1>1, <1>11 DEF Registrations
<1>12. CASE UNCHANGED vars
  BY <1>11, <1>12 DEF vars, apiVars
<1>13. ASSUME NEW c \in Conns, loadPersistedConfig(c) PROVE Creates(c, cur[c].id)
  BY <1>13 DEF Creates
<1>14. ASSUME NEW c \in Conns, NEW m \in Messages, onMessage(c, m)
       PROVE  \/ Creates(c, m.id)
              \/ UNCHANGED <<heap, apiPc, apiReq, apiRef, chan>>
  BY <1>14 DEF onMessage, FindAgentOf, readConfigFile, Creates, apiVars
<1>15. QED
  BY <1>2, <1>3, <1>4, <1>5, <1>6, <1>7, <1>8, <1>9, <1>10, <1>11, <1>12, <1>13, <1>14
     DEF Next, ServerNext, LoopStep, ApiStep, UpdateStatusPanics, Crash

(* What the registrations say of a channel. *)
LEMMA RoomFromRegistrations ==
    ASSUME Registrations
    PROVE  ChannelHasRoom
<1> SUFFICES ASSUME NEW r \in Requests
             PROVE  LET registered == {o \in Ids \X Conns : r \in watchersOf(o[1], o[2])}
                    IN  /\ Cardinality(registered) <= 1
                        /\ chan[r] => registered = {}
                        /\ apiPc[r] \in {"persist", "write", "lookup", "set"} =>
                             registered = {} /\ ~ chan[r]
  BY DEF ChannelHasRoom
<1> DEFINE registered == {o \in Ids \X Conns : r \in watchersOf(o[1], o[2])}
<1>1. \A o \in registered : /\ o = <<apiReq[r].id, apiRef[r]>>
                            /\ apiPc[r] \in Waits /\ ~ chan[r]
  BY DEF Registrations
<1>2. Cardinality(registered) <= 1
  <2>1. CASE registered = {}
    BY <2>1, FS_EmptySet
  <2>2. CASE registered # {}
    <3>1. registered = {<<apiReq[r].id, apiRef[r]>>}
      BY <1>1, <2>2
    <3>2. Cardinality(registered) = 1
      BY <3>1, FS_Singleton
    <3>3. QED
      BY <3>2
  <2>3. QED
    BY <2>1, <2>2
<1>3. chan[r] => registered = {}
  BY <1>1
<1>4. apiPc[r] \in {"persist", "write", "lookup", "set"} => registered = {} /\ ~ chan[r]
  BY <1>1 DEF Registrations, Waits
<1>5. QED
  BY <1>2, <1>3, <1>4

(* No send into the channel of a save can block: a save is registered with  *)
(* at most one object, never when its token is there, and not before it     *)
(* has set its config (SetCustomConfig and the notification in              *)
(* UpdateStatus), with any number of saves, agents and reconnections.       *)
THEOREM ChannelNeverBlocks == Spec => []ChannelHasRoom
<1>1. Init => Registrations
  BY DEF Init, Registrations, watchersOf
<1>2. IndInv /\ Registrations /\ [Next]_vars => Registrations'
  BY RegistrationsStep
<1>3. Registrations => ChannelHasRoom
  BY RoomFromRegistrations
<1>4. QED
  BY <1>1, <1>2, <1>3, Inductive, PTL DEF Spec

-----------------------------------------------------------------------------
(* A request that has not been taken up has asked for nothing. *)
NewRequests == \A r \in Requests : apiPc[r] = "new" => apiReq[r] = Nil

(* What a request asked for is never forgotten, not even by a crash. *)
LEMMA AskedKept ==
    ASSUME IndInv, NewRequests, [Next]_vars
    PROVE  /\ NewRequests'
           /\ \A i \in Ids : savedFor(i) \subseteq savedFor(i)'
<1>1. ASSUME NEW r \in Requests, NEW i \in Ids,
             \/ \E s \in Spellings, body \in Configs \cup {EmptyConfig} :
                  handleSaveConfig(r, i, s, body)
             \/ \E setting \in {"certificate", "tls"} : handleOffer(r, i, setting)
      PROVE  /\ NewRequests'
             /\ \A q \in Requests : apiReq[q] # Nil => apiReq'[q] = apiReq[q]
  <2>1. /\ apiPc[r] = "new"
        /\ \E req : apiReq' = [apiReq EXCEPT ![r] = req]
        /\ \E step \in {"persist", "offer"} : apiPc' = [apiPc EXCEPT ![r] = step]
    BY <1>1 DEF handleSaveConfig, handleOffer, Goto
  <2>2. QED
    BY <2>1 DEF NewRequests, IndInv, TypeOK
<1>2. ASSUME NEW r \in Requests,
             \/ ApiStep(r) \/ persistFails(r) \/ createCertFails(r)
             \/ \E i \in Ids : refuseRequest(r, i)
      PROVE  NewRequests' /\ apiReq' = apiReq
  <2>1. /\ apiReq' = apiReq
        /\ \E step \in (SaveSteps \cup OfferSteps \cup Answers) :
             apiPc' = [apiPc EXCEPT ![r] = step]
    BY <1>2 DEF ApiStep, removeConfigFile, openConfigFile, writeConfigFile, FindAgent,
                SetCustomConfigForAgent, SendToAgent, saveNotified, saveTimedOut,
                OfferAgentConnectionSettings, OfferConnectionSettings, offerAnswered,
                persistFails, createCertFails, refuseRequest, Goto, Answer,
                SaveSteps, OfferSteps, Answers
  <2>2. QED
    BY <2>1 DEF NewRequests, IndInv, TypeOK, SaveSteps, OfferSteps, Answers
<1>3. CASE LoseMemory
  <2>1. /\ apiReq' = apiReq
        /\ \A q \in Requests : apiPc'[q] = "new" => apiPc[q] = "new"
    BY <1>3 DEF LoseMemory
  <2>2. QED
    BY <2>1 DEF NewRequests, savedFor
<1>4. CASE UNCHANGED <<apiPc, apiReq, apiRef>>
  BY <1>4 DEF NewRequests, savedFor
<1>5. ASSUME \A q \in Requests : apiReq[q] # Nil => apiReq'[q] = apiReq[q]
      PROVE  \A i \in Ids : savedFor(i) \subseteq savedFor(i)'
  BY <1>5 DEF savedFor
<1>6. QED
  BY <1>1, <1>2, <1>3, <1>4, <1>5, RequestMoves

(* The config a save carries was asked for by it. *)
LEMMA BodyAsked ==
    ASSUME IndInv, NEW r \in Requests, apiPc[r] \in SaveSteps
    PROVE  apiReq[r].body \in savedFor(apiReq[r].id)
BY DEF IndInv, RequestsHold, savedFor

(* What a loader has read was asked for. *)
LoadedAsked ==
    \A i \in Ids, c \in Conns : pc[c] = "load" /\ cur[c].id = i => loaded[c] \in savedFor(i)

LEMMA LoadedStep ==
    ASSUME IndInv, NewRequests, LoadedAsked, ConfigProvenance, [Next]_vars
    PROVE  LoadedAsked'
<1> SUFFICES ASSUME NEW i \in Ids, NEW c \in Conns, pc'[c] = "load", cur'[c].id = i
             PROVE  loaded'[c] \in savedFor(i)'
  BY DEF LoadedAsked
<1>1. savedFor(i) \subseteq savedFor(i)'
  BY AskedKept
<1>2. TypeOK
  BY DEF IndInv
<1>3. ASSUME pc[c] = "load", cur'[c] = cur[c], loaded'[c] = loaded[c]
      PROVE  loaded'[c] \in savedFor(i)'
  BY <1>1, <1>3 DEF LoadedAsked
<1>4. ASSUME NEW m \in Messages, onMessage(c, m), readConfigFile(c, m)
      PROVE  loaded'[c] \in savedFor(i)'
  <2>1. m.id = i /\ cur'[c] = m /\ loaded'[c] = files[m.id][Canonical]
    BY <1>2, <1>4, ServerAssumption DEF onMessage, readConfigFile, TypeOK, AgentToServer
  <2>2. files[i][Canonical] \in savedFor(i)
    BY ServerAssumption DEF ConfigProvenance
  <2>3. QED
    BY <1>1, <2>1, <2>2
<1>5. ASSUME NEW d \in Conns, NEW m \in Messages, onMessage(d, m)
      PROVE  \/ d = c /\ readConfigFile(c, m)
             \/ pc[c] = "load" /\ cur'[c] = cur[c] /\ loaded'[c] = loaded[c]
  <2>1. CASE d = c
    <3>1. CASE readConfigFile(c, m)
      BY <2>1, <3>1
    <3>2. CASE FindAgentOf(d, m) \/ CreateAgent(d, m)
      <4>1. pc' = [pc EXCEPT ![d] = "update"]
        BY <3>2 DEF FindAgentOf, CreateAgent, Register
      <4>2. QED
        BY <1>2, <2>1, <4>1 DEF TypeOK
    <3>3. QED
      BY <1>5, <2>1, <3>1, <3>2 DEF onMessage
  <2>2. CASE d # c
    <3>1. /\ cur' = [cur EXCEPT ![d] = m]
          /\ \E p : pc' = [pc EXCEPT ![d] = p]
          /\ loaded' = loaded \/ \E b : loaded' = [loaded EXCEPT ![d] = b]
      BY <1>5 DEF onMessage, FindAgentOf, CreateAgent, readConfigFile, Register, diskVars
    <3>2. QED
      BY <1>2, <2>2, <3>1 DEF TypeOK
  <2>3. QED
    BY <2>1, <2>2
<1>6. ASSUME NEW d \in Conns,
             \/ loadPersistedConfig(d) \/ rejectMessage(d) \/ UpdateStatus(d) \/ SendResponse(d)
      PROVE  pc[c] = "load" /\ cur'[c] = cur[c] /\ loaded'[c] = loaded[c]
  <2>1. /\ \E p \in {"update", "respond", "idle"} : pc' = [pc EXCEPT ![d] = p]
        /\ cur' = cur \/ cur' = [cur EXCEPT ![d] = Nil]
        /\ loaded' = loaded \/ loaded' = [loaded EXCEPT ![d] = Nil]
    <3>1. ASSUME loadPersistedConfig(d) PROVE pc' = [pc EXCEPT ![d] = "update"]
      BY <1>2, <3>1, LoadTyping DEF Register
    <3>2. QED
      BY <1>6, <3>1 DEF loadPersistedConfig, rejectMessage, UpdateStatus, SendResponse, diskVars
  <2>2. QED
    BY <1>2, <2>1 DEF TypeOK
<1>7. ASSUME NEW d \in Conns, Accept(d) \/ PeerGone(d) \/ NetworkTake(d) \/ RemoveConnection(d)
      PROVE  UNCHANGED <<pc, cur, loaded>>
  BY <1>7 DEF Accept, PeerGone, NetworkTake, RemoveConnection, loopVars, diskVars
<1>8. ASSUME NEW r \in Requests,
             \/ ApiRequest(r) \/ persistFails(r) \/ createCertFails(r)
             \/ removeConfigFile(r) \/ openConfigFile(r) \/ writeConfigFile(r)
             \/ FindAgent(r) \/ SetCustomConfigForAgent(r) \/ SendToAgent(r)
      PROVE  UNCHANGED <<pc, cur, loaded>>
  BY <1>8 DEF ApiRequest, refuseRequest, handleSaveConfig, handleOffer, persistFails,
              createCertFails, removeConfigFile, openConfigFile, writeConfigFile, FindAgent,
              SetCustomConfigForAgent, SendToAgent, loopVars, diskVars
<1>9. ASSUME NEW r \in Requests,
             \/ saveNotified(r) \/ saveTimedOut(r) \/ OfferAgentConnectionSettings(r)
             \/ OfferConnectionSettings(r) \/ offerAnswered(r)
      PROVE  UNCHANGED <<pc, cur, loaded>>
  BY <1>9 DEF saveNotified, saveTimedOut, OfferAgentConnectionSettings, OfferConnectionSettings,
              offerAnswered, loopVars, diskVars
<1>10. ~ LoseMemory
  BY DEF LoseMemory
<1>11. CASE UNCHANGED vars
  BY <1>3, <1>11 DEF vars, loopVars, diskVars
<1>12. QED
  BY <1>3, <1>4, <1>5, <1>6, <1>7, <1>8, <1>9, <1>10, <1>11
     DEF Next, ServerNext, LoopStep, ApiStep, UpdateStatusPanics, Crash

(* Config files hold what was asked for. *)
LEMMA FilesAsked ==
    ASSUME IndInv, NewRequests, ConfigProvenance, [Next]_vars,
           NEW i \in Ids, NEW s \in Spellings
    PROVE  files'[i][s] \in savedFor(i)'
<1>1. files[i][s] \in savedFor(i) /\ savedFor(i) \subseteq savedFor(i)'
  BY AskedKept DEF ConfigProvenance
<1>2. {Nil, EmptyConfig, Garbled} \subseteq savedFor(i)'
  BY DEF savedFor
<1>3. files \in [Ids -> [Spellings -> Bodies \cup {Nil}]]
  BY DEF IndInv, TypeOK
<1>4. ASSUME NEW c \in Conns, loadPersistedConfig(c)
      PROVE  files'[i][s] \in {files[i][s], Nil}
  <2>1. \/ files' = files
        \/ files' = [files EXCEPT ![cur[c].id][Canonical] = Nil]
    BY <1>4, LoadTyping DEF IndInv
  <2>2. QED
    BY <1>3, <2>1
<1>5. ASSUME NEW r \in Requests, removeConfigFile(r) \/ openConfigFile(r) \/ writeConfigFile(r)
      PROVE  \/ files'[i][s] \in {files[i][s], Nil, EmptyConfig, Garbled}
             \/ files'[i][s] = apiReq[r].body /\ i = apiReq[r].id
  <2>1. PICK new : /\ files' = [files EXCEPT ![apiReq[r].id][apiReq[r].spelling] = new]
                   /\ new \in {Nil, EmptyConfig, Garbled, apiReq[r].body,
                               files[apiReq[r].id][apiReq[r].spelling]}
    <3>1. CASE removeConfigFile(r)
      BY <3>1 DEF removeConfigFile
    <3>2. CASE openConfigFile(r)
      BY <3>2 DEF openConfigFile
    <3>3. CASE writeConfigFile(r)
      <4>1. apiReq[r].id \in Ids /\ apiReq[r].spelling \in Spellings
        BY <3>3 DEF writeConfigFile, IndInv, RequestsHold, TypeOK, Request, SaveSteps
      <4>2. CASE r \in linked
        BY <3>3, <4>2 DEF writeConfigFile, Overwrite
      <4>3. CASE r \notin linked
        BY <1>3, <3>3, <4>1, <4>3 DEF writeConfigFile
      <4>4. QED
        BY <4>2, <4>3
    <3>4. QED
      BY <1>5, <3>1, <3>2, <3>3
  <2>2. QED
    BY <1>3, <2>1
<1>6. ASSUME NEW r \in Requests, removeConfigFile(r) \/ openConfigFile(r) \/ writeConfigFile(r)
      PROVE  apiReq[r].body \in savedFor(apiReq[r].id)
  BY <1>6, BodyAsked DEF removeConfigFile, openConfigFile, writeConfigFile, SaveSteps
<1>7. QED
  BY <1>1, <1>2, <1>4, <1>5, <1>6, FileSteps

(* Objects hold what was asked for. *)
LEMMA ObjectsAsked ==
    ASSUME IndInv, NewRequests, LoadedAsked, ConfigProvenance, [Next]_vars,
           NEW i \in Ids, NEW c \in Conns, heap'[i][c] # Nil
    PROVE  heap'[i][c].custom \in savedFor(i)'
<1>1. /\ savedFor(i) \subseteq savedFor(i)'
      /\ heap[i][c] # Nil => heap[i][c].custom \in savedFor(i)
  BY AskedKept DEF ConfigProvenance
<1>2. heap \in [Ids -> [Conns -> Agent \cup {Nil}]]
  BY DEF IndInv, TypeOK
<1>3. ASSUME NEW d \in Conns, UpdateStatus(d)
      PROVE  heap[i][c] # Nil /\ heap'[i][c].custom = heap[i][c].custom
  <2> DEFINE a == heap[cur[d].id][ref[d]]
             b == [processStatusUpdate(a, cur[d]) EXCEPT !.watchers = {}]
  <2>1. cur[d] \in AgentToServer /\ cur[d].id \in Ids /\ ref[d] \in Conns /\ a \in Agent
    BY <1>3, Updated
  <2>2. heap' = [heap EXCEPT ![cur[d].id][ref[d]] = b]
    BY <1>3 DEF UpdateStatus
  <2>3. b.custom = a.custom /\ a # Nil
    BY <2>1, UpdateTyping, ServerAssumption DEF Agent
  <2> HIDE DEF b
  <2>4. QED
    BY <1>2, <2>1, <2>2, <2>3
<1>4. ASSUME NEW d \in Conns, NEW j, Creates(d, j)
      PROVE  \/ heap'[i][c] = heap[i][c]
             \/ heap'[i][c].custom \in savedFor(i)
  <2>1. PICK a : /\ Register(d, j, a) /\ j \in Ids
                 /\ \/ a.custom \in {EmptyConfig, Garbled}
                    \/ pc[d] = "load" /\ cur[d].id = j /\ a.custom = loaded[d]
    BY <1>4, Created
  <2>2. a.custom \in savedFor(j)
    BY <2>1 DEF LoadedAsked, savedFor
  <2>3. heap' = [heap EXCEPT ![j][d] = a]
    BY <2>1 DEF Register
  <2>4. QED
    BY <1>2, <2>1, <2>2, <2>3
<1>5. ASSUME NEW r \in Requests, SetCustomConfigForAgent(r)
      PROVE  \/ heap'[i][c] = heap[i][c]
             \/ i = apiReq[r].id /\ heap'[i][c].custom = apiReq[r].body
  <2>1. /\ apiReq[r].id \in Ids /\ apiRef[r] \in Conns
        /\ heap[apiReq[r].id][apiRef[r]] \in Agent
        /\ apiReq[r].body \in Bodies
    BY <1>5, ConfigSet DEF IndInv, SetCustomConfigForAgent, SaveSteps, RequestsHold, TypeOK,
                          Request, Bodies
  <2> DEFINE b == SetCustomConfig(heap[apiReq[r].id][apiRef[r]], apiReq[r].body, r)
  <2>2. heap' = [heap EXCEPT ![apiReq[r].id][apiRef[r]] = b]
    BY <1>5 DEF SetCustomConfigForAgent
  <2>3. b.custom = apiReq[r].body
    BY <2>1, SetTyping
  <2> HIDE DEF b
  <2>4. QED
    BY <1>2, <2>1, <2>2, <2>3
<1>6. ASSUME NEW r \in Requests, SetCustomConfigForAgent(r)
      PROVE  apiReq[r].body \in savedFor(apiReq[r].id)
  BY <1>6, BodyAsked DEF SetCustomConfigForAgent, SaveSteps
<1>7. ASSUME NEW d \in Conns, Accept(d) \/ PeerGone(d) \/ RemoveConnection(d)
      PROVE  heap' = heap
  BY <1>7 DEF Accept, PeerGone, RemoveConnection
<1>8. ASSUME LoseMemory PROVE FALSE
  BY <1>8 DEF LoseMemory
<1>9. QED
  BY <1>1, <1>3, <1>4, <1>5, <1>6, <1>7, <1>8, Steps DEF Quiet

(* What a report is answered with comes from the object it is for.          *)
LEMMA AnswerOwn ==
    ASSUME IndInv, ConfigProvenance, NEW c \in Conns, UpdateStatus(c)
    PROVE  resp'[c].config \in savedFor(cur[c].id)
<1> DEFINE m == cur[c]
           a == heap[m.id][ref[c]]
<1>1. m \in AgentToServer /\ m.id \in Ids /\ ref[c] \in Conns /\ a \in Agent
  BY Updated
<1>2. a # Nil
  BY <1>1, ServerAssumption
<1>3. a.custom \in savedFor(m.id) /\ Nil \in savedFor(m.id)
  BY <1>1, <1>2 DEF ConfigProvenance, savedFor
<1>4. processStatusUpdate(a, m).remote = a.custom
  <2>1. \/ a.remote = a.custom
        \/ a.remote = Nil /\ a.status = Nil /\ a.custom = EmptyConfig
    BY <1>1, <1>2 DEF IndInv, RemoteConfigCurrent
  <2>2. processStatusUpdate(a, m).remote = processStatusUpdate(a, m).custom
    BY <1>1, <2>1, UpdateRemote
  <2>3. processStatusUpdate(a, m).custom = a.custom
    BY <1>1, UpdateTyping DEF Agent
  <2>4. QED
    BY <2>2, <2>3
<1>5. resp'[c] = statusResponse(a, m)
  BY DEF UpdateStatus, IndInv, TypeOK
<1> HIDE DEF a, m
<1>6. statusResponse(a, m).config \in {Nil, processStatusUpdate(a, m).remote}
  BY DEF statusResponse
<1>7. QED
  BY <1>3, <1>4, <1>5, <1>6 DEF m

(* Reports are answered with what was asked for their agent. *)
LEMMA AnswersAsked ==
    ASSUME IndInv, NewRequests, ConfigProvenance, [Next]_vars,
           NEW i \in Ids, NEW c \in Conns, pc'[c] = "respond", cur'[c] # Nil, cur'[c].id = i
    PROVE  resp'[c].config \in savedFor(i)'
<1>1. savedFor(i) \subseteq savedFor(i)'
  BY AskedKept
<1>2. TypeOK
  BY DEF IndInv
<1>3. ASSUME pc[c] = "respond", cur'[c] = cur[c], resp'[c] = resp[c]
      PROVE  resp'[c].config \in savedFor(i)'
  BY <1>1, <1>3 DEF ConfigProvenance
<1>4. ASSUME UpdateStatus(c)
      PROVE  resp'[c].config \in savedFor(i)'
  <2>1. cur'[c] = cur[c] /\ resp'[c].config \in savedFor(cur[c].id)
    BY <1>4, AnswerOwn DEF UpdateStatus
  <2>2. QED
    BY <1>1, <2>1
<1>5. ASSUME rejectMessage(c)
      PROVE  resp'[c].config \in savedFor(i)'
  <2>1. resp'[c].config = Nil
    BY <1>2, <1>5 DEF rejectMessage, TypeOK, EmptyMessage
  <2>2. QED
    BY <2>1 DEF savedFor
<1>6. ASSUME NEW d \in Conns,
             \/ loadPersistedConfig(d) \/ SendResponse(d)
             \/ \E m \in Messages : onMessage(d, m)
             \/ d # c /\ (UpdateStatus(d) \/ rejectMessage(d))
      PROVE  pc[c] = "respond" /\ cur'[c] = cur[c] /\ resp'[c] = resp[c]
  <2>1. /\ \E p : pc' = [pc EXCEPT ![d] = p] /\ (d = c => p # "respond")
        /\ cur' = cur \/ \E m : cur' = [cur EXCEPT ![d] = m]
        /\ resp' = resp \/ \E msg : resp' = [resp EXCEPT ![d] = msg]
    <3>1. ASSUME loadPersistedConfig(d)
          PROVE  pc' = [pc EXCEPT ![d] = "update"] /\ cur' = cur /\ resp' = resp
      BY <1>2, <3>1, LoadTyping DEF Register, loadPersistedConfig
    <3>2. ASSUME NEW m \in Messages, onMessage(d, m)
          PROVE  /\ \E p \in {"update", "load"} : pc' = [pc EXCEPT ![d] = p]
                 /\ cur' = [cur EXCEPT ![d] = m] /\ resp' = resp
      BY <3>2 DEF onMessage, FindAgentOf, CreateAgent, readConfigFile, Register
    <3>3. ASSUME UpdateStatus(d) \/ rejectMessage(d)
          PROVE  /\ pc' = [pc EXCEPT ![d] = "respond"] /\ cur' = cur
                 /\ \E msg : resp' = [resp EXCEPT ![d] = msg]
      BY <3>3 DEF UpdateStatus, rejectMessage
    <3>4. ASSUME SendResponse(d)
          PROVE  /\ pc' = [pc EXCEPT ![d] = "idle"] /\ cur' = [cur EXCEPT ![d] = Nil]
                 /\ resp' = [resp EXCEPT ![d] = EmptyMessage]
      BY <3>4 DEF SendResponse
    <3>5. QED
      BY <1>6, <3>1, <3>2, <3>3, <3>4
  <2>2. QED
    BY <1>2, <2>1 DEF TypeOK
<1>7. ASSUME NEW d \in Conns, Accept(d) \/ PeerGone(d) \/ NetworkTake(d) \/ RemoveConnection(d)
      PROVE  UNCHANGED <<pc, cur, resp>>
  BY <1>7 DEF Accept, PeerGone, NetworkTake, RemoveConnection, loopVars
<1>8. ASSUME NEW r \in Requests,
             \/ ApiRequest(r) \/ persistFails(r) \/ createCertFails(r)
             \/ removeConfigFile(r) \/ openConfigFile(r) \/ writeConfigFile(r)
             \/ FindAgent(r) \/ SetCustomConfigForAgent(r) \/ SendToAgent(r)
      PROVE  UNCHANGED <<pc, cur, resp>>
  BY <1>8 DEF ApiRequest, refuseRequest, handleSaveConfig, handleOffer, persistFails,
              createCertFails, removeConfigFile, openConfigFile, writeConfigFile, FindAgent,
              SetCustomConfigForAgent, SendToAgent, loopVars
<1>9. ASSUME NEW r \in Requests,
             \/ saveNotified(r) \/ saveTimedOut(r) \/ OfferAgentConnectionSettings(r)
             \/ OfferConnectionSettings(r) \/ offerAnswered(r)
      PROVE  UNCHANGED <<pc, cur, resp>>
  BY <1>9 DEF saveNotified, saveTimedOut, OfferAgentConnectionSettings, OfferConnectionSettings,
              offerAnswered, loopVars
<1>10. ~ LoseMemory
  BY DEF LoseMemory
<1>11. CASE UNCHANGED vars
  BY <1>3, <1>11 DEF vars, loopVars
<1>12. QED
  BY <1>3, <1>4, <1>5, <1>6, <1>7, <1>8, <1>9, <1>10, <1>11
     DEF Next, ServerNext, LoopStep, ApiStep, UpdateStatusPanics, Crash

(* What is kept in a file or an object for an agent, and what its reports   *)
(* are answered with, was saved for this very agent, or is empty, missing,  *)
(* or the mix of two accesses to its file: through requests in flight,      *)
(* files, crashes and reconnections (handleSaveConfig, loadPersistedConfig, *)
(* SetCustomConfig, processStatusUpdate).                                   *)
THEOREM ConfigsWereSaved == Spec => []ConfigProvenance
<1>1. Init => NewRequests /\ LoadedAsked /\ ConfigProvenance
  BY DEF Init, NewRequests, LoadedAsked, ConfigProvenance, savedFor
<1>2. IndInv /\ NewRequests /\ LoadedAsked /\ ConfigProvenance /\ [Next]_vars =>
        NewRequests' /\ LoadedAsked' /\ ConfigProvenance'
  <2> SUFFICES ASSUME IndInv, NewRequests, LoadedAsked, ConfigProvenance, [Next]_vars
               PROVE  NewRequests' /\ LoadedAsked' /\ ConfigProvenance'
    OBVIOUS
  <2>1. NewRequests' /\ LoadedAsked'
    BY AskedKept, LoadedStep
  <2>2. ConfigProvenance'
    BY FilesAsked, ObjectsAsked, AnswersAsked DEF ConfigProvenance
  <2>3. QED
    BY <2>1, <2>2
<1>3. QED
  BY <1>1, <1>2, Inductive, PTL DEF Spec
=============================================================================
