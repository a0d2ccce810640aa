----------------------------- MODULE OpAMPServer -----------------------------
(***************************************************************************)
(* The OpAMP server: the agent registry (data/agents.go), the message loop  *)
(* of every agent connection (server/server.go), the HTTP API that changes  *)
(* and persists agent configurations (server/ui.go), and the config         *)
(* directory, which survives a restart.                                     *)
(*                                                                          *)
(* A handler is split where it gives up a mutex or touches the disk: what   *)
(* one critical section does is one step, and everything else that runs     *)
(* concurrently may come between two of them.  No mutex guards the config   *)
(* directory: a load and a save interleave at every access to a file.       *)
(***************************************************************************)
EXTENDS AgentStatus, Sequences, FiniteSets

CONSTANTS
    Conns,          \* the connections accepted in one run of the model
    Spellings,      \* spellings of an id in a request; UUIDs are not case sensitive
    Canonical,      \* the spelling uuid.String() produces
    Messages,       \* the reports that arbitrary clients send
    MaxOutbox,      \* messages a connection buffers before Send blocks
    MaxCrashes,     \* bound on server crashes
    DiskFaults      \* whether file operations may fail

(* What the API is asked for: a body to save, or settings to offer. *)
Request ==
    [id : Ids, spelling : Spellings, body : Configs \cup {EmptyConfig},
     settings : SUBSET {"certificate", "tls"}]

ASSUME ServerAssumption ==
    /\ Nil \notin Conns \cup Requests \cup Request \cup Agent \cup AgentToServer
    /\ Conns \cap Requests = {}
    /\ Canonical \in Spellings
    /\ Messages \subseteq AgentToServer
    /\ MaxOutbox \in Nat \ {0}
    /\ MaxCrashes \in Nat
    /\ DiskFaults \in BOOLEAN

VARIABLES
    agentsById,     \* id -> the connection whose Agent object is registered, or Nil
    connections,    \* connection -> the ids registered through it
    heap,           \* id -> connection -> its Agent object, or Nil
    registryMux,    \* who holds agents.mux from one step to a later one: a request
                    \* that sends, a connection that loads a file, or Nil
    phase,          \* connection -> what became of it
    pc,             \* connection -> where its message loop is
    cur,            \* connection -> the report being handled
    ref,            \* connection -> whose Agent object that report is for
    resp,           \* connection -> the answer being sent
    outbox,         \* connection -> messages on their way to the peer
    apiPc,          \* request -> where its handler is
    apiReq,         \* request -> what it asks for
    apiRef,         \* request -> whose Agent object it found, or Nil
    chan,           \* request -> its notification channel holds a token
    linked,         \* requests whose open file is still in the directory
    files,          \* id -> spelling -> the config file's content, or Nil
    loaded,         \* connection -> what it has read of its agent's file, or Nil
    crashes         \* crashes so far

registryVars == <<agentsById, connections, registryMux>>
loopVars     == <<phase, pc, cur, ref, resp>>
apiVars      == <<apiPc, apiReq, apiRef, chan>>
diskVars     == <<linked, files, loaded>>
vars == <<registryVars, heap, loopVars, outbox, apiVars, diskVars, crashes>>

(* An Agent object is named by its id and the connection it was created on: *)
(* ObjectsAreFresh shows that no pair is ever used twice.                   *)

(* apiPc: a save goes through persist, write, lookup, set, send and wait;   *)
(* an offer of connection settings through offer, offering and delay.       *)
SaveSteps  == {"persist", "write", "lookup", "set", "send", "wait"}
OfferSteps == {"offer", "offering", "delay"}
Answers    == {"200", "400", "404", "408", "500", "aborted"}

TypeOK ==
    /\ agentsById \in [Ids -> Conns \cup {Nil}]
    /\ connections \in [Conns -> SUBSET Ids]
    /\ heap \in [Ids -> [Conns -> Agent \cup {Nil}]]
    /\ registryMux \in Requests \cup Conns \cup {Nil}
    /\ phase \in [Conns -> {"fresh", "open", "broken", "removed"}]
    /\ pc \in [Conns -> {"idle", "load", "update", "respond"}]
    /\ cur \in [Conns -> AgentToServer \cup {Nil}]
    /\ ref \in [Conns -> Conns \cup {Nil}]
    /\ resp \in [Conns -> ServerToAgent]
    /\ outbox \in [Conns -> Seq(ServerToAgent)]
    /\ apiPc \in [Requests -> {"new"} \cup SaveSteps \cup OfferSteps \cup Answers]
    /\ apiReq \in [Requests -> Request \cup {Nil}]
    /\ apiRef \in [Requests -> Conns \cup {Nil}]
    /\ chan \in [Requests -> BOOLEAN]
    /\ linked \subseteq Requests
    /\ files \in [Ids -> [Spellings -> Bodies \cup {Nil}]]
    /\ loaded \in [Conns -> Bodies \cup {Nil}]
    /\ crashes \in 0 .. MaxCrashes

Init ==
    /\ agentsById = [i \in Ids |-> Nil]
    /\ connections = [c \in Conns |-> {}]
    /\ heap = [i \in Ids |-> [c \in Conns |-> Nil]]
    /\ registryMux = Nil
    /\ phase = [c \in Conns |-> "fresh"]
    /\ pc = [c \in Conns |-> "idle"]
    /\ cur = [c \in Conns |-> Nil]
    /\ ref = [c \in Conns |-> Nil]
    /\ resp = [c \in Conns |-> EmptyMessage]
    /\ outbox = [c \in Conns |-> <<>>]
    /\ apiPc = [r \in Requests |-> "new"]
    /\ apiReq = [r \in Requests |-> Nil]
    /\ apiRef = [r \in Requests |-> Nil]
    /\ chan = [r \in Requests |-> FALSE]
    /\ linked = {}
    /\ files = [i \in Ids |-> [s \in Spellings |-> Nil]]
    /\ loaded = [c \in Conns |-> Nil]
    /\ crashes = 0

-----------------------------------------------------------------------------
(* Connections.  opamp-go runs one goroutine per WebSocket: OnMessage and   *)
(* OnConnectionClose never overlap on one connection.                       *)

(* OnConnecting accepts every connection. *)
Accept(c) ==
    /\ phase[c] = "fresh"
    /\ phase' = [phase EXCEPT ![c] = "open"]
    /\ UNCHANGED <<registryVars, heap, pc, cur, ref, resp, outbox, apiVars, diskVars, crashes>>

(* The peer is gone; what was buffered for it is lost. *)
PeerGone(c) ==
    /\ phase[c] = "open"
    /\ phase' = [phase EXCEPT ![c] = "broken"]
    /\ outbox' = [outbox EXCEPT ![c] = <<>>]
    /\ UNCHANGED <<registryVars, heap, pc, cur, ref, resp, apiVars, diskVars, crashes>>

(* The peer reads one message. *)
NetworkTake(c) ==
    /\ outbox[c] # <<>>
    /\ outbox' = [outbox EXCEPT ![c] = Tail(@)]
    /\ UNCHANGED <<registryVars, heap, loopVars, apiVars, diskVars, crashes>>

(* Connection.Send: blocks while the buffers are full; on a dead connection *)
(* it returns an error, which every caller ignores.                         *)
Send(c, msg) ==
    IF phase[c] = "open"
    THEN /\ Len(outbox[c]) < MaxOutbox
         /\ outbox' = [outbox EXCEPT ![c] = Append(@, msg)]
    ELSE UNCHANGED outbox

(* Mutant: a connection without agents is not cleaned up.                   *)
RemoveConnection_owned(c) ==
    /\ phase[c] = "broken"
    /\ pc[c] = "idle"
    /\ registryMux = Nil
    /\ connections[c] # {}
    /\ phase' = [phase EXCEPT ![c] = "removed"]
    /\ agentsById' = [i \in Ids |-> IF i \in connections[c] THEN Nil ELSE agentsById[i]]
    /\ connections' = [connections EXCEPT ![c] = {}]
    /\ UNCHANGED <<registryMux, heap, pc, cur, ref, resp, outbox, apiVars, diskVars, crashes>>

(* Mutant: agents.mux is not taken.                                         *)
RemoveConnection_unlocked(c) ==
    /\ phase[c] = "broken"
    /\ pc[c] = "idle"
    /\ phase' = [phase EXCEPT ![c] = "removed"]
    /\ agentsById' = [i \in Ids |-> IF i \in connections[c] THEN Nil ELSE agentsById[i]]
    /\ connections' = [connections EXCEPT ![c] = {}]
    /\ UNCHANGED <<registryMux, heap, pc, cur, ref, resp, outbox, apiVars, diskVars, crashes>>

(* onDisconnect and RemoveConnection *)
RemoveConnection(c) ==
    /\ phase[c] = "broken"
    /\ pc[c] = "idle"
    /\ registryMux = Nil
    /\ phase' = [phase EXCEPT ![c] = "removed"]
    /\ agentsById' = [i \in Ids |-> IF i \in connections[c] THEN Nil ELSE agentsById[i]]
    /\ connections' = [connections EXCEPT ![c] = {}]
    /\ UNCHANGED <<registryMux, heap, pc, cur, ref, resp, outbox, apiVars, diskVars, crashes>>

-----------------------------------------------------------------------------
(* onMessage *)

(* os.Remove: a file somebody has open loses its name, not its content.     *)
Unlink(i, s) ==
    linked \ {r \in Requests : apiReq[r] # Nil /\ apiReq[r].id = i /\ apiReq[r].spelling = s}

(* Mutant: a known agent is associated with the new connection, too.        *)
FindAgentOf_associates(c, m) ==
    /\ agentsById[m.id] # Nil
    /\ ref' = [ref EXCEPT ![c] = agentsById[m.id]]
    /\ connections' = [connections EXCEPT ![c] = @ \cup {m.id}]
    /\ pc' = [pc EXCEPT ![c] = "update"]
    /\ UNCHANGED <<agentsById, registryMux, heap, diskVars>>

(* FindOrCreateAgent, agent known: it keeps the connection it came with.    *)
FindAgentOf(c, m) ==
    /\ agentsById[m.id] # Nil
    /\ ref' = [ref EXCEPT ![c] = agentsById[m.id]]
    /\ pc' = [pc EXCEPT ![c] = "update"]
    /\ UNCHANGED <<registryVars, heap, diskVars>>

(* The end of FindOrCreateAgent, agent unknown.  agents.mux is held from    *)
(* the look-up on, so that nobody sees the agent before its file is loaded. *)
Register(c, i, agent) ==
    /\ heap' = [heap EXCEPT ![i][c] = agent]
    /\ agentsById' = [agentsById EXCEPT ![i] = c]
    /\ connections' = [connections EXCEPT ![c] = @ \cup {i}]
    /\ ref' = [ref EXCEPT ![c] = c]
    /\ pc' = [pc EXCEPT ![c] = "update"]

(* Mutants: an agent known from another connection is replaced; a file that *)
(* cannot be read is deleted like a corrupted one.                          *)
CreateAgent_replaces(c, m) ==
    /\ agentsById[m.id] # c
    /\ files[m.id][Canonical] = Nil \/ DiskFaults
    /\ Register(c, m.id, NewAgent)
    /\ UNCHANGED <<registryMux, diskVars>>

CreateAgent_deletes(c, m) ==
    /\ agentsById[m.id] = Nil
    /\ files[m.id][Canonical] = Nil \/ DiskFaults
    /\ Register(c, m.id, NewAgent)
    /\ files' = [files EXCEPT ![m.id][Canonical] = Nil]
    /\ linked' = Unlink(m.id, Canonical)
    /\ UNCHANGED <<registryMux, loaded>>

(* FindOrCreateAgent, agent unknown and no file, or none that can be read.  *)
CreateAgent(c, m) ==
    /\ agentsById[m.id] = Nil
    /\ files[m.id][Canonical] = Nil \/ DiskFaults
    /\ Register(c, m.id, NewAgent)
    /\ UNCHANGED <<registryMux, diskVars>>

(* FindOrCreateAgent, agent unknown, up to os.ReadFile: the content is read *)
(* while agents.mux is held, which no save takes to write the file.         *)
readConfigFile(c, m) ==
    /\ agentsById[m.id] = Nil
    /\ files[m.id][Canonical] # Nil
    /\ loaded' = [loaded EXCEPT ![c] = files[m.id][Canonical]]
    /\ registryMux' = c
    /\ pc' = [pc EXCEPT ![c] = "load"]
    /\ UNCHANGED <<agentsById, connections, heap, ref, linked, files>>

onMessage(c, m) ==
    /\ phase[c] = "open"
    /\ pc[c] = "idle"
    /\ registryMux = Nil
    /\ FindAgentOf(c, m) \/ CreateAgent(c, m) \/ readConfigFile(c, m)
    /\ cur' = [cur EXCEPT ![c] = m]
    /\ UNCHANGED <<phase, resp, outbox, apiVars, crashes>>

(* A file written over while os.ReadFile reads it may come out mixed.       *)
contentRead(c) ==
    LET now == files[cur[c].id][Canonical]
    IN  IF loaded[c] = EmptyConfig \/ now \in {loaded[c], Nil, EmptyConfig}
        THEN {loaded[c]}
        ELSE {loaded[c], Garbled}

useConfig(c, content) ==
    /\ content \in Configs \cup {Garbled}
    /\ Register(c, cur[c].id, calcRemoteConfig([NewAgent EXCEPT !.custom = content]))
    /\ UNCHANGED <<linked, files>>

(* What is no YAML object is not used, and whatever file has the name by    *)
(* now is removed (unless that fails).                                      *)
skipConfig(c, content) ==
    /\ content \in {EmptyConfig, Garbled}
    /\ Register(c, cur[c].id, NewAgent)
    /\ \/ /\ files' = [files EXCEPT ![cur[c].id][Canonical] = Nil]
          /\ linked' = Unlink(cur[c].id, Canonical)
       \/ DiskFaults /\ UNCHANGED <<linked, files>>

(* The rest of loadPersistedConfig and of FindOrCreateAgent.  A garbled     *)
(* content may or may not be a YAML object.                                 *)
loadPersistedConfig(c) ==
    /\ pc[c] = "load"
    /\ \E content \in contentRead(c) : useConfig(c, content) \/ skipConfig(c, content)
    /\ registryMux' = Nil
    /\ loaded' = [loaded EXCEPT ![c] = Nil]
    /\ UNCHANGED <<phase, cur, resp, outbox, apiVars, crashes>>

(* onMessage with an InstanceUid that is no id: an empty answer. *)
rejectMessage(c) ==
    /\ phase[c] = "open"
    /\ pc[c] = "idle"
    /\ pc' = [pc EXCEPT ![c] = "respond"]
    /\ resp' = [resp EXCEPT ![c] = EmptyMessage]
    /\ UNCHANGED <<registryVars, heap, phase, cur, ref, outbox, apiVars, diskVars, crashes>>

(* Mutants: watchers are dropped unnotified while the config is offered     *)
(* again; watchers stay registered after they were notified.                *)
UpdateStatus_drops(c) ==
    /\ pc[c] = "update"
    /\ cur[c].csr # "bad_signature"
    /\ LET m == cur[c]
           a == heap[m.id][ref[c]]
       IN  /\ heap' = [heap EXCEPT ![m.id][ref[c]] =
                          [processStatusUpdate(a, m) EXCEPT !.watchers = {}]]
           /\ resp' = [resp EXCEPT ![c] = statusResponse(a, m)]
           /\ chan' = [r \in Requests |->
                         chan[r] \/ (r \in a.watchers /\ ~ offersConfig(a, m))]
    /\ pc' = [pc EXCEPT ![c] = "respond"]
    /\ UNCHANGED <<registryVars, phase, cur, ref, outbox, apiPc, apiReq, apiRef, diskVars, crashes>>

UpdateStatus_keeps(c) ==
    /\ pc[c] = "update"
    /\ cur[c].csr # "bad_signature"
    /\ LET m == cur[c]
           a == heap[m.id][ref[c]]
       IN  /\ heap' = [heap EXCEPT ![m.id][ref[c]] = processStatusUpdate(a, m)]
           /\ resp' = [resp EXCEPT ![c] = statusResponse(a, m)]
           /\ chan' = [r \in Requests |-> chan[r] \/ r \in a.watchers]
    /\ pc' = [pc EXCEPT ![c] = "respond"]
    /\ UNCHANGED <<registryVars, phase, cur, ref, outbox, apiPc, apiReq, apiRef, diskVars, crashes>>

(* UpdateStatus: one critical section of agent.mux; the watchers it takes   *)
(* are notified right after it, by sends that never block.                  *)
UpdateStatus(c) ==
    /\ pc[c] = "update"
    /\ cur[c].csr # "bad_signature"
    /\ LET m == cur[c]
           a == heap[m.id][ref[c]]
       IN  /\ heap' = [heap EXCEPT ![m.id][ref[c]] =
                          [processStatusUpdate(a, m) EXCEPT !.watchers = {}]]
           /\ resp' = [resp EXCEPT ![c] = statusResponse(a, m)]
           /\ chan' = [r \in Requests |-> chan[r] \/ r \in a.watchers]
    /\ pc' = [pc EXCEPT ![c] = "respond"]
    /\ UNCHANGED <<registryVars, phase, cur, ref, outbox, apiPc, apiReq, apiRef, diskVars, crashes>>

(* opamp-go sends what onMessage returned, then reads the next message. *)
SendResponse(c) ==
    /\ pc[c] = "respond"
    /\ Send(c, resp[c])
    /\ pc' = [pc EXCEPT ![c] = "idle"]
    /\ cur' = [cur EXCEPT ![c] = Nil]
    /\ ref' = [ref EXCEPT ![c] = Nil]
    /\ resp' = [resp EXCEPT ![c] = EmptyMessage]
    /\ UNCHANGED <<registryVars, heap, phase, apiVars, diskVars, crashes>>

-----------------------------------------------------------------------------
(* handleSaveConfig *)

Answer(r, code) == apiPc' = [apiPc EXCEPT ![r] = code]
Goto(r, step)   == apiPc' = [apiPc EXCEPT ![r] = step]

(* A malformed id or body is refused, an unknown agent, and (once the agent *)
(* is known) a config that is no YAML object or an unknown TLS version.     *)
refuseRequest(r, i) ==
    /\ apiPc[r] = "new"
    /\ \/ Answer(r, "400")
       \/ registryMux = Nil /\ agentsById[i] = Nil /\ Answer(r, "404")
    /\ UNCHANGED <<registryVars, heap, loopVars, outbox, apiReq, apiRef, chan, diskVars, crashes>>

handleSaveConfig(r, i, s, body) ==
    /\ apiPc[r] = "new"
    /\ registryMux = Nil
    /\ agentsById[i] # Nil
    /\ apiReq' = [apiReq EXCEPT ![r] = [id |-> i, spelling |-> s, body |-> body, settings |-> {}]]
    /\ Goto(r, "persist")
    /\ UNCHANGED <<registryVars, heap, loopVars, outbox, apiRef, chan, diskVars, crashes>>

(* An empty config clears: the file is removed. *)
removeConfigFile(r) ==
    /\ apiPc[r] = "persist"
    /\ apiReq[r].body = EmptyConfig
    /\ files' = [files EXCEPT ![apiReq[r].id][apiReq[r].spelling] = Nil]
    /\ linked' = Unlink(apiReq[r].id, apiReq[r].spelling)
    /\ Goto(r, "lookup")
    /\ UNCHANGED <<registryVars, heap, loopVars, outbox, apiReq, apiRef, chan, loaded, crashes>>

(* os.WriteFile is two steps: open with O_CREATE and O_TRUNC ... *)
openConfigFile(r) ==
    /\ apiPc[r] = "persist"
    /\ apiReq[r].body # EmptyConfig
    /\ files' = [files EXCEPT ![apiReq[r].id][apiReq[r].spelling] = EmptyConfig]
    /\ linked' = linked \cup {r}
    /\ Goto(r, "write")
    /\ UNCHANGED <<registryVars, heap, loopVars, outbox, apiReq, apiRef, chan, loaded, crashes>>

(* ... and write at offset 0: over what another request may have written    *)
(* since, or into a file that has lost its name.                            *)
Overwrite(old, body) == IF old \in {Nil, EmptyConfig, body} THEN {body} ELSE {body, Garbled}

writeConfigFile(r) ==
    LET i == apiReq[r].id
        s == apiReq[r].spelling
    IN  /\ apiPc[r] = "write"
        /\ IF r \in linked
           THEN \E new \in Overwrite(files[i][s], apiReq[r].body) :
                   files' = [files EXCEPT ![i][s] = new]
           ELSE UNCHANGED files
        /\ linked' = linked \ {r}
        /\ Goto(r, "lookup")
        /\ UNCHANGED <<registryVars, heap, loopVars, outbox, apiReq, apiRef, chan, loaded, crashes>>

(* A failing file operation: 500, and nothing is set or sent.  A write that *)
(* fails leaves the file as the open left it.                               *)
persistFails(r) ==
    /\ DiskFaults
    /\ apiPc[r] \in {"persist", "write"}
    /\ linked' = linked \ {r}
    /\ Answer(r, "500")
    /\ UNCHANGED <<registryVars, heap, loopVars, outbox, apiReq, apiRef, chan, files, loaded, crashes>>

(* SetCustomConfigForAgent: FindAgent under agents.mux.  No agent: nobody   *)
(* will notify the channel, and the handler waits for its timer.            *)
FindAgent(r) ==
    /\ apiPc[r] = "lookup"
    /\ registryMux = Nil
    /\ apiRef' = [apiRef EXCEPT ![r] = agentsById[apiReq[r].id]]
    /\ Goto(r, IF agentsById[apiReq[r].id] = Nil THEN "wait" ELSE "set")
    /\ UNCHANGED <<registryVars, heap, loopVars, outbox, apiReq, chan, diskVars, crashes>>

(* Mutant: the config is set on every agent of the connection.              *)
SetCustomConfigForAgent_all(r) ==
    LET i == apiReq[r].id
        b == SetCustomConfig(heap[i][apiRef[r]], apiReq[r].body, r)
    IN  /\ apiPc[r] = "set"
        /\ heap' = [j \in Ids |->
                      IF heap[j][apiRef[r]] = Nil THEN heap[j]
                      ELSE [heap[j] EXCEPT ![apiRef[r]] = SetCustomConfig(@, apiReq[r].body, r)]]
        /\ IF r \in b.watchers
           THEN Goto(r, "send") /\ UNCHANGED chan
           ELSE Goto(r, "wait") /\ chan' = [chan EXCEPT ![r] = TRUE]
        /\ UNCHANGED <<registryVars, loopVars, outbox, apiReq, apiRef, diskVars, crashes>>

(* SetCustomConfig under agent.mux; an unchanged config notifies at once.   *)
SetCustomConfigForAgent(r) ==
    LET i == apiReq[r].id
        a == heap[i][apiRef[r]]
        b == SetCustomConfig(a, apiReq[r].body, r)
    IN  /\ apiPc[r] = "set"
        /\ heap' = [heap EXCEPT ![i][apiRef[r]] = b]
        /\ IF r \in b.watchers
           THEN Goto(r, "send") /\ UNCHANGED chan
           ELSE Goto(r, "wait") /\ chan' = [chan EXCEPT ![r] = TRUE]
        /\ UNCHANGED <<registryVars, loopVars, outbox, apiReq, apiRef, diskVars, crashes>>

(* Mutant: the config goes out on every connection that has room.           *)
SendToAgent_broadcasts(r) ==
    LET hears(c) == phase[c] = "open" /\ Len(outbox[c]) < MaxOutbox
    IN  /\ apiPc[r] = "send"
        /\ outbox' = [c \in Conns |->
                         IF hears(c)
                         THEN Append(outbox[c], [EmptyMessage EXCEPT !.config = apiReq[r].body])
                         ELSE outbox[c]]
        /\ Goto(r, "wait")
        /\ UNCHANGED <<registryVars, heap, loopVars, apiReq, apiRef, chan, diskVars, crashes>>

(* SendToAgent, after the mutex is released: on the connection the object   *)
(* was created with.                                                        *)
SendToAgent(r) ==
    /\ apiPc[r] = "send"
    /\ Send(apiRef[r], [EmptyMessage EXCEPT !.config = apiReq[r].body])
    /\ Goto(r, "wait")
    /\ UNCHANGED <<registryVars, heap, loopVars, apiReq, apiRef, chan, diskVars, crashes>>

(* The select: a token in the channel, or the 5 second timer. *)
saveNotified(r) ==
    /\ apiPc[r] = "wait"
    /\ chan[r]
    /\ chan' = [chan EXCEPT ![r] = FALSE]
    /\ Answer(r, "200")
    /\ UNCHANGED <<registryVars, heap, loopVars, outbox, apiReq, apiRef, diskVars, crashes>>

saveTimedOut(r) ==
    /\ apiPc[r] = "wait"
    /\ Answer(r, "408")
    /\ UNCHANGED <<registryVars, heap, loopVars, outbox, apiReq, apiRef, chan, diskVars, crashes>>

-----------------------------------------------------------------------------
(* handleRotateCertificate and handleConnectionSettings *)

handleOffer(r, i, setting) ==
    /\ apiPc[r] = "new"
    /\ registryMux = Nil
    /\ agentsById[i] # Nil
    /\ apiReq' = [apiReq EXCEPT ![r] = [id |-> i, spelling |-> Canonical, body |-> EmptyConfig,
                                        settings |-> {setting}]]
    /\ Goto(r, "offer")
    /\ UNCHANGED <<registryVars, heap, loopVars, outbox, apiRef, chan, diskVars, crashes>>

(* Both offers read the CA files: certman.CreateTLSCert returns an error,   *)
(* opampCA panics, which net/http catches and closes the request.           *)
createCertFails(r) ==
    /\ DiskFaults
    /\ apiPc[r] = "offer"
    /\ Answer(r, IF apiReq[r].settings = {"certificate"} THEN "500" ELSE "aborted")
    /\ UNCHANGED <<registryVars, heap, loopVars, outbox, apiReq, apiRef, chan, diskVars, crashes>>

(* OfferAgentConnectionSettings takes agents.mux, looks the agent up ... *)
OfferAgentConnectionSettings(r) ==
    LET found == agentsById[apiReq[r].id]
    IN  /\ apiPc[r] = "offer"
        /\ registryMux = Nil
        /\ apiRef' = [apiRef EXCEPT ![r] = found]
        /\ IF found = Nil
           THEN Goto(r, "delay") /\ UNCHANGED registryMux
           ELSE Goto(r, "offering") /\ registryMux' = r
        /\ UNCHANGED <<agentsById, connections, heap, loopVars, outbox, apiReq, chan, diskVars, crashes>>

(* Mutant: a send that fails leaves the mutex locked.                       *)
OfferConnectionSettings_locked(r) ==
    /\ apiPc[r] = "offering"
    /\ Send(apiRef[r], [EmptyMessage EXCEPT !.settings = apiReq[r].settings])
    /\ registryMux' = IF phase[apiRef[r]] = "open" THEN Nil ELSE r
    /\ Goto(r, "delay")
    /\ UNCHANGED <<agentsById, connections, heap, loopVars, apiReq, apiRef, chan, diskVars, crashes>>

(* ... and still holds it while it sends. *)
OfferConnectionSettings(r) ==
    /\ apiPc[r] = "offering"
    /\ Send(apiRef[r], [EmptyMessage EXCEPT !.settings = apiReq[r].settings])
    /\ registryMux' = Nil
    /\ Goto(r, "delay")
    /\ UNCHANGED <<agentsById, connections, heap, loopVars, apiReq, apiRef, chan, diskVars, crashes>>

(* The 5 second wait ends; the answer is 200 whatever happened. *)
offerAnswered(r) ==
    /\ apiPc[r] = "delay"
    /\ Answer(r, "200")
    /\ UNCHANGED <<registryVars, heap, loopVars, outbox, apiReq, apiRef, chan, diskVars, crashes>>

-----------------------------------------------------------------------------
(* A crash loses everything but the files.  Requests in flight never get    *)
(* an answer, and every connection breaks.                                  *)
LoseMemory ==
    /\ agentsById' = [i \in Ids |-> Nil]
    /\ connections' = [c \in Conns |-> {}]
    /\ heap' = [i \in Ids |-> [c \in Conns |-> Nil]]
    /\ registryMux' = Nil
    /\ phase' = [c \in Conns |-> IF phase[c] = "fresh" THEN "fresh" ELSE "removed"]
    /\ pc' = [c \in Conns |-> "idle"]
    /\ cur' = [c \in Conns |-> Nil]
    /\ ref' = [c \in Conns |-> Nil]
    /\ resp' = [c \in Conns |-> EmptyMessage]
    /\ outbox' = [c \in Conns |-> <<>>]
    /\ apiPc' = [r \in Requests |-> IF apiPc[r] \in SaveSteps \cup OfferSteps
                                    THEN "aborted" ELSE apiPc[r]]
    /\ chan' = [r \in Requests |-> FALSE]
    /\ linked' = {}
    /\ loaded' = [c \in Conns |-> Nil]
    /\ UNCHANGED <<apiReq, apiRef, files>>

Crash ==
    /\ crashes < MaxCrashes
    /\ crashes' = crashes + 1
    /\ LoseMemory

(* UpdateStatus on a CSR whose signature does not verify: the error path    *)
(* of processConnectionSettingsRequest calls err.Error() on a nil error.    *)
UpdateStatusPanics(c) ==
    /\ pc[c] = "update"
    /\ cur[c].csr = "bad_signature"
    /\ LoseMemory
    /\ UNCHANGED crashes

-----------------------------------------------------------------------------
(* Steps of the server's own goroutines, which the Go scheduler runs. *)
LoopStep(c) ==
    loadPersistedConfig(c) \/ UpdateStatus(c) \/ SendResponse(c) \/ RemoveConnection(c)

ApiStep(r) ==
    \/ removeConfigFile(r) \/ openConfigFile(r) \/ writeConfigFile(r)
    \/ FindAgent(r) \/ SetCustomConfigForAgent(r) \/ SendToAgent(r)
    \/ saveNotified(r) \/ saveTimedOut(r)
    \/ OfferAgentConnectionSettings(r) \/ OfferConnectionSettings(r) \/ offerAnswered(r)

(* Requests that arrive at the API. *)
ApiRequest(r) ==
    \E i \in Ids :
      \/ refuseRequest(r, i)
      \/ \E s \in Spellings, body \in Configs \cup {EmptyConfig} : handleSaveConfig(r, i, s, body)
      \/ \E setting \in {"certificate", "tls"} : handleOffer(r, i, setting)

ServerNext ==
    \/ \E c \in Conns : LoopStep(c) \/ UpdateStatusPanics(c)
    \/ \E r \in Requests : ApiRequest(r) \/ ApiStep(r) \/ persistFails(r) \/ createCertFails(r)
    \/ Crash

Next ==
    \/ ServerNext
    \/ \E c \in Conns :
         \/ Accept(c) \/ PeerGone(c) \/ NetworkTake(c) \/ rejectMessage(c)
         \/ \E m \in Messages : onMessage(c, m)

Spec == Init /\ [][Next]_vars

(* Goroutines run, files answer, timers fire.  The sends to one connection  *)
(* queue on its sync.Mutex, which does not starve a waiter: strong fairness.*)
ServerFairness ==
    /\ \A c \in Conns : /\ WF_vars(loadPersistedConfig(c)) /\ WF_vars(UpdateStatus(c))
                        /\ WF_vars(RemoveConnection(c)) /\ SF_vars(SendResponse(c))
    /\ \A r \in Requests : /\ WF_vars(ApiStep(r))
                           /\ SF_vars(SendToAgent(r)) /\ SF_vars(OfferConnectionSettings(r))

(* The peer of an open connection reads what it is sent, or the connection  *)
(* breaks.                                                                  *)
FairSpec == Spec /\ ServerFairness /\ \A c \in Conns : WF_vars(NetworkTake(c))

-----------------------------------------------------------------------------
(* Properties. *)

watchersOf(i, c) == IF heap[i][c] = Nil THEN {} ELSE heap[i][c].watchers

(* The two maps of Agents agree: an id is listed under exactly the          *)
(* connection its registered Agent was created on, and that connection has  *)
(* not been removed.  Otherwise RemoveConnection leaves an agent listed     *)
(* forever, or drops one that is still connected.                           *)
RegistryConsistent ==
    \A i \in Ids, c \in Conns :
      /\ i \in connections[c] <=> agentsById[i] = c
      /\ agentsById[i] = c => heap[i][c] # Nil /\ phase[c] \in {"open", "broken"}

(* processStatusUpdate dereferences agent.remoteConfig, and the API shows   *)
(* CustomInstanceConfig: once an agent has reported or has a custom config, *)
(* its remote config exists and is built from the custom one.               *)
RemoteConfigCurrent ==
    \A i \in Ids, c \in Conns :
      LET a == heap[i][c]
      IN  a # Nil => \/ a.remote = a.custom
                     \/ a.remote = Nil /\ a.status = Nil /\ a.custom = EmptyConfig

(* No lost wake-up between SetCustomConfig and UpdateStatus: a save that    *)
(* found its agent and waits either has its token already or is still       *)
(* registered with that agent.                                              *)
WaiterNotForgotten ==
    \A r \in Requests :
      apiPc[r] \in {"send", "wait"} =>
        chan[r] \/ apiRef[r] = Nil \/ r \in watchersOf(apiReq[r].id, apiRef[r])

(* The channel of a save has one slot and SetCustomConfig's own send into   *)
(* it would block: it is notified at most once, by one agent object.        *)
ChannelHasRoom ==
    \A r \in Requests :
      LET registered == {o \in Ids \X Conns : r \in watchersOf(o[1], o[2])}
      IN  /\ Cardinality(registered) <= 1
          /\ chan[r] => registered = {}
          /\ apiPc[r] \in {"persist", "write", "lookup", "set"} => registered = {} /\ ~ chan[r]

(* What was asked to be saved for agent i, and what its file can be besides. *)
savedFor(i) ==
    {apiReq[r].body : r \in {q \in Requests : apiReq[q] # Nil /\ apiReq[q].id = i}}
    \cup {Nil, EmptyConfig, Garbled}

(* A config that is kept for an agent, read back from its file, or sent in  *)
(* answer to its report was saved for this very agent; else it is empty, or *)
(* the mix of two accesses to this agent's file.                            *)
ConfigProvenance ==
    \A i \in Ids :
      /\ \A s \in Spellings : files[i][s] \in savedFor(i)
      /\ \A c \in Conns :
           /\ heap[i][c] # Nil => heap[i][c].custom \in savedFor(i)
           /\ pc[c] = "respond" /\ cur[c] # Nil /\ cur[c].id = i => resp[c].config \in savedFor(i)

(* agents.mux is held by the request that is offering connection settings   *)
(* or by the connection that is loading a file, never by two nor by one     *)
(* that is done with it.  The agent an offer found stays registered until   *)
(* its send is over: an offer, unlike a saved config, never goes to an      *)
(* object that was removed meanwhile.                                       *)
OfferHoldsRegistry ==
    /\ \A r \in Requests :
         /\ registryMux = r <=> apiPc[r] = "offering"
         /\ apiPc[r] = "offering" => agentsById[apiReq[r].id] = apiRef[r]
    /\ \A c \in Conns : registryMux = c <=> pc[c] = "load"

(* An Agent object that enters the registry is new: its name was never used *)
(* before in this life of the server.                                       *)
ObjectsAreFresh ==
    [][\A i \in Ids, c \in Conns :
         agentsById'[i] = c /\ agentsById[i] # c => heap[i][c] = Nil]_vars

(* A config file that is complete changes only by a save of that very file  *)
(* or by a loader that read something else before: what a restart finds     *)
(* complete, neither reconnecting agents nor a failing disk lose.  (What a  *)
(* save completes between a loader's os.ReadFile and os.Remove, they do.)   *)
SavedFileKept ==
    [][\A i \in Ids, s \in Spellings :
         files[i][s] \in Configs /\ files'[i][s] # files[i][s] =>
           \/ \E r \in Requests : /\ apiPc[r] \in {"persist", "write"}
                                  /\ apiPc'[r] # apiPc[r]
                                  /\ apiReq[r].id = i /\ apiReq[r].spelling = s
           \/ \E c \in Conns : /\ pc[c] = "load" /\ pc'[c] # "load"
                               /\ cur[c].id = i /\ s = Canonical
                               /\ loaded[c] # files[i][s]]_vars

(* Every accepted API request is answered (or dies with the server): no     *)
(* send of another request can hold agents.mux forever.                     *)
RequestAnswered ==
    \A r \in Requests : apiPc[r] \in SaveSteps \cup OfferSteps ~> apiPc[r] \in Answers

(* Every report is answered and every broken connection is cleaned up.      *)
LoopProgress ==
    \A c \in Conns : /\ pc[c] # "idle" ~> pc[c] = "idle"
                     /\ phase[c] = "broken" ~> phase[c] = "removed"

-----------------------------------------------------------------------------
(* What comments and messages of the code say, and the code does not do.    *)

(* handleSaveConfig logs "Persisted configuration for agent ..." once       *)
(* os.WriteFile returned: with a single save and no failing disk, its       *)
(* config is then in its file.  (A loader may come between the two steps of *)
(* os.WriteFile, and between os.ReadFile and os.Remove another save.)       *)
PersistedIsOnDisk ==
    \A r \in Requests :
      /\ apiPc[r] \in {"lookup", "set", "send", "wait"}
      /\ apiReq[r].body \in Configs
      => files[apiReq[r].id][apiReq[r].spelling] = apiReq[r].body
=============================================================================
