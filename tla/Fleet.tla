-------------------------------- MODULE Fleet --------------------------------
(***************************************************************************)
(* The OpAMP server together with the agents it manages.  An agent is       *)
(* external code (the supervisor that setup-supervisor.sh configures, built *)
(* on opamp-go's client); it is modelled from what the server relies on:    *)
(* the first report on a connection is full, later ones carry only what     *)
(* changed, sequence numbers count reports, heartbeats keep coming, and an  *)
(* offered config is applied and reported.                                  *)
(***************************************************************************)
EXTENDS OpAMPServer

CONSTANTS
    Caps,           \* what the agents report, beyond their description
    MaxChanges      \* bound on changes of what the agents report

(* What these agents may report, whole or in part. *)
Reports ==
    [id    : Ids,
     seq   : 0 .. SeqModulus - 1,
     caps  : {Caps},
     descr : Descriptions \cup {Nil},
     rcs   : Hashes \cup {Nil},
     eff   : Bodies \cup {Nil},
     rest  : SUBSET ({"health"} \cap Caps),
     csr   : {"none"}]

(* The server is there for them, and may be for other clients, too.         *)
ASSUME FleetAssumption ==
    /\ Caps \subseteq Fields
    /\ MaxChanges \in Nat
    /\ Reports \subseteq Messages

VARIABLES
    link,           \* agent -> the connection it believes in, or Nil
    seqNum,         \* agent -> sequence number of its next report
    applied,        \* agent -> the remote config it runs with, or Nil
    descr,          \* agent -> its description
    dirty,          \* agent -> what changed since its last report
    needFull,       \* agent -> its next report must be full
    changes         \* changes of descriptions and health so far

agentVars == <<link, seqNum, applied, descr, dirty, needFull, changes>>
fleetVars == <<vars, agentVars>>

FleetInit ==
    /\ Init
    /\ link = [i \in Ids |-> Nil]
    /\ seqNum = [i \in Ids |-> 0]
    /\ applied = [i \in Ids |-> Nil]
    /\ descr \in [Ids -> Descriptions]
    /\ dirty = [i \in Ids |-> {}]
    /\ needFull = [i \in Ids |-> TRUE]
    /\ changes = 0

-----------------------------------------------------------------------------
(* Agents. *)

(* The report an agent sends now.  An agent without a remote config runs    *)
(* with its local one, whose effective config the server sees as empty.     *)
Report(i) ==
    LET tells(what) == needFull[i] \/ what \in dirty[i]
    IN  [id    |-> i,
         seq   |-> seqNum[i],
         caps  |-> Caps,
         descr |-> IF tells("descr") THEN descr[i] ELSE Nil,
         rcs   |-> IF "remote_config_status" \notin Caps \/ ~ tells("config") THEN Nil
                   ELSE IF applied[i] = Nil THEN <<>> ELSE ConfigHash(applied[i]),
         eff   |-> IF "effective_config" \notin Caps \/ ~ tells("config") THEN Nil
                   ELSE orElse(applied[i], EmptyConfig),
         rest  |-> (IF tells("health") THEN {"health"} ELSE {}) \cap Caps,
         csr   |-> "none"]

AgentConnect(i) ==
    /\ link[i] = Nil
    /\ \E c \in Conns : Accept(c) /\ link' = [link EXCEPT ![i] = c]
    /\ needFull' = [needFull EXCEPT ![i] = TRUE]
    /\ UNCHANGED <<seqNum, applied, descr, dirty, changes>>

(* A report reaches the server: a full one, a delta, or a heartbeat. *)
AgentReport(i) ==
    /\ link[i] # Nil
    /\ onMessage(link[i], Report(i))
    /\ seqNum' = [seqNum EXCEPT ![i] = (@ + 1) % SeqModulus]
    /\ dirty' = [dirty EXCEPT ![i] = {}]
    /\ needFull' = [needFull EXCEPT ![i] = FALSE]
    /\ UNCHANGED <<link, applied, descr, changes>>

(* An agent reads a message: it applies the offered config, and remembers   *)
(* that it was asked for its full state.                                    *)
AgentReceive(i) ==
    LET c == link[i]
        msg == Head(outbox[c])
    IN  /\ c # Nil
        /\ NetworkTake(c)
        /\ applied' = [applied EXCEPT ![i] = orElse(msg.config, @)]
        /\ dirty' = [dirty EXCEPT ![i] = @ \cup (IF msg.config \in {Nil, applied[i]}
                                                 THEN {} ELSE {"config"})]
        /\ needFull' = [needFull EXCEPT ![i] = @ \/ msg.full]
        /\ UNCHANGED <<link, seqNum, descr, changes>>

(* Something an agent reports changes. *)
DescriptionChange(i) ==
    /\ changes < MaxChanges
    /\ changes' = changes + 1
    /\ \E d \in Descriptions \ {descr[i]} : descr' = [descr EXCEPT ![i] = d]
    /\ dirty' = [dirty EXCEPT ![i] = @ \cup {"descr"}]
    /\ UNCHANGED <<vars, link, seqNum, applied, needFull>>

HealthChange(i) ==
    /\ changes < MaxChanges
    /\ changes' = changes + 1
    /\ dirty' = [dirty EXCEPT ![i] = @ \cup {"health"}]
    /\ UNCHANGED <<vars, link, seqNum, applied, descr, needFull>>

(* An agent's connection breaks; a report on its way may be lost with it.   *)
(* Breaks are bounded by the connections that are left to reconnect with.   *)
AgentDrop(i) ==
    /\ link[i] # Nil
    /\ \E c \in Conns : phase[c] = "fresh"
    /\ PeerGone(link[i])
    /\ link' = [link EXCEPT ![i] = Nil]
    /\ \E lost \in {0, 1} : seqNum' = [seqNum EXCEPT ![i] = (@ + lost) % SeqModulus]
    /\ UNCHANGED <<applied, descr, dirty, needFull, changes>>

(* An agent notices that the server is gone. *)
AgentNotices(i) ==
    /\ link[i] # Nil
    /\ phase[link[i]] = "removed"
    /\ link' = [link EXCEPT ![i] = Nil]
    /\ UNCHANGED <<vars, seqNum, applied, descr, dirty, needFull, changes>>

-----------------------------------------------------------------------------
(* The server's steps; the API only saves configs here. *)
SaveRequest(r) ==
    \E i \in Ids, body \in Configs \cup {EmptyConfig} : handleSaveConfig(r, i, Canonical, body)

FleetServerStep ==
    /\ \/ \E c \in Conns : LoopStep(c)
       \/ \E r \in Requests : SaveRequest(r) \/ ApiStep(r)
       \/ (Crash /\ \E c \in Conns : phase[c] = "fresh")
    /\ UNCHANGED agentVars

FleetNext ==
    \/ FleetServerStep
    \/ \E i \in Ids : \/ AgentConnect(i) \/ AgentReport(i) \/ AgentReceive(i)
                      \/ DescriptionChange(i) \/ HealthChange(i) \/ AgentDrop(i) \/ AgentNotices(i)

(* The server's goroutines run, and agents reconnect, read, and report:     *)
(* opamp-go retries a lost connection and sends a heartbeat periodically;   *)
(* a report that was sent waits in the socket until the server reads it.    *)
FleetFairness ==
    /\ \A c \in Conns : WF_fleetVars(LoopStep(c) /\ UNCHANGED agentVars)
    /\ \A r \in Requests : /\ WF_fleetVars(ApiStep(r) /\ UNCHANGED agentVars)
                           /\ SF_fleetVars(SendToAgent(r) /\ UNCHANGED agentVars)
    /\ \A i \in Ids : /\ WF_fleetVars(AgentConnect(i)) /\ WF_fleetVars(AgentNotices(i))
                      /\ WF_fleetVars(AgentReceive(i)) /\ SF_fleetVars(AgentReport(i))

FleetSpec == FleetInit /\ [][FleetNext]_fleetVars /\ FleetFairness

-----------------------------------------------------------------------------
(* Properties. *)

(* An agent only ever runs a config that was saved for it (or what two      *)
(* saves of its file left): not one that another agent's object or file     *)
(* holds, nor one meant for an agent the server knew on its connection.     *)
OwnConfigs == \A i \in Ids : applied[i] \in savedFor(i)

registered(i) == heap[i][agentsById[i]]

(* Once saves, crashes and disconnections stop, every agent is registered   *)
(* through the connection it uses, and runs the config the server has for   *)
(* it: no config is lost between a dead connection, a late removal of it,   *)
(* a restart, and answers and offers that overtake each other.              *)
FleetConverges ==
    <>[](\A i \in Ids : /\ agentsById[i] # Nil
                        /\ agentsById[i] = link[i]
                        /\ applied[i] = registered(i).remote)

(* The effective config the server shows for an agent becomes the one the   *)
(* agent runs: what was merged into an object that a late removal dropped   *)
(* is asked for again, or comes with a report that leaves nothing out.      *)
EffectiveConverges ==
    <>[](\A i \in Ids :
           /\ agentsById[i] # Nil
           /\ registered(i).status # Nil
           /\ registered(i).status.eff = orElse(applied[i], EmptyConfig))

(* The server's whole view of an agent becomes the agent's own.  A server   *)
(* whose "current status is not up-to-date" is to "request full status      *)
(* update from the agent"; it does not where a report to a new object       *)
(* leaves out the description alone.                                        *)
ViewConverges ==
    /\ EffectiveConverges
    /\ <>[](\A i \in Ids :
              /\ agentsById[i] # Nil
              /\ registered(i).status # Nil
              /\ registered(i).status.descr = descr[i])
=============================================================================
