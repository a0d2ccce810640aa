----------------------------- MODULE AgentStatus -----------------------------
(***************************************************************************)
(* The Agent object of the OpAMP server (src/opamp-server/data/agent.go):   *)
(* what one status report does to it, and what answer it produces.  Every   *)
(* definition is a function of its arguments; OpAMPServer gives them state. *)
(***************************************************************************)
EXTENDS Integers

CONSTANTS
    Ids,            \* instance ids of agents
    Requests,       \* requests of the HTTP API (each owns a notification channel)
    Configs,        \* configuration texts that are YAML objects
    EmptyConfig,    \* the empty text: "no custom configuration"
    Garbled,        \* the text two interleaved writes of one file can leave
    Descriptions,   \* values of AgentDescription
    SeqModulus,     \* SequenceNum is an unsigned counter that wraps
    Nil             \* a nil pointer, or an absent protobuf field

ASSUME StatusAssumption ==
    /\ EmptyConfig \notin Configs
    /\ Garbled \notin Configs \cup {EmptyConfig}
    /\ Nil \notin Configs \cup {EmptyConfig, Garbled} \cup Descriptions
    /\ SeqModulus \in Nat \ {0}

(* Everything a config body can be. *)
Bodies == Configs \cup {EmptyConfig, Garbled}

(* sha256 over the config map; only equality of hashes is ever used.  <<>>  *)
(* is the empty LastRemoteConfigHash of an agent that never got a config.   *)
ConfigHash(body) == <<body>>

Hashes == {ConfigHash(b) : b \in Bodies} \cup {<<>>}

(* Fields a report may leave out and has a capability bit for.              *)
Fields == {"effective_config", "package_statuses", "remote_config_status", "health"}

(* A certificate signing request inside a report, by what becomes of it.    *)
Csrs == {"none", "refused", "bad_signature", "granted"}

(* AgentToServer: a nil field is "unchanged since the previous report".     *)
(* rest: which of health and package_statuses the report carries.           *)
AgentToServer ==
    [id    : Ids,
     seq   : 0 .. SeqModulus - 1,
     caps  : SUBSET Fields,
     descr : Descriptions \cup {Nil},
     rcs   : Hashes \cup {Nil},
     eff   : Bodies \cup {Nil},
     rest  : SUBSET {"health", "package_statuses"},
     csr   : Csrs]

(* ServerToAgent: an offered remote config, the ReportFullState flag, the   *)
(* connection settings offered, and whether it carries an error.            *)
ServerToAgent ==
    [config   : Bodies \cup {Nil},
     full     : BOOLEAN,
     settings : SUBSET {"metrics", "certificate", "tls"},
     error    : BOOLEAN]

EmptyMessage == [config |-> Nil, full |-> FALSE, settings |-> {}, error |-> FALSE]

(* The mutable part of the Agent struct.  status is the first report, with  *)
(* the later ones merged into it; statusUpdateWatchers are the channels of  *)
(* the API requests waiting for the next report.                            *)
Agent ==
    [status   : AgentToServer \cup {Nil},
     custom   : Bodies,
     remote   : Bodies \cup {Nil},
     watchers : SUBSET Requests]

NewAgent == [status |-> Nil, custom |-> EmptyConfig, remote |-> Nil, watchers |-> {}]

-----------------------------------------------------------------------------
(* calcRemoteConfig: the remote config is always rebuilt from the custom    *)
(* one, and the caller learns whether that changed it.                      *)
calcRemoteConfig(a) == [a EXCEPT !.remote = a.custom]

isEqualRemoteConfig(a) == a.remote = a.custom

(* updateAgentDescription, its result: first report, or a new description.  *)
agentDescrChanged(a, m) ==
    \/ a.status = Nil
    \/ m.descr # Nil /\ m.descr # a.status.descr

(* updateStatusField and updateEffectiveConfig: the first report is kept    *)
(* whole; later ones overwrite only the fields they carry, and never the    *)
(* capabilities or the package statuses.                                    *)
orElse(new, old) == IF new = Nil THEN old ELSE new

(* Mutant: the server counts reports itself, and its counter never wraps.   *)
updateStatusField_counts(a, m) ==
    IF a.status = Nil
    THEN m
    ELSE [a.status EXCEPT !.seq   = @ + 1,
                          !.descr = IF m.descr = Nil THEN @ ELSE m.descr,
                          !.rcs   = IF m.rcs = Nil THEN @ ELSE m.rcs,
                          !.eff   = IF m.eff = Nil THEN @ ELSE m.eff,
                          !.rest  = @ \cup (m.rest \cap {"health"})]

(* Mutant: the description of the first report is kept.                     *)
updateStatusField_first(a, m) ==
    IF a.status = Nil
    THEN m
    ELSE [a.status EXCEPT !.seq   = m.seq,
                          !.descr = orElse(@, m.descr),
                          !.rcs   = orElse(m.rcs, @),
                          !.eff   = orElse(m.eff, @),
                          !.rest  = @ \cup (m.rest \cap {"health"})]

updateStatusField(a, m) ==
    IF a.status = Nil
    THEN m
    ELSE [a.status EXCEPT !.seq   = m.seq,
                          !.descr = orElse(m.descr, @),
                          !.rcs   = orElse(m.rcs, @),
                          !.eff   = orElse(m.eff, @),
                          !.rest  = @ \cup (m.rest \cap {"health"})]

(* Mutant: only a gap counts as a lost report, not an unknown agent.        *)
lostPreviousUpdate_gap(a, m) ==
    a.status # Nil /\ (a.status.seq + 1) % SeqModulus # m.seq

(* processStatusUpdate: the parts of the decision, then the whole step.     *)
lostPreviousUpdate(a, m) ==
    \/ a.status = Nil
    \/ (a.status.seq + 1) % SeqModulus # m.seq

reportedFields(m) ==
    m.rest \cup (IF m.eff = Nil THEN {} ELSE {"effective_config"})
           \cup (IF m.rcs = Nil THEN {} ELSE {"remote_config_status"})

statusIsCompressed(a, m) == ~ (updateStatusField(a, m).caps \subseteq reportedFields(m))

(* Mutant: the config is calculated only when a description is reported.    *)
processStatusUpdate_described(a, m) ==
    LET merged == [a EXCEPT !.status = updateStatusField(a, m)]
    IN  IF m.descr # Nil /\ agentDescrChanged(a, m) THEN calcRemoteConfig(merged) ELSE merged

processStatusUpdate(a, m) ==
    LET merged == [a EXCEPT !.status = updateStatusField(a, m)]
    IN  IF agentDescrChanged(a, m) THEN calcRemoteConfig(merged) ELSE merged

(* Mutant: the hash the agent reports is not compared.                      *)
offersConfig_changed(a, m) == agentDescrChanged(a, m) /\ ~ isEqualRemoteConfig(a)

(* The config goes into the answer when this report changed it, or when the *)
(* hash the agent last reported is not that of its config.                  *)
offersConfig(a, m) ==
    LET b == processStatusUpdate(a, m)
    IN  \/ agentDescrChanged(a, m) /\ ~ isEqualRemoteConfig(a)
        \/ b.status.rcs # Nil /\ b.status.rcs # ConfigHash(b.remote)

(* The answer processStatusUpdate and processConnectionSettingsRequest      *)
(* build; calcConnectionSettings always offers the metrics endpoint.        *)
statusResponse(a, m) ==
    [config   |-> IF offersConfig(a, m) THEN processStatusUpdate(a, m).remote ELSE Nil,
     full     |-> statusIsCompressed(a, m) /\ lostPreviousUpdate(a, m),
     settings |-> (IF agentDescrChanged(a, m) THEN {"metrics"} ELSE {})
                  \cup (IF m.csr = "granted" THEN {"certificate"} ELSE {}),
     error    |-> m.csr = "refused"]

(* SetCustomConfig: the state change made under agent.mux.  The requester's *)
(* channel is registered only when the config differs.                      *)
SetCustomConfig(a, body, r) ==
    LET b == [a EXCEPT !.custom = body]
    IN  IF isEqualRemoteConfig(b)
        THEN calcRemoteConfig(b)
        ELSE [calcRemoteConfig(b) EXCEPT !.watchers = @ \cup {r}]
=============================================================================
