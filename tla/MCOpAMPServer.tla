---------------------------- MODULE MCOpAMPServer ----------------------------
(* The OpAMP server under arbitrary clients, on small instances.            *)
EXTENDS OpAMPServer, TLC

CONSTANTS i1, i2, A, B, d1, d2

(* A first report, a heartbeat one number later, and a heartbeat after the  *)
(* remote config was applied.                                               *)
FullReport(i) ==
    [id |-> i, seq |-> 0, caps |-> {"remote_config_status", "health"}, descr |-> d1,
     rcs |-> <<>>, eff |-> EmptyConfig, rest |-> {"health"}, csr |-> "none"]

Heartbeat(i) ==
    [FullReport(i) EXCEPT !.seq = 1, !.descr = Nil, !.rcs = Nil, !.eff = Nil, !.rest = {}]

Applied(i) == [Heartbeat(i) EXCEPT !.rcs = ConfigHash(A), !.eff = A]

(* Two agents ask for certificates; a CSR that does not verify crashes.     *)
RegistryMessages ==
    {[Heartbeat(i1) EXCEPT !.csr = "granted"], [FullReport(i2) EXCEPT !.csr = "refused"],
     [Heartbeat(i1) EXCEPT !.csr = "bad_signature"]}

SaveMessages == {Applied(i1)}

ConnSymmetry == Permutations(Conns)
=============================================================================
