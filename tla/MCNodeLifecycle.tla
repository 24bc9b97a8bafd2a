--------------------------- MODULE MCNodeLifecycle ---------------------------
(***************************************************************************)
(* main's services with enable-tss; three callers, two peers and a signer; *)
(* slots alone, each gate, and a configuration that Start refuses.         *)
(***************************************************************************)
EXTENDS NodeLifecycle, TLC

CONSTANTS c1, c2, c3, s1, p1, p2

MCServices == <<"api", "monitoring", "p2p", "tss", "consensus">>

Config(max, allow, rate, score, sessionsMax) ==
    [maxConns |-> max, allowList |-> allow, rateLimit |-> rate,
     scoreThreshold |-> score, maxTSSSessions |-> sessionsMax]

MCConfigs ==
    {Config(2, {}, 0, 0, 0),        \* slots only
     Config(1, {p1}, 0, 0, 1),      \* an allowlist, one slot, one session
     Config(2, {}, 2, 0, 2),        \* a rate limit
     Config(2, {}, 2, 1, 2),        \* and a score
     Config(-1, {}, 0, 0, 0)}       \* refused
=============================================================================
