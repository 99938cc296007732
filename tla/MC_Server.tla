----------------------------- MODULE MC_Server -----------------------------
(***************************************************************************)
(* Constants for model checking the two shutdowns in one run: that of the  *)
(* job queues, in JobQueue, and that of the whole process, in Server.  A   *)
(* behaviour is one of one of them and leaves the other where it starts.   *)
(***************************************************************************)
EXTENDS JobQueue, Server, TLC

Field(key, place, text) == [key |-> key, place |-> place, text |-> text]

Sent(route, size, type, fields) == [route |-> route, size |-> size, type |-> type, fields |-> fields]

\* Every hook refuses one of them and passes another; the last one's handler need not answer.
SixInputs ==
    { Sent("api", "small", "json", {Field("plain", "top", "markup"), Field("special", "nested", "markup"),
                                    Field("plain", "array", "sql")}),
      Sent("usage", "small", "json", {Field("special", "nested", "sql")}),
      Sent("auth", "over 10 MB", "json", {}),
      Sent("unknown", "small", "other", {}),
      Sent("ready", "small", "no body", {}),
      Sent("anchor", "small", "json", {}) }

\* Production without a secret, and development without anything.
TwoEnvironments ==
    { [production |-> TRUE, password |-> TRUE, secret |-> FALSE, salt |-> TRUE],
      [production |-> FALSE, password |-> FALSE, secret |-> FALSE, salt |-> FALSE] }

VARIABLE part

mcVars == <<vars, serverVars, part>>

MCInit ==
    /\ Init /\ ServerInit
    /\ part \in {"queue", "server"}
    /\ part # "server" => boot = "config"

MCNext ==
    \/ part = "queue" /\ Next /\ UNCHANGED <<serverVars, part>>
    \/ part = "server" /\ ServerNext /\ UNCHANGED <<vars, part>>

MCFairSpec ==
    /\ MCInit /\ [][MCNext]_mcVars
    /\ part = "queue" => QueueFairness
    /\ part = "server" => ServerFairness
=============================================================================
