------------------------------- MODULE MCIOCP -------------------------------
\* IOCP with named workers; connections are numbered by their addresses.
EXTENDS IOCP, TLC

CONSTANTS w1, w2

TwoWorkers == {w1, w2}
OneClient == 1..1
TwoClients == 1..2
ListenKey == 0
Symmetry == Permutations(Workers)

ServerOf(clients, features) ==
    [clients |-> clients,
     acceptWithData |-> "acceptWithData" \in features,
     answers |-> "answers" \in features,
     removes |-> "removes" \in features,
     shutsDown |-> "shutsDown" \in features]

\* A server that only receives, one that answers and whose application removes
\* connections, and one that only receives and is shut down.
Receiver == ServerOf(TwoClients, {})
Answering == ServerOf(OneClient, {"acceptWithData", "answers", "removes"})
Destroyed == ServerOf(OneClient, {"shutsDown"})

SmallServers == {Receiver, Answering, Destroyed}
DestroyedOnly == {Destroyed}
=============================================================================
