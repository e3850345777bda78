-------------------------- MODULE MCOrderExecution --------------------------
EXTENDS OrderExecution

\* One buy and one sale: the two differ in what their OrderInfo tells.
MCClientIds == {"buy", "sell"}
MCBuys == {"buy"}

=============================================================================
