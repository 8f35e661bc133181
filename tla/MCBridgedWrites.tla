-------------------------- MODULE MCBridgedWrites --------------------------
(* One principal's two writes, or a write and a read, on one state key. *)
EXTENDS BridgedWrites, TLC

CONSTANTS first, second, owner, status, none, nobody, u1, u2, nokey

MCIntents == {first, second}
OneIntent == {first}
MCPrincipals == {owner}
MCSlots == {status}
TwoUuids == {u1, u2}
OneUuid == {u1}
MCPrincipalOf == [i \in MCIntents |-> owner]

UuidSymmetry == Permutations(TwoUuids)

Create == [kind |-> "create", slot |-> status, expected |-> 0]
Set == [kind |-> "set", slot |-> status, expected |-> 0]
Swap == [kind |-> "swap", slot |-> status, expected |-> 1]
Log == [kind |-> "append", slot |-> none, expected |-> 0]
Lookup == [kind |-> "read", slot |-> none, expected |-> 0]

\* A first-writer-wins create beside a log.
CreateAndLog == [i \in MCIntents |-> IF i = first THEN Create ELSE Log]
\* A compare-and-swap beside a read.
SwapAndRead == [i \in MCIntents |-> IF i = first THEN Swap ELSE Lookup]

=============================================================================
