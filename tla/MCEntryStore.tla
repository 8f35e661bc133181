---------------------------- MODULE MCEntryStore ----------------------------
(* Two connections, the owner's and another principal's, on one key. *)
EXTENDS EntryStore, TLC

CONSTANTS owner, agent, status, text, none

MCClients == {owner, agent}
MCOwnerClients == {owner}
MCKeys == {status}
MCContents == {text}
MCNone == {}
MCLogs == {text}

=============================================================================
