------------------------- MODULE MCEmbeddingWorker -------------------------
(* One key or two, two wordings, one worker or two. *)
EXTENDS EmbeddingWorker, TLC

CONSTANTS w1, w2, status, profile, old, new, bge, minilm, null

OneWorker == {w1}
TwoWorkers == {w1, w2}
OneKey == {status}
TwoKeys == {status, profile}
TwoContents == {old, new}
OneIdentity == {bge}
TwoIdentities == {bge, minilm}

=============================================================================
