------------------------------ MODULE OnceOnly ------------------------------
(***************************************************************************)
(* What a caller of the write tools is promised: each thing it wants       *)
(* written is written at most once, whatever is lost, late or repeated on  *)
(* the way, and when it is told of a success that write is the one named.  *)
(***************************************************************************)
CONSTANTS Intents, Effects

VARIABLES
  done,  \* per intent, the writes made for it
  told   \* per intent, the write its caller was told of

Init == done = [i \in Intents |-> {}] /\ told = [i \in Intents |-> {}]

Do(i) ==
  /\ done[i] = {}
  /\ \E effect \in Effects : done' = [done EXCEPT ![i] = {effect}]
  /\ UNCHANGED told

Tell(i) ==
  /\ done[i] # {}
  /\ told' = [told EXCEPT ![i] = done[i]]
  /\ UNCHANGED done

Next == \E i \in Intents : Do(i) \/ Tell(i)

Spec == Init /\ [][Next]_<<done, told>>

=============================================================================
