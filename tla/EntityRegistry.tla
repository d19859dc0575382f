--------------------------- MODULE EntityRegistry ---------------------------
(***************************************************************************)
(* What EntityManager promises the business side, without locks, queues or *)
(* steps: at any moment an id has at most one entity that is told things;  *)
(* every entity is told a sequence of things; a closed entity was told so  *)
(* last, and is never told anything again.  A restart forgets the entities *)
(* of the process that died, and what they were told.                      *)
(***************************************************************************)
EXTENDS Naturals, Sequences

CONSTANTS
    Ids,           \* ids of passages and accounts
    Gens,          \* entities: an id gets a new one every time it is opened
    Things,        \* what an entity can be told besides CLOSE
    CLOSE, NONE

VARIABLES
    current,       \* the entity an id has now, NONE without
    told           \* what each entity was told by this process, in order

registryVars == <<current, told>>

Init == current = [id \in Ids |-> NONE] /\ told = [g \in Gens |-> <<>>]

Tell(id, thing) ==
    /\ current[id] # NONE
    /\ told' = [told EXCEPT ![current[id]] = Append(@, thing)]
    /\ UNCHANGED current

Close(id) ==
    /\ current[id] # NONE
    /\ told' = [told EXCEPT ![current[id]] = Append(@, CLOSE)]
    /\ current' = [current EXCEPT ![id] = NONE]

Open(id, g) ==
    /\ current[id] = NONE
    /\ told[g] = <<>> /\ \A other \in Ids : current[other] # g
    /\ current' = [current EXCEPT ![id] = g]
    /\ UNCHANGED told

Restart == current' = [id \in Ids |-> NONE] /\ told' = [g \in Gens |-> <<>>]

Next ==
    \/ \E id \in Ids, thing \in Things : Tell(id, thing)
    \/ \E id \in Ids : Close(id)
    \/ \E id \in Ids, g \in Gens : Open(id, g)
    \/ Restart

Spec == Init /\ [][Next]_registryVars
=============================================================================
