-------------------------- MODULE MCEntityManager --------------------------
(* Instance of EntityManager for TLC. *)
EXTENDS EntityManager

CONSTANTS p, add, modify, bare, remove, send, ask

(* The id changes from a passage to an account; bare has no address. *)
TopicOf == [m \in Msgs |->
    CASE m \in {add, bare} -> "passage" [] m = modify -> "account"
      [] m = remove -> "remove" [] m = send -> "send" [] m = ask -> "state"]
ToOf == [m \in Msgs |-> IF m = ask THEN ZERO ELSE p]
===========================================================================
