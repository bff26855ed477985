------------------------------- MODULE MCClient -------------------------------
(***************************************************************************)
(* One instance for TLC of the client and of the resolver, which share no   *)
(* state: a behaviour is one of the component that part names, and the      *)
(* variables of the other keep one initial value, in which nothing that is  *)
(* assumed to be fair can happen.                                           *)
(***************************************************************************)
EXTENDS Client, ResolverPart

VARIABLE part

MCAnswers == {<<0, 2>>, <<3, 1>>}

MCInit ==
    /\ part \in {"client", "resolver"} /\ Init /\ Res!Init
    /\ part = "client" \/ ~(keep_reconnect \/ is_quit_loop \/ with_timeout \/ is_reconnect)
    /\ part = "resolver" \/ name = CHOOSE n \in [Queries -> Names] : TRUE
MCNext ==
    \/ part = "client" /\ Next /\ UNCHANGED <<part, resolverVars>>
    \/ part = "resolver" /\ Res!Next /\ UNCHANGED <<part, vars>>
MCSpec ==
    /\ MCInit /\ [][MCNext]_<<part, vars, resolverVars>>
    /\ Fairness /\ Res!Fairness
===============================================================================
