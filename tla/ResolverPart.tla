---------------------------- MODULE ResolverPart ----------------------------
(***************************************************************************)
(* The resolver of a client, beside the client that uses it.                *)
(***************************************************************************)
EXTENDS Integers, Sequences

CONSTANTS Queries, Names, Ids, Answers, Retries, Scan, MaxClock, None

VARIABLES qpc, name, tasks, query_map, left, timer, sent, result, conn, spin, cache_map,
          clock, next_scan, freed, served, twice

\* ttl is a uint32_t; the timer of evict() has a period
ASSUME ResolverAssumption ==
    /\ None \notin Queries /\ Answers \subseteq Seq(Nat) /\ Scan \in Nat \ {0}

Res == INSTANCE Resolver
resolverVars == <<qpc, name, tasks, query_map, left, timer, sent, result, conn, spin, cache_map,
                  clock, next_scan, freed, served, twice>>

\* What a caller is told is about the name it asked for, and not out of date
\* (unpack, match_name, cache::get, cache::evict).
AnswersRight == Res!AnswersRight

\* No promise gets a second value, and a query is in query_map with a timer that
\* will end it exactly as long as its caller has no result.
OutstandingIsTimed == Res!OutstandingIsTimed

\* Every query ends, with an answer or with "Query timed out" (Retransmit),
\* unless the loop thread waits for a connection that only it could make.
EveryQueryEnds == Res!EveryQueryEnds
=============================================================================
