------------------------------- MODULE Slots -------------------------------
(***************************************************************************)
(* The transfer slots of an agent: handleFile and handleArchive put a      *)
(* token into the buffered channel `sem` before they touch the tree and    *)
(* take it out when they return (internal/server/server.go, acquire).      *)
(* A request that finds the channel full blocks on it; Go serves blocked   *)
(* senders in the order they came, and a token that is taken out lets the  *)
(* first of them in at once.  The 30 s a request waits at most are a       *)
(* choice of the environment: whoever waits may be refused.                *)
(***************************************************************************)
EXTENDS Naturals, Sequences, FiniteSets

CONSTANTS
  Requests,       \* HTTP requests that want a slot, each attempt is one
  MaxConcurrent   \* max_concurrent of the agent

ASSUME MaxConcurrentAssumption == MaxConcurrent \in Nat \ {0}

VARIABLES
  sem,      \* tokens in the channel
  blocked,  \* requests that block on it, in their order
  handler   \* [Requests -> state of the request's handler]

slotVars == <<sem, blocked, handler>>

SlotsTypeOK ==
  /\ sem \in 0 .. MaxConcurrent
  /\ blocked \in Seq(Requests)
  /\ handler \in [Requests -> {"none", "waiting", "serving", "busy", "over"}]

SlotsInit ==
  /\ sem = 0
  /\ blocked = <<>>
  /\ handler = [r \in Requests |-> "none"]

\* acquire: the first select takes a free slot without a look at the request's
\* context, otherwise the second one blocks.
Acquire(r) ==
  /\ handler[r] = "none"
  /\ \/ /\ sem < MaxConcurrent
        /\ sem' = sem + 1
        /\ handler' = [handler EXCEPT ![r] = "serving"]
        /\ UNCHANGED blocked
     \/ /\ sem = MaxConcurrent
        /\ blocked' = Append(blocked, r)
        /\ handler' = [handler EXCEPT ![r] = "waiting"]
        /\ UNCHANGED sem

\* Mutant: the second select waits for a slot and for nothing else.
RefuseNever(r) == handler[r] = "waiting" /\ FALSE /\ UNCHANGED slotVars

\* The second select ends by its timer or by the request's context: 503, and
\* the release function is one that does nothing.
Refuse(r) ==
  /\ handler[r] = "waiting"
  /\ \E i \in DOMAIN blocked :
       /\ blocked[i] = r
       /\ blocked' = [j \in 1 .. Len(blocked) - 1 |->
                         IF j < i THEN blocked[j] ELSE blocked[j + 1]]
  /\ handler' = [handler EXCEPT ![r] = "busy"]
  /\ UNCHANGED sem

\* Mutant: an early return placed before the deferred release.
ReleaseForgotten(r) ==
  /\ handler[r] = "serving"
  /\ handler' = [handler EXCEPT ![r] = "over"]
  /\ UNCHANGED <<sem, blocked>>

\* The deferred release of a handler that returns, by whatever path.
Release(r) ==
  /\ handler[r] = "serving"
  /\ IF blocked = <<>>
     THEN /\ sem' = sem - 1
          /\ handler' = [handler EXCEPT ![r] = "over"]
          /\ UNCHANGED blocked
     ELSE /\ handler' = [[handler EXCEPT ![r] = "over"] EXCEPT ![Head(blocked)] = "serving"]
          /\ blocked' = Tail(blocked)
          /\ UNCHANGED sem

\* The slots are exactly the handlers at work, never more than the limit, and
\* nobody waits while a slot is free (server.go acquire and the deferred
\* release of handleFile and handleArchive: a path that forgets or repeats
\* the release starves or overloads the agent).
SlotsExact ==
  /\ sem = Cardinality({r \in Requests : handler[r] = "serving"})
  /\ {r \in Requests : handler[r] = "waiting"} = {blocked[i] : i \in DOMAIN blocked}
  /\ blocked # <<>> => sem = MaxConcurrent
=============================================================================
