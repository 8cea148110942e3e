--------------------------- MODULE CaptureRoutes ---------------------------
(***************************************************************************)
(* The registry of scoped capture routes (apps/daemon/src/capture-routes): *)
(* a route is issued with a bearer token and a time to live, resolved by   *)
(* the gateway for every provider request, and revoked by its route id.    *)
(*                                                                         *)
(* Every call of issue draws 32 random bytes, so a token is named by the   *)
(* call that issued it.  issue and resolve await a hash; between the check *)
(* of a route id and its registration other calls run.  A call that is     *)
(* refused changes nothing.  Launcher holds the callers and the behaviour. *)
(***************************************************************************)
EXTENDS Naturals

CONSTANTS
  Issuers,   \* calls of issue, and the tokens they draw
  RouteIds,
  RouteOf,   \* the route id each call asks for
  NoToken,   \* what a map answers for a key it does not hold
  MaxTime    \* bound on the clock, and on the time to live

ASSUME NoTokenAssumption == NoToken \notin Issuers
ASSUME RouteOfAssumption == RouteOf \in [Issuers -> RouteIds]
ASSUME MaxTimeAssumption == MaxTime \in Nat

VARIABLES
  now,
  issue,      \* "idle", "hashing", "issued", "refused" (lost with the daemon)
  ttl,        \* the time to live each call asks for
  registered, \* the keys of byTokenHash
  expiresAt,  \* the expiry of the route under each key
  tokenOf     \* tokenHashByRouteId

Init ==
  /\ now = 0
  /\ issue = [i \in Issuers |-> "idle"]
  /\ ttl = [i \in Issuers |-> 0]
  /\ registered = {}
  /\ expiresAt = [i \in Issuers |-> 0]
  /\ tokenOf = [r \in RouteIds |-> NoToken]

----------------------------------------------------------------------------

\* The inputs are valid and no route is registered under the id: the token is
\* drawn and its hash awaited.
Check(i, seconds) ==
  /\ issue[i] = "idle" /\ tokenOf[RouteOf[i]] = NoToken
  /\ issue' = [issue EXCEPT ![i] = "hashing"]
  /\ ttl' = [ttl EXCEPT ![i] = seconds]
  /\ UNCHANGED <<now, registered, expiresAt, tokenOf>>

\* Mutant of Register: only the map the gateway reads is written.
RegisterToken(i) ==
  /\ issue[i] = "hashing"
  /\ issue' = [issue EXCEPT ![i] = "issued"]
  /\ registered' = registered \cup {i}
  /\ expiresAt' = [expiresAt EXCEPT ![i] = now + ttl[i]]
  /\ UNCHANGED <<now, ttl, tokenOf>>

\* The hash is there: both maps are written, whatever they hold by now.
Register(i) ==
  /\ issue[i] = "hashing"
  /\ issue' = [issue EXCEPT ![i] = "issued"]
  /\ registered' = registered \cup {i}
  /\ expiresAt' = [expiresAt EXCEPT ![i] = now + ttl[i]]
  /\ tokenOf' = [tokenOf EXCEPT ![RouteOf[i]] = i]
  /\ UNCHANGED <<now, ttl>>

\* remove: the route id, and the token registered for it last.
Remove(r) ==
  /\ tokenOf' = [tokenOf EXCEPT ![r] = NoToken]
  /\ registered' = registered \ {tokenOf[r]}

Resolves(i) == i \in registered /\ now < expiresAt[i]

\* Mutant of ResolveExpired: a route is removed by any request.
ResolveAny(i) ==
  /\ i \in registered
  /\ Remove(RouteOf[i])
  /\ UNCHANGED <<now, issue, ttl, expiresAt>>

\* resolve finds the route expired and removes it by its id.  A resolve that
\* succeeds, or finds nothing, changes nothing.
ResolveExpired(i) ==
  /\ i \in registered /\ ~Resolves(i)
  /\ Remove(RouteOf[i])
  /\ UNCHANGED <<now, issue, ttl, expiresAt>>

\* revoke answers true.  For an id without a route it changes nothing.
Revoke(r) ==
  /\ tokenOf[r] # NoToken
  /\ Remove(r)
  /\ UNCHANGED <<now, issue, ttl, expiresAt>>

Tick ==
  /\ now < MaxTime
  /\ now' = now + 1
  /\ UNCHANGED <<issue, ttl, registered, expiresAt, tokenOf>>

----------------------------------------------------------------------------
(* Properties.                                                             *)

\* Every variable has its type.
TypeOK ==
  /\ now \in 0..MaxTime
  /\ issue \in [Issuers -> {"idle", "hashing", "issued", "refused"}]
  /\ ttl \in [Issuers -> 0..MaxTime]
  /\ registered \subseteq Issuers
  /\ expiresAt \in [Issuers -> 0..(2 * MaxTime)]
  /\ tokenOf \in [RouteIds -> Issuers \cup {NoToken}]

\* The two maps of the registry describe the same routes, so that every route
\* that resolves can be revoked by its id.  It takes callers that never ask for
\* an id twice, as the CLI does.
MapsAgree ==
  /\ TypeOK
  /\ \A i \in registered : tokenOf[RouteOf[i]] = i
  /\ \A r \in RouteIds : tokenOf[r] # NoToken => tokenOf[r] \in registered /\ RouteOf[tokenOf[r]] = r
=============================================================================
