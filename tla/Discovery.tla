----------------------------- MODULE Discovery -----------------------------
(***************************************************************************)
(* The live listing every command rests on (workflow/live.go): one         *)
(* goroutine per Connect profile asks for the connectors that run there,   *)
(* the caller waits for all of them and merges the answers into a map from *)
(* connector to profile.  The answers are of different moments, and CFK    *)
(* and others start and stop connectors in between.                        *)
(***************************************************************************)
EXTENDS Integers, FiniteSets

CONSTANTS
  Names,           \* connector names
  Env,             \* the names the environment's nameRegex matches
  Profiles,        \* the Connect profiles of the cluster
  Sources,         \* the profiles with adoptionSource: true
  DefaultProfile,  \* the environment's default profile
  NoProfile,       \* no --source-profile is given
  MaxEvents        \* bound: what others do to the workers

ASSUME DiscoveryAssumption ==
  /\ IsFiniteSet(Names) /\ Env \subseteq Names /\ IsFiniteSet(Profiles) /\ Sources \subseteq Profiles
  /\ DefaultProfile \in Profiles /\ NoProfile \notin Profiles /\ MaxEvents \in Nat

VARIABLES
  live,       \* where connectors run: pairs of a name and a profile
  listing,    \* "idle", "waiting", "listed", "failed" or "ambiguous"
  asked,      \* the profiles of this listing
  scope,      \* the names the caller cares about
  pc,         \* the goroutine of a profile: "idle", "asking" or "done"
  results,    \* the buffered channel of answers
  locations,  \* the merged listing: a function from names to profiles
  steady,     \* history: the places that were live during the whole command
  ever,       \* history: the places that were live at some time of it
  events      \* bound: changes by others so far

listingVars == <<listing, asked, scope, pc, results, locations>>
discoveryVars == <<live, listingVars, steady, ever, events>>

Places == Names \X Profiles

\* Mutant of NamesOn: every goroutine has the client of the same profile.
NamesOnDefault(p) == {n \in Names : <<n, DefaultProfile>> \in live}

\* What ClientFor(profile).ListConnectors returns.
NamesOn(p) == {n \in Names : <<n, p>> \in live}

DiscoveryTypeOK ==
  /\ live \subseteq Places
  /\ listing \in {"idle", "waiting", "listed", "failed", "ambiguous"}
  /\ asked \subseteq Profiles /\ scope \in {Env, Names}
  /\ pc \in [Profiles -> {"idle", "asking", "done"}]
  /\ results \subseteq [profile : Profiles, ok : BOOLEAN, names : SUBSET Names]
  /\ DOMAIN locations \subseteq Names
  /\ \A n \in DOMAIN locations : locations[n] \in Profiles
  /\ steady \subseteq ever /\ ever \subseteq Places
  /\ events \in 0..MaxEvents

\* discoveryProfiles: the one asked for, or the adoption sources, or the
\* environment's default.
DiscoveryProfiles(explicit) ==
  CASE explicit # NoProfile -> {explicit}
    [] explicit = NoProfile /\ Sources # {} -> Sources
    [] OTHER -> {DefaultProfile}

\* allProfileNames
AllProfileNames == Profiles

\* No goroutine is running: a listing of the profiles in S begins.
Begin(S, names) ==
  /\ listing' = "waiting"
  /\ asked' = S /\ scope' = names
  /\ pc' = [p \in Profiles |-> IF p \in S THEN "asking" ELSE "idle"]
  /\ results' = {} /\ locations' = << >>

NoListing ==
  /\ listing' = "idle" /\ asked' = {} /\ scope' = Names
  /\ pc' = [p \in Profiles |-> "idle"]
  /\ results' = {} /\ locations' = << >>

\* Mutant of Capacity: the channel holds one answer.
CapacityOne == 1

\* The channel's buffer: the caller takes nothing out before all have sent.
Capacity == Cardinality(asked)

\* ClientFor and ListConnectors: the answer is what runs at this moment; both can
\* fail (the request has a timeout, so one of the two comes).
Answer(p) ==
  /\ pc[p] = "asking" /\ Cardinality(results) < Capacity
  /\ \/ results' = results \cup {[profile |-> p, ok |-> TRUE, names |-> NamesOn(p)]}
     \/ results' = results \cup {[profile |-> p, ok |-> FALSE, names |-> {}]}
  /\ pc' = [pc EXCEPT ![p] = "done"]
  /\ UNCHANGED <<live, listing, asked, scope, locations, steady, ever, events>>

Found(n) == {r.profile : r \in {x \in results : n \in x.names}}

\* Mutant of Ambiguous: the profile found last wins.
AmbiguousNever == {}

\* "connector exists in multiple Connect profiles"
Ambiguous == {n \in scope : Cardinality(Found(n)) > 1}

\* loadConnectorNamesByProfile's loop over the channel, and the merge with the
\* environment's rule (discoverLiveConnectorsInProfiles) or without it
\* (flattenProfileNames).
Merge ==
  IF \E r \in results : ~r.ok
  THEN listing' = "failed" /\ UNCHANGED locations
  ELSE IF Ambiguous # {}
  THEN listing' = "ambiguous" /\ UNCHANGED locations
  ELSE /\ listing' = "listed"
       /\ locations' = [n \in {x \in scope : Found(x) # {}} |-> CHOOSE p \in Found(n) : TRUE]

\* wg.Wait: every goroutine has sent its answer.
Collect ==
  /\ listing = "waiting" /\ \A p \in asked : pc[p] = "done"
  /\ Merge
  /\ pc' = [p \in Profiles |-> "idle"] /\ results' = {}
  /\ UNCHANGED <<live, asked, scope, steady, ever, events>>

-----------------------------------------------------------------------------
(* Others: CFK moves a connector by starting it on one profile and         *)
(* stopping it on the other, in either order.                              *)

Runs(S) == /\ live' = S
           /\ steady' = steady \cap S
           /\ ever' = IF listing = "idle" THEN ever ELSE ever \cup S

Appears(n, p) ==
  /\ events < MaxEvents /\ <<n, p>> \notin live
  /\ Runs(live \cup {<<n, p>>})
  /\ events' = events + 1
  /\ UNCHANGED listingVars

Disappears(n, p) ==
  /\ events < MaxEvents /\ <<n, p>> \in live
  /\ Runs(live \ {<<n, p>>})
  /\ events' = events + 1
  /\ UNCHANGED listingVars

-----------------------------------------------------------------------------
(* Properties.                                                             *)

\* A listing misses nothing that stayed where it was, and takes it from there: a
\* connector that ran on one of the profiles all the time is in the map, under
\* that profile, although the profiles were asked one after the other and other
\* connectors moved meanwhile.  So two steady copies are always refused.
ListingComplete ==
  listing = "listed" =>
    \A n \in scope, p \in asked :
      <<n, p>> \in steady => n \in DOMAIN locations /\ locations[n] = p

\* A listing invents nothing: a place in it was real at some time of the command,
\* and an environment is only refused as ambiguous if a connector was on two
\* profiles, though perhaps not at the same time.
ListingReal ==
  /\ listing = "listed" => \A n \in DOMAIN locations : <<n, locations[n]>> \in ever
  /\ listing = "ambiguous" =>
       \E n \in scope, p, q \in asked : p # q /\ <<n, p>> \in ever /\ <<n, q>> \in ever

\* Both: what a command knows of the live connectors (live.go:101).
ListingFaithful == DiscoveryTypeOK /\ ListingComplete /\ ListingReal
=============================================================================
