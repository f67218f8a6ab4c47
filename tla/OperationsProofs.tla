-------------------------- MODULE OperationsProofs --------------------------
(***************************************************************************)
(* Proofs about the commands of Operations, for any finite sets of names,  *)
(* profiles and CRs, any interleaving of the goroutines with what others   *)
(* do, and any number of commands.  A listing is right about what stood    *)
(* still; ADOPT and CREATE write no manifest for a connector that stayed   *)
(* elsewhere; VERIFY and INVENTORY report what was there; OPS asks for an  *)
(* effect once a run.                                                      *)
(***************************************************************************)
EXTENDS Operations, FiniteSetTheorems, TLAPS

-----------------------------------------------------------------------------
(* Two or more elements.                                                   *)

LEMMA AtMostOne ==
  ASSUME NEW S, IsFiniteSet(S), ~(Cardinality(S) > 1), NEW a \in S, NEW b \in S
  PROVE  a = b
<1> SUFFICES ASSUME a # b PROVE FALSE
  OBVIOUS
<1>1. {a, b} \in SUBSET S
  OBVIOUS
<1>2. IsFiniteSet({a}) /\ Cardinality({a}) = 1
  BY FS_Singleton
<1>3. Cardinality({a} \cup {b}) = 2
  BY <1>2, FS_AddElement
<1>4. {a} \cup {b} = {a, b}
  OBVIOUS
<1>5. Cardinality({a, b}) <= Cardinality(S)
  BY <1>1, FS_Subset
<1>6. Cardinality(S) \in Nat
  BY FS_CardinalityType
<1> QED
  BY <1>3, <1>4, <1>5, <1>6

LEMMA TwoElements ==
  ASSUME NEW S, IsFiniteSet(S), Cardinality(S) > 1
  PROVE  \E a, b \in S : a # b
<1>1. S # {}
  BY FS_EmptySet
<1>2. PICK a \in S : TRUE
  BY <1>1
<1>3. S # {a}
  BY FS_Singleton
<1> QED
  BY <1>2, <1>3

-----------------------------------------------------------------------------
(* The invariant of a listing.                                             *)

\* A goroutine that is done has sent one answer, in which what stood still is not
\* missing and nothing is invented; what runs now was seen to run.
AnswersInv ==
  /\ \A p \in Profiles : pc[p] = "asking" => listing = "waiting" /\ p \in asked
  /\ \A p \in Profiles : pc[p] = "done" => \E r \in results : r.profile = p
  /\ \A r \in results :
       /\ r.profile \in asked
       /\ \A n \in r.names : <<n, r.profile>> \in ever
       /\ r.ok => \A n \in Names : <<n, r.profile>> \in steady => n \in r.names
  /\ listing = "listed" => DOMAIN locations \subseteq scope
  /\ listing = "waiting" => live \subseteq ever
  /\ steady \subseteq live

\* The step of a listing ...
Asking == (\E p \in Profiles : Answer(p)) \/ Collect

\* ... the beginning of one, or of a command without one ...
Beginning ==
  /\ \/ \E S \in SUBSET Profiles, names \in {Env, Names} : Begin(S, names)
     \/ NoListing
  /\ steady' = live /\ ever' = live /\ UNCHANGED <<live, events>>

\* ... and what others do.
Moving == \E n \in Names, p \in Profiles : Appears(n, p) \/ Disappears(n, p)

Still ==
  /\ UNCHANGED <<live, listing, asked, scope, pc, results, locations, steady, ever>>
  /\ events' = events \/ (events < MaxEvents /\ events' = events + 1)

LEMMA FoundFinite ==
  ASSUME DiscoveryTypeOK, NEW n
  PROVE  Found(n) \subseteq Profiles /\ IsFiniteSet(Found(n))
<1>1. Found(n) \subseteq Profiles
  BY DEF Found, DiscoveryTypeOK
<1> QED
  BY <1>1, DiscoveryAssumption, FS_Subset

\* Every step of the program is one of the four kinds as far as the listing goes.
LEMMA StepKinds ==
  ASSUME [Next]_vars
  PROVE  Beginning \/ Asking \/ Moving \/ Still
<1>0. ASSUME UNCHANGED discoveryVars PROVE Still
  BY <1>0 DEF Still, discoveryVars, listingVars
<1>1. CASE StartInventory
  BY <1>1 DEF StartInventory, Command, Watch, AllProfileNames, Beginning
<1>2. CASE StartAdopt
  <2>1. PICK explicit \in Profiles \cup {NoProfile} : Begin(DiscoveryProfiles(explicit), Env)
    BY <1>2 DEF StartAdopt
  <2>2. DiscoveryProfiles(explicit) \in SUBSET Profiles
    BY DiscoveryAssumption DEF DiscoveryProfiles
  <2> QED
    BY <1>2, <2>1, <2>2 DEF StartAdopt, Command, Watch, Beginning
<1>3. CASE StartCreate
  BY <1>3 DEF StartCreate, Command, Watch, AllProfileNames, Beginning
<1>4. CASE StartVerify \/ StartOps
  BY <1>4 DEF StartVerify, StartOps, Command, Watch, Beginning
<1>5. CASE ListingStep
  BY <1>5 DEF ListingStep, Asking
<1>6. CASE Goes \/ UNCHANGED vars
  <2>2. CASE ListingRefused \/ Inventory \/ Listed \/ Finish
    BY <1>0, <2>2 DEF ListingRefused, Inventory, Listed, Finish
  <2>3. ASSUME NEW n \in todo, AdoptItem(n) \/ CreateItem(n) \/ VerifyItem(n)
                               \/ StatusItem(n) \/ AnnotateItem(n)
        PROVE  Still
    BY <1>0, <2>3 DEF AdoptItem, CreateItem, VerifyItem, StatusItem, AnnotateItem
  <2>4. CASE UNCHANGED vars
    BY <1>0, <2>4 DEF vars
  <2> QED
    BY <1>6, <2>2, <2>3, <2>4 DEF Goes
<1>7. CASE Others
  <2>1. ASSUME NEW n \in Names, NEW p \in Profiles, OthersStart(n, p) \/ OthersStop(n, p)
        PROVE  Moving
    BY <2>1 DEF OthersStart, OthersStop, Moving
  <2>2. ASSUME NEW n \in Names, NEW p \in Profiles, Breaks(n, p)
        PROVE  Still
    BY <2>2 DEF Breaks, Still, Environment, listingVars
  <2>3. ASSUME NEW c \in CRs, CFKActs(c)
        PROVE  Still
    <3>1. UNCHANGED discoveryVars
      BY <2>3, Zenon DEF CFKActs
    <3> QED
      BY <1>0, <3>1
  <2> QED
    BY <1>7, <2>1, <2>2, <2>3 DEF Others
<1> QED
  BY <1>1, <1>2, <1>3, <1>4, <1>5, <1>6, <1>7 DEF Next, Begins

-----------------------------------------------------------------------------
(* It is inductive, and so are the properties of a finished listing.       *)

DInv == DiscoveryTypeOK /\ AnswersInv /\ ListingComplete /\ ListingReal

LEMMA InitDInv == Init => DInv
<1> SUFFICES ASSUME Init PROVE DInv
  OBVIOUS
<1>1. DiscoveryTypeOK
  BY DiscoveryAssumption, OperationsAssumption DEF Init, DiscoveryTypeOK, Places
<1>2. AnswersInv
  BY DEF Init, AnswersInv
<1> QED
  BY <1>1, <1>2 DEF Init, DInv, ListingComplete, ListingReal

LEMMA BeginningStep == DInv /\ Beginning => DInv'
<1> SUFFICES ASSUME DInv, Beginning PROVE DInv'
  OBVIOUS
<1>0. live' = live /\ steady' = live /\ ever' = live /\ live \subseteq Places /\ events' = events
  BY DEF DInv, Beginning, DiscoveryTypeOK
<1>1. CASE NoListing
  <2>1. DiscoveryTypeOK'
    BY <1>0, <1>1 DEF DInv, DiscoveryTypeOK, NoListing, Places
  <2>2. AnswersInv'
    BY <1>0, <1>1 DEF NoListing, AnswersInv
  <2> QED
    BY <1>1, <2>1, <2>2 DEF DInv, NoListing, ListingComplete, ListingReal
<1>2. ASSUME NEW S \in SUBSET Profiles, NEW names \in {Env, Names}, Begin(S, names)
      PROVE  DInv'
  <2>1. DiscoveryTypeOK'
    BY <1>0, <1>2 DEF DInv, DiscoveryTypeOK, Begin, Places
  <2>2. AnswersInv'
    BY <1>0, <1>2 DEF Begin, AnswersInv
  <2> QED
    BY <1>2, <2>1, <2>2 DEF DInv, Begin, ListingComplete, ListingReal
<1> QED
  BY <1>1, <1>2 DEF Beginning

LEMMA AnswerStep == ASSUME DInv, NEW p \in Profiles, Answer(p) PROVE DInv'
<1> USE DEF DInv
<1>2. NamesOn(p) \subseteq Names
  BY DEF NamesOn
<1> DEFINE Good(r) == /\ r \in [profile : Profiles, ok : BOOLEAN, names : SUBSET Names]
                      /\ r.profile = p /\ r.names \subseteq NamesOn(p)
                      /\ r.ok => r.names = NamesOn(p)
<1>1. PICK r : results' = results \cup {r} /\ Good(r)
  <2>1. Good([profile |-> p, ok |-> TRUE, names |-> NamesOn(p)])
    BY <1>2
  <2>2. Good([profile |-> p, ok |-> FALSE, names |-> {}])
    OBVIOUS
  <2> HIDE DEF Good
  <2> QED
    BY <2>1, <2>2 DEF Answer
<1>3. /\ pc[p] = "asking" /\ pc' = [pc EXCEPT ![p] = "done"]
      /\ UNCHANGED <<live, listing, asked, scope, locations, steady, ever, events>>
  BY DEF Answer
<1>4. DiscoveryTypeOK'
  BY <1>1, <1>2, <1>3 DEF DiscoveryTypeOK
<1>5. listing = "waiting" /\ p \in asked
  BY <1>3 DEF AnswersInv
<1>6. AnswersInv'
  BY <1>1, <1>3, <1>5 DEF AnswersInv, DiscoveryTypeOK, NamesOn
<1> QED
  BY <1>3, <1>4, <1>5, <1>6 DEF ListingComplete, ListingReal

LEMMA CollectStep == ASSUME DInv, Collect PROVE DInv'
<1> USE DEF DInv
<1>1. /\ listing = "waiting" /\ \A p \in asked : pc[p] = "done"
      /\ pc' = [p \in Profiles |-> "idle"] /\ results' = {}
      /\ UNCHANGED <<live, asked, scope, steady, ever, events>>
      /\ listing' \in {"failed", "ambiguous", "listed"}
  BY DEF Collect, Merge
<1>2. DiscoveryTypeOK'
  <2>1. \A n \in scope : Found(n) # {} => (CHOOSE p \in Found(n) : TRUE) \in Profiles
    BY FoundFinite
  <2>2. scope \subseteq Names
    BY DiscoveryAssumption DEF DiscoveryTypeOK
  <2>3. DOMAIN locations' \subseteq Names /\ \A n \in DOMAIN locations' : locations'[n] \in Profiles
    <3>1. CASE locations' = locations
      BY <3>1 DEF DiscoveryTypeOK
    <3>2. CASE locations' = [n \in {x \in scope : Found(x) # {}} |-> CHOOSE p \in Found(n) : TRUE]
      BY <2>1, <2>2, <3>2
    <3> QED
      BY <3>1, <3>2 DEF Collect, Merge
  <2> QED
    BY <1>1, <2>3 DEF DiscoveryTypeOK
<1>3. AnswersInv'
  <2>1. listing' = "listed" => DOMAIN locations' \subseteq scope'
    BY <1>1 DEF Collect, Merge
  <2> QED
    BY <1>1, <2>1 DEF AnswersInv
<1>4. ListingComplete'
  <2> SUFFICES ASSUME listing' = "listed", NEW n \in scope, NEW p \in asked, <<n, p>> \in steady
               PROVE  n \in DOMAIN locations' /\ locations'[n] = p
    BY <1>1 DEF ListingComplete
  <2>1. /\ \A r \in results : r.ok
        /\ Ambiguous = {}
        /\ locations' = [x \in {y \in scope : Found(y) # {}} |-> CHOOSE q \in Found(x) : TRUE]
    BY DEF Collect, Merge
  <2>2. PICK r \in results : r.profile = p
    BY <1>1 DEF AnswersInv, DiscoveryTypeOK
  <2>3. n \in Names
    BY DiscoveryAssumption DEF DiscoveryTypeOK
  <2>4. p \in Found(n)
    BY <2>1, <2>2, <2>3 DEF Found, AnswersInv
  <2>5. ~(Cardinality(Found(n)) > 1)
    BY <2>1 DEF Ambiguous
  <2>6. \A q \in Found(n) : q = p
    BY <2>4, <2>5, FoundFinite, AtMostOne
  <2> QED
    BY <2>1, <2>4, <2>6
<1>5. \A n, p : p \in Found(n) => <<n, p>> \in ever /\ p \in asked
  BY DEF Found, AnswersInv
<1>6. ListingReal'
  <2>1. ASSUME listing' = "listed", NEW n \in DOMAIN locations'
        PROVE  <<n, locations'[n]>> \in ever
    <3>1. locations' = [x \in {y \in scope : Found(y) # {}} |-> CHOOSE q \in Found(x) : TRUE]
      BY <2>1 DEF Collect, Merge
    <3> QED
      BY <2>1, <3>1, <1>5
  <2>2. ASSUME listing' = "ambiguous"
        PROVE  \E n \in scope, p, q \in asked : p # q /\ <<n, p>> \in ever /\ <<n, q>> \in ever
    <3>1. PICK n \in scope : Cardinality(Found(n)) > 1
      BY <2>2 DEF Collect, Merge, Ambiguous
    <3>2. PICK p, q \in Found(n) : p # q
      BY <3>1, FoundFinite, TwoElements
    <3>3. /\ p \in asked /\ q \in asked
          /\ <<n, p>> \in ever /\ <<n, q>> \in ever
      BY <3>2, <1>5
    <3> QED
      BY <3>2, <3>3
  <2>3. (listing = "listed" => \A n \in DOMAIN locations : <<n, locations[n]>> \in ever)'
    BY <1>1, <2>1
  <2>4. (listing = "ambiguous" =>
           \E n \in scope, p, q \in asked : p # q /\ <<n, p>> \in ever /\ <<n, q>> \in ever)'
    BY <1>1, <2>2
  <2> QED
    BY <2>3, <2>4 DEF ListingReal
<1> QED
  BY <1>2, <1>3, <1>4, <1>6

LEMMA MovingStep == DInv /\ Moving => DInv'
<1> SUFFICES ASSUME DInv, Moving PROVE DInv'
  OBVIOUS
<1>1. PICK n \in Names, p \in Profiles : Appears(n, p) \/ Disappears(n, p)
  BY DEF Moving
<1>2. /\ UNCHANGED listingVars
      /\ live' \subseteq live \cup {<<n, p>>} /\ steady' \subseteq steady /\ steady' \subseteq live'
      /\ ever \subseteq ever' /\ (listing # "idle" => live' \subseteq ever')
      /\ ever' \subseteq ever \cup live'
      /\ events < MaxEvents /\ events' = events + 1
  BY <1>1 DEF Appears, Disappears, Runs
<1>3. DiscoveryTypeOK'
  BY <1>2, DiscoveryAssumption DEF DInv, DiscoveryTypeOK, listingVars, Places
<1>4. AnswersInv'
  BY <1>2 DEF DInv, AnswersInv, listingVars
<1>5. UNCHANGED <<listing, asked, scope, locations>>
  BY <1>2 DEF listingVars
<1>6. ListingComplete'
  BY <1>2, <1>5 DEF DInv, ListingComplete
<1>7. ListingReal'
  <2>1. ASSUME listing = "ambiguous"
        PROVE  \E m \in scope, q, r \in asked : q # r /\ <<m, q>> \in ever' /\ <<m, r>> \in ever'
    <3>1. PICK m \in scope, q, r \in asked : q # r /\ <<m, q>> \in ever /\ <<m, r>> \in ever
      BY <2>1 DEF DInv, ListingReal
    <3>2. <<m, q>> \in ever' /\ <<m, r>> \in ever'
      BY <1>2, <3>1
    <3> QED
      BY <3>1, <3>2
  <2>2. ASSUME listing = "listed", NEW m \in DOMAIN locations
        PROVE  <<m, locations[m]>> \in ever'
    BY <1>2, <2>2 DEF DInv, ListingReal
  <2>3. (listing = "listed" => \A m \in DOMAIN locations : <<m, locations[m]>> \in ever)'
    BY <1>5, <2>2
  <2>4. (listing = "ambiguous" =>
           \E m \in scope, q, r \in asked : q # r /\ <<m, q>> \in ever /\ <<m, r>> \in ever)'
    BY <1>5, <2>1
  <2> QED
    BY <2>3, <2>4 DEF ListingReal
<1> QED
  BY <1>3, <1>4, <1>6, <1>7 DEF DInv

LEMMA StillStep == DInv /\ Still => DInv'
<1> SUFFICES ASSUME DInv, Still PROVE DInv'
  OBVIOUS
<1>1. DiscoveryTypeOK'
  BY DiscoveryAssumption DEF DInv, Still, DiscoveryTypeOK, listingVars
<1>2. UNCHANGED <<live, listing, asked, scope, pc, results, locations, steady, ever>>
  BY DEF Still, listingVars
<1>3. AnswersInv'
  BY <1>2 DEF DInv, AnswersInv
<1>4. ListingComplete'
  BY <1>2 DEF DInv, ListingComplete
<1>5. ListingReal'
  BY <1>2 DEF DInv, ListingReal
<1> QED
  BY <1>1, <1>3, <1>4, <1>5 DEF DInv

LEMMA ListingInvariance == Spec => []DInv
<1>1. DInv /\ [Next]_vars => DInv'
  BY StepKinds, BeginningStep, AnswerStep, CollectStep, MovingStep, StillStep DEF Asking
<1> QED
  BY InitDInv, <1>1, PTL DEF Spec

\* What a command knows of the live connectors is right about everything that stood
\* still and was real at some time, for any number of names and profiles and any
\* interleaving of the requests with what others do.
THEOREM ListingIsFaithful == Spec => []ListingFaithful
<1>1. DInv => ListingFaithful
  BY DEF DInv, ListingFaithful
<1> QED
  BY ListingInvariance, <1>1, PTL

-----------------------------------------------------------------------------
(* ADOPT and CREATE.                                                       *)

\* A manifest that is planned is for a connector the listing has where it is planned
\* (ADOPT), or does not have at all (CREATE); what was written was planned.
PlanInv ==
  /\ cmd = "create" => scope = Names
  /\ cmd \in {"adopt", "create"} /\ phase = "items" => listing = "listed"
  /\ DOMAIN planned # {} => listing = "listed" /\ phase \in {"items", "done"}
  /\ \A n \in DOMAIN planned :
       \/ cmd = "adopt" /\ n \in DOMAIN locations /\ planned[n] = locations[n]
       \/ cmd = "create" /\ n \in Names /\ n \notin DOMAIN locations
  /\ added \subseteq DOMAIN planned

\* A listing that has ended stays as it is until the next command.
LEMMA ListedStays ==
  ASSUME DInv, [Next]_vars, ~Begins, listing = "listed"
  PROVE  UNCHANGED <<listing, asked, scope, locations>>
<1>1. ~ListingStep
  BY DEF ListingStep, Answer, Collect, DInv, AnswersInv
<1>2. CASE Goes \/ UNCHANGED vars
  BY <1>2 DEF Goes, ListingRefused, Inventory, Listed, Finish, AdoptItem, CreateItem, VerifyItem,
              StatusItem, AnnotateItem, discoveryVars, listingVars, vars
<1>3. CASE Others
  BY <1>3 DEF Others, OthersStart, OthersStop, Breaks, CFKActs, Environment, discoveryVars,
              listingVars
<1> QED
  BY <1>1, <1>2, <1>3 DEF Next

LEMMA EmptyPlan == DOMAIN << >> = {}
OBVIOUS

\* What a step that is no beginning leaves alone.
LEMMA PlanKept ==
  ASSUME PlanInv, UNCHANGED <<cmd, planned, added>>,
         listing = "listed" => UNCHANGED <<listing, locations>>,
         cmd = "create" => scope' = scope,
         phase' = phase \/ (phase' = "done" /\ phase = "items") \/ (phase = "listing" /\ DOMAIN planned = {}),
         phase' = "items" => phase = "items" \/ listing = "listed"
  PROVE  PlanInv'
BY DEF PlanInv

LEMMA PlanStep == DInv /\ PlanInv /\ [Next]_vars => PlanInv'
<1> SUFFICES ASSUME DInv, PlanInv, [Next]_vars PROVE PlanInv'
  OBVIOUS
<1>1. CASE Begins
  <2>1. planned' = << >> /\ added' = {}
    BY <1>1 DEF Begins, StartInventory, StartAdopt, StartCreate, StartVerify, StartOps, Command
  <2>2. cmd' = "create" => scope' = Names
    BY <1>1 DEF Begins, StartInventory, StartAdopt, StartCreate, StartVerify, StartOps, Command, Begin
  <2>3. cmd' \in {"adopt", "create"} => phase' = "listing"
    BY <1>1 DEF Begins, StartInventory, StartAdopt, StartCreate, StartVerify, StartOps, Command
  <2> QED
    BY <2>1, <2>2, <2>3, EmptyPlan DEF PlanInv
<1>2. CASE ~Begins
  <2>0. listing = "listed" => UNCHANGED <<listing, asked, scope, locations>>
    BY <1>2, ListedStays
  <2>1. CASE ListingStep
    BY <2>0, <2>1, PlanKept DEF ListingStep, Answer, Collect, Unmoved, commandVars, workVars
  <2>2. CASE ListingRefused \/ Inventory \/ Listed
    <3>1. DOMAIN planned = {}
      BY <2>2 DEF ListingRefused, Inventory, Listed, PlanInv
    <3> QED
      BY <2>0, <2>2, <3>1, PlanKept DEF ListingRefused, Inventory, Listed, Unmoved, commandVars, workVars,
         discoveryVars, listingVars
  <2>3. CASE Finish
    <3>1. UNCHANGED <<cmd, planned, listing, scope, locations>> /\ phase = "items" /\ phase' = "done"
      BY <2>3 DEF Finish, commandVars, discoveryVars, listingVars
    <3>2. added' = DOMAIN planned \/ added' = added
      BY <2>3 DEF Finish
    <3> QED
      BY <3>1, <3>2 DEF PlanInv
  <2>4. ASSUME NEW n \in todo, AdoptItem(n) \/ CreateItem(n) \/ VerifyItem(n)
                               \/ StatusItem(n) \/ AnnotateItem(n)
        PROVE  PlanInv'
    <3>1. UNCHANGED <<cmd, listing, scope, locations, phase, added>> /\ phase = "items"
      BY <2>4 DEF AdoptItem, CreateItem, VerifyItem, StatusItem, AnnotateItem, Item, Unmoved, commandVars,
         discoveryVars, listingVars
    <3>2. CASE UNCHANGED planned
      BY <3>1, <3>2 DEF PlanInv
    <3>3. ASSUME NEW p, Plans(n, p),
                 \/ cmd = "adopt" /\ n \in DOMAIN locations /\ p = locations[n]
                 \/ cmd = "create" /\ n \in Names /\ n \notin DOMAIN locations
          PROVE  PlanInv'
      <4>1. planned' = [x \in DOMAIN planned \cup {n} |-> IF x = n THEN p ELSE planned[x]]
        BY <3>3 DEF Plans
      <4> QED
        BY <3>1, <3>3, <4>1 DEF PlanInv
    <3>4. CASE AdoptItem(n)
      BY <3>2, <3>3, <3>4 DEF AdoptItem, Succeeds, Fails
    <3>5. CASE CreateItem(n)
      BY <3>2, <3>3, <3>5, DiscoveryAssumption DEF CreateItem, Fails
    <3>6. CASE VerifyItem(n) \/ StatusItem(n) \/ AnnotateItem(n)
      BY <3>2, <3>6 DEF VerifyItem, StatusItem, AnnotateItem, Succeeds, Fails
    <3> QED
      BY <2>4, <3>4, <3>5, <3>6
  <2>5. CASE Others
    BY <2>0, <2>5, PlanKept DEF Others, OthersStart, OthersStop, Breaks, CFKActs, Environment,
       discoveryVars, listingVars, commandVars, workVars
  <2>6. CASE UNCHANGED vars
    BY <2>6, PlanKept DEF vars, discoveryVars, listingVars, commandVars, workVars
  <2> QED
    BY <1>2, <2>1, <2>2, <2>3, <2>4, <2>5, <2>6 DEF Next, Goes
<1> QED
  BY <1>1, <1>2

LEMMA PlanInvariance == Spec => []PlanInv
<1>1. Init => PlanInv
  BY EmptyPlan DEF Init, PlanInv
<1> QED
  BY <1>1, PlanStep, ListingInvariance, PTL DEF Spec

\* ADOPT writes no manifest for a connector that stayed on another of the profiles it
\* listed, and CREATE none for one that stayed on any of them.
THEOREM NewManifestsStandAlone == Spec => []NewManifestAlone
<1>1. DInv /\ PlanInv => NewManifestAlone
  BY DEF DInv, PlanInv, NewManifestAlone, ListingComplete, AnswersInv
<1> QED
  BY <1>1, PlanInvariance, ListingInvariance, PTL

-----------------------------------------------------------------------------
(* The types of Operations.                                                *)

\* No connector was restarted by more runs than there were.
RunsInv == \A n \in Names : restartRuns[n] <= commands

TInv == TypeOK /\ RunsInv

LEMMA InitTInv == Init => TInv
<1> SUFFICES ASSUME Init PROVE TInv
  OBVIOUS
<1>1. DiscoveryTypeOK
  BY InitDInv DEF DInv
<1>2. TypeOK
  BY <1>1, EmptyPlan, OperationsAssumption
  DEF Init, TypeOK, Operation
<1>3. RunsInv
  BY DEF Init, RunsInv
<1> QED
  BY <1>2, <1>3 DEF TInv

LEMMA BeginsTypes == TInv /\ DiscoveryTypeOK' /\ Begins => TInv'
<1> SUFFICES ASSUME TInv, DiscoveryTypeOK', Begins PROVE TInv'
  OBVIOUS
<1>1. PICK c \in Commands : Command(c)
  BY DEF Begins, StartInventory, StartAdopt, StartCreate, StartVerify, StartOps, Commands
<1>2. /\ UNCHANGED <<git, health, annotation, restarts>>
      /\ commands \in 0..MaxCommands /\ commands < MaxCommands /\ commands' = commands + 1
      /\ cmd' \in Commands
      /\ failed' = {} /\ planned' = << >> /\ added' = {} /\ acted' = {}
  BY <1>1 DEF Command, Watch, TInv, TypeOK
<1>3. well' \subseteq Places
  BY <1>1 DEF Command, Watch, TInv, TypeOK, DiscoveryTypeOK
<1>4. commands' \in 0..MaxCommands
  BY <1>2, OperationsAssumption
<1>5. selected' \subseteq Names /\ todo' \subseteq selected'
  BY DiscoveryAssumption
  DEF Begins, StartInventory, StartAdopt, StartCreate, StartVerify, StartOps, Reads
<1>6. phase' \in {"idle", "listing", "items", "done", "refused"}
  BY DEF Begins, StartInventory, StartAdopt, StartCreate, StartVerify, StartOps, Reads
<1>7. operation' \in Operation /\ dryRun' \in BOOLEAN
  BY OperationsAssumption
  DEF Begins, StartInventory, StartAdopt, StartCreate, StartVerify, StartOps, Operation
<1>8. restartRuns' \in [Names -> 0..MaxCommands] /\ RunsInv'
  <2>1. restartRuns \in [Names -> 0..MaxCommands] /\ RunsInv
    BY DEF TInv, TypeOK
  <2>2. CASE UNCHANGED restartRuns
    BY <1>2, <2>1, <2>2, OperationsAssumption DEF RunsInv
  <2>3. CASE StartOps
    <3> DEFINE step(n) == IF operation' = "restart" /\ ~dryRun' /\ n \in selected' THEN 1 ELSE 0
    <3>1. restartRuns' = [n \in Names |-> restartRuns[n] + step(n)]
      BY <2>3 DEF StartOps
    <3>2. \A n \in Names : /\ restartRuns'[n] = restartRuns[n] + step(n)
                           /\ step(n) \in {0, 1} /\ restartRuns[n] \in Nat /\ restartRuns[n] <= commands
      BY <2>1, <3>1 DEF RunsInv
    <3> HIDE DEF step
    <3>3. \A n \in Names : restartRuns'[n] \in 0..MaxCommands /\ restartRuns'[n] <= commands'
      BY <1>2, <3>2, OperationsAssumption
    <3> QED
      BY <3>1, <3>3 DEF RunsInv
  <2> QED
    BY <2>2, <2>3 DEF Begins, StartInventory, StartAdopt, StartCreate, StartVerify
<1> QED
  BY <1>2, <1>3, <1>4, <1>5, <1>6, <1>7, <1>8, EmptyPlan DEF TInv, TypeOK

\* One item: it is done, and failed, planned or neither.
LEMMA ItemTypes ==
  ASSUME TInv, DiscoveryTypeOK', NEW n \in todo, Item(n),
         \/ Succeeds \/ Fails(n) \/ \E p \in Profiles : Plans(n, p),
         annotation' = annotation \/ \E c : annotation' = [annotation EXCEPT ![c] = operation]
                                          /\ operation # "status",
         UNCHANGED <<git, health, restarts, commandVars, acted, well, restartRuns, phase, added>>
  PROVE  TInv'
<1>1. todo' = todo \ {n} /\ n \in selected /\ todo \subseteq selected /\ failed \subseteq selected \ todo
  BY DEF Item, TInv, TypeOK
<1>2. UNCHANGED <<cmd, operation, dryRun, selected, commands>>
  BY DEF commandVars
<1>3. todo' \subseteq selected' /\ failed' \subseteq selected' \ todo'
  BY <1>1, <1>2 DEF Succeeds, Fails, Plans
<1>4. DOMAIN planned' \subseteq selected' /\ \A x \in DOMAIN planned' : planned'[x] \in Profiles
  <2>1. CASE UNCHANGED planned
    BY <1>2, <2>1 DEF TInv, TypeOK
  <2>2. ASSUME NEW p \in Profiles, Plans(n, p)
        PROVE  DOMAIN planned' \subseteq selected' /\ \A x \in DOMAIN planned' : planned'[x] \in Profiles
    BY <1>1, <1>2, <2>2 DEF Plans, TInv, TypeOK
  <2> QED
    BY <2>1, <2>2 DEF Succeeds, Fails
<1>5. annotation' \in [CRs -> {"none", "pause", "resume", "restart"}]
  BY DEF TInv, TypeOK, Operation
<1>6. RunsInv'
  BY <1>2 DEF TInv, RunsInv
<1> QED
  BY <1>2, <1>3, <1>4, <1>5, <1>6 DEF TInv, TypeOK

LEMMA GoesTypes == TInv /\ DiscoveryTypeOK' /\ Goes => TInv'
<1> SUFFICES ASSUME TInv, DiscoveryTypeOK', Goes PROVE TInv'
  OBVIOUS
<1>1. CASE ListingRefused \/ Inventory \/ Listed
  <2>1. UNCHANGED <<git, health, annotation, restarts, cmd, operation, dryRun, selected, commands, acted,
                    well, restartRuns, failed, planned, added>>
    BY <1>1 DEF ListingRefused, Inventory, Listed, Unmoved, commandVars, workVars
  <2>2. todo' \in {todo, {}} /\ phase' \in {"refused", "done", "items"}
    BY <1>1 DEF ListingRefused, Inventory, Listed, workVars
  <2> QED
    BY <2>1, <2>2 DEF TInv, TypeOK, RunsInv
<1>2. CASE Finish
  <2> DEFINE new == {CrName[n] : n \in DOMAIN planned}
             of(c) == CHOOSE n \in DOMAIN planned : CrName[n] = c
             written == [c \in DOMAIN git \cup new |->
                           IF c \in DOMAIN git THEN git[c]
                           ELSE [name |-> of(c), label |-> planned[of(c)],
                                 ref |-> Ref[planned[of(c)]]]]
  <2>1. /\ UNCHANGED <<health, annotation, restarts, cmd, operation, dryRun, selected, commands, acted,
                       well, restartRuns, todo, failed, planned>>
        /\ phase' = "done"
    BY <1>2 DEF Finish, commandVars
  <2>2. \/ git' = git /\ added' = added
        \/ git' = written /\ added' = DOMAIN planned
    BY <1>2, Zenon DEF Finish
  <2>3. \A n \in DOMAIN planned : n \in Names /\ planned[n] \in Profiles
    BY DEF TInv, TypeOK
  <2>4. DOMAIN written \subseteq CRs /\ \A c \in DOMAIN written : written[c] \in Manifest
    <3>1. new \subseteq CRs
      BY <2>3, OperationsAssumption
    <3>2. \A c \in new : of(c) \in DOMAIN planned
      OBVIOUS
    <3>3. \A c \in new : [name |-> of(c), label |-> planned[of(c)], ref |-> Ref[planned[of(c)]]] \in Manifest
      <4> HIDE DEF of, new
      <4> QED
        BY <2>3, <3>2, OperationsAssumption DEF Manifest
    <3>4. DOMAIN git \subseteq CRs /\ \A c \in DOMAIN git : git[c] \in Manifest
      BY DEF TInv, TypeOK
    <3> HIDE DEF of, new
    <3> QED
      BY <3>1, <3>3, <3>4
  <2> HIDE DEF written
  <2>5. DOMAIN git' \subseteq CRs /\ \A c \in DOMAIN git' : git'[c] \in Manifest
    BY <2>2, <2>4 DEF TInv, TypeOK
  <2>6. added' \subseteq selected
    BY <2>2 DEF TInv, TypeOK
  <2> QED
    BY <2>1, <2>5, <2>6 DEF TInv, TypeOK, RunsInv
<1>3. ASSUME NEW n \in todo, AdoptItem(n) \/ CreateItem(n) \/ VerifyItem(n) \/ StatusItem(n)
      PROVE  TInv'
  <2>1. \A m \in DOMAIN locations : locations[m] \in Profiles
    BY DEF TInv, TypeOK, DiscoveryTypeOK
  <2>2. /\ Item(n)
        /\ Succeeds \/ Fails(n) \/ \E p \in Profiles : Plans(n, p)
        /\ UNCHANGED <<annotation, git, health, restarts, commandVars, acted, well, restartRuns, phase, added>>
    BY <1>3, <2>1 DEF AdoptItem, CreateItem, VerifyItem, StatusItem, Unmoved
  <2> QED
    BY <2>2, ItemTypes
<1>4. ASSUME NEW n \in todo, AnnotateItem(n)
      PROVE  TInv'
  <2>1. annotation' = annotation \/ \E c : annotation' = [annotation EXCEPT ![c] = operation]
    BY <1>4 DEF AnnotateItem, Annotated
  <2>2. /\ Item(n) /\ operation # "status"
        /\ Succeeds \/ Fails(n)
        /\ UNCHANGED <<git, health, restarts, commandVars, acted, well, restartRuns, phase, added>>
    BY <1>4 DEF AnnotateItem
  <2> QED
    BY <2>1, <2>2, ItemTypes
<1> QED
  BY <1>1, <1>2, <1>3, <1>4 DEF Goes

LEMMA OthersTypes == TInv /\ DiscoveryTypeOK' /\ Others => TInv'
<1> SUFFICES ASSUME TInv, DiscoveryTypeOK', Others PROVE TInv'
  OBVIOUS
<1>1. UNCHANGED <<git, cmd, operation, dryRun, selected, commands, phase, todo, failed, planned, added,
                  restartRuns>>
  BY DEF Others, OthersStart, OthersStop, Breaks, CFKActs, Environment, commandVars, workVars
<1>2. Watched
  BY DEF Others, OthersStart, OthersStop, Breaks, CFKActs
<1>3. well' \subseteq Places
  BY <1>2 DEF Watched, TInv, TypeOK, DiscoveryTypeOK
<1>4. /\ health' \in [Places -> Healths]
      /\ annotation' \in [CRs -> {"none", "pause", "resume", "restart"}]
      /\ acted' \subseteq CRs
      /\ restarts' \in [Names -> Nat]
  <2>1. /\ health \in [Places -> Healths]
        /\ annotation \in [CRs -> {"none", "pause", "resume", "restart"}]
        /\ acted \subseteq CRs
        /\ restarts \in [Names -> Nat]
        /\ DOMAIN git \subseteq CRs /\ \A c \in DOMAIN git : git[c].name \in Names
    BY DEF TInv, TypeOK, Manifest
  <2>2. ASSUME NEW n \in Names, NEW p \in Profiles, OthersStart(n, p) \/ OthersStop(n, p) \/ Breaks(n, p)
        PROVE  /\ UNCHANGED <<annotation, acted, restarts>>
               /\ health' \in [Places -> Healths]
    BY <2>1, <2>2 DEF OthersStart, OthersStop, Breaks, Environment, Healths
  <2>3. ASSUME NEW c \in CRs, CFKActs(c)
        PROVE  /\ health' \in [Places -> Healths]
               /\ annotation' \in [CRs -> {"none", "pause", "resume", "restart"}]
               /\ acted' \subseteq CRs
               /\ restarts' \in [Names -> Nat]
    <3>1. c \in DOMAIN git /\ git[c].name \in Names
      BY <2>1, <2>3 DEF CFKActs
    <3>2. annotation' = [annotation EXCEPT ![c] = "none"] /\ (acted' = acted \cup {c} \/ acted' = acted)
      BY <2>3 DEF CFKActs
    <3>3. restarts' = restarts \/ restarts' = [restarts EXCEPT ![git[c].name] = @ + 1]
      BY <2>3 DEF CFKActs
    <3>4. health' \in [Places -> Healths]
      BY <2>1, <2>3 DEF CFKActs, Healths
    <3> QED
      BY <2>1, <3>1, <3>2, <3>3, <3>4
  <2> QED
    BY <2>1, <2>2, <2>3 DEF Others
<1> QED
  BY <1>1, <1>3, <1>4 DEF TInv, TypeOK, RunsInv

LEMMA TypeInvariance == Spec => []TInv
<1>1. TInv /\ DInv' /\ [Next]_vars => TInv'
  <2> SUFFICES ASSUME TInv, DInv', [Next]_vars PROVE TInv'
    OBVIOUS
  <2>0. DiscoveryTypeOK'
    BY DEF DInv
  <2>1. CASE ListingStep \/ UNCHANGED vars
    <3>1. UNCHANGED <<git, health, annotation, restarts, cmd, operation, dryRun, phase, selected, todo,
                      failed, planned, commands, added, acted, well, restartRuns>>
      BY <2>1 DEF ListingStep, Unmoved, commandVars, workVars, vars
    <3> QED
      BY <2>0, <3>1 DEF TInv, TypeOK, RunsInv
  <2> QED
    BY <2>0, <2>1, BeginsTypes, GoesTypes, OthersTypes DEF Next
<1> QED
  BY <1>1, InitTInv, ListingInvariance, PTL DEF Spec

\* Every variable of Operations keeps its type, for any names, profiles and trees.
THEOREM TypeCorrect == Spec => []TypeOK
<1>1. TInv => TypeOK
  BY DEF TInv
<1> QED
  BY <1>1, TypeInvariance, PTL

-----------------------------------------------------------------------------
(* VERIFY.                                                                 *)

\* A connector that has passed was in order on the profile of its manifest; what is in
\* order now has been seen to be.
Passed(n) == \E c \in DOMAIN git : git[c].name = n /\ {n} \X Matching(git[c]) \cap well # {}

VerifyInv ==
  cmd = "verify" =>
    /\ phase \in {"items", "done"} => \A n \in selected \ (failed \cup todo) : Passed(n)
    /\ phase = "items" => ~Unreadable /\ {x \in live : health[x] = "running"} \subseteq well
    /\ phase = "done" => todo = {}
    /\ phase # "listing"

LEMMA ProfileMatches ==
  ASSUME NEW m, ProfileFromCR(m) # NoProfile
  PROVE  ProfileFromCR(m) \in Matching(m)
<1>1. CASE m.label # NoLabel /\ m.label \in Matching(m)
  BY <1>1 DEF ProfileFromCR
<1>2. CASE m.label = NoLabel /\ Cardinality(Matching(m)) = 1
  <2>1. Matching(m) # {}
    BY <1>2, FS_EmptySet
  <2> QED
    BY <1>2, <2>1 DEF ProfileFromCR
<1> QED
  BY <1>1, <1>2 DEF ProfileFromCR

\* The tree, for a connector that has a manifest.
LEMMA CrOfManaged ==
  ASSUME NEW n \in ManagedNames
  PROVE  CrOf(n) \in DOMAIN git /\ git[CrOf(n)].name = n
BY DEF ManagedNames, CrOf

LEMMA VerifyStep == TInv /\ VerifyInv /\ [Next]_vars => VerifyInv'
<1> SUFFICES ASSUME TInv, VerifyInv, [Next]_vars, cmd' = "verify" PROVE VerifyInv'
  BY DEF VerifyInv
<1>1. CASE Begins
  <2>1. StartVerify
    BY <1>1 DEF Begins, StartInventory, StartAdopt, StartCreate, StartOps, Command
  <2>2. /\ UNCHANGED <<live, git, health>> /\ failed' = {}
        /\ well' = {x \in live : health[x] = "running"}
    BY <2>1 DEF StartVerify, Command, Watch
  <2>3. \/ phase' = "refused"
        \/ phase' = "items" /\ selected' = todo' /\ ~Unreadable
    BY <2>1 DEF StartVerify, Reads
  <2>4. Unreadable' <=> Unreadable
    BY <2>2 DEF Unreadable, ProfileFromCR, Matching
  <2> QED
    BY <2>2, <2>3, <2>4 DEF VerifyInv
<1>2. CASE ~Begins /\ ~Others
  <2>1. cmd = "verify" /\ ~(phase = "listing")
    BY <1>2 DEF Next, ListingStep, Goes, ListingRefused, Inventory, Listed, Finish, AdoptItem, CreateItem,
       VerifyItem, StatusItem, AnnotateItem, Unmoved, commandVars, vars, VerifyInv
  <2>2. CASE ListingStep \/ UNCHANGED vars
    <3>1. UNCHANGED <<git, cmd, live, health, phase, selected, todo, failed, well>>
      BY <2>2 DEF ListingStep, Answer, Collect, Unmoved, commandVars, workVars, vars, discoveryVars
    <3>2. \A m \in selected : Passed(m) => Passed(m)'
      BY <3>1 DEF Passed, Matching
    <3>3. Unreadable' <=> Unreadable
      BY <3>1 DEF Unreadable, ProfileFromCR, Matching
    <3> QED
      BY <3>1, <3>2, <3>3 DEF VerifyInv
  <2>3. CASE Finish
    <3>1. git' = git /\ phase = "items" /\ phase' = "done" /\ todo = {}
      BY <2>1, <2>3 DEF Finish, Writes
    <3>2. UNCHANGED <<cmd, selected, todo, failed, well>>
      BY <2>3 DEF Finish, commandVars
    <3> QED
      BY <3>1, <3>2 DEF VerifyInv, Passed, Matching
  <2>4. ASSUME NEW n \in todo, VerifyItem(n)
        PROVE  VerifyInv'
    <3>1. /\ UNCHANGED <<git, cmd, selected, well, live, health, phase>>
          /\ phase = "items" /\ todo' = todo \ {n}
      BY <2>4 DEF VerifyItem, Item, Unmoved, commandVars, discoveryVars
    <3>2. \A m \in selected : Passed(m) => Passed(m)'
      BY <3>1 DEF Passed, Matching
    <3>3. Unreadable' <=> Unreadable
      BY <3>1 DEF Unreadable, ProfileFromCR, Matching
    <3>4. n \in failed' \/ Passed(n)
      <4>1. CASE Fails(n)
        BY <4>1 DEF Fails
      <4>2. CASE /\ n \in ManagedNames /\ <<n, GitProfile(n)>> \in live
                 /\ InOrder(health[<<n, GitProfile(n)>>])
        <5>1. CrOf(n) \in DOMAIN git /\ git[CrOf(n)].name = n
          BY <4>2, CrOfManaged
        <5>2. ProfileFromCR(git[CrOf(n)]) # NoProfile
          BY <2>1, <3>1, <5>1 DEF VerifyInv, Unreadable
        <5>3. GitProfile(n) \in Matching(git[CrOf(n)])
          BY <5>2, ProfileMatches DEF GitProfile
        <5>4. <<n, GitProfile(n)>> \in well
          BY <2>1, <3>1, <4>2 DEF VerifyInv, InOrder
        <5> QED
          BY <5>1, <5>3, <5>4 DEF Passed
      <4> QED
        BY <2>4, <4>1, <4>2 DEF VerifyItem
    <3>5. failed \subseteq failed'
      BY <2>4 DEF VerifyItem, Fails, Succeeds
    <3> QED
      BY <2>1, <3>1, <3>2, <3>3, <3>4, <3>5 DEF VerifyInv
  <2> QED
    BY <1>2, <2>1, <2>2, <2>3, <2>4 DEF Next, Goes, ListingRefused, Inventory, Listed, AdoptItem, CreateItem,
       StatusItem, AnnotateItem
<1>3. CASE Others
  <2>1. UNCHANGED <<git, cmd, selected, todo, failed, phase>> /\ Watched
    BY <1>3 DEF Others, OthersStart, OthersStop, Breaks, CFKActs, Environment, commandVars, workVars
  <2>2. well \subseteq well'
    BY <2>1 DEF Watched
  <2>3. \A m \in selected : Passed(m) => Passed(m)'
    BY <2>1, <2>2 DEF Passed, Matching
  <2>4. Unreadable' <=> Unreadable
    BY <2>1 DEF Unreadable, ProfileFromCR, Matching
  <2>5. phase = "items" => {x \in live' : health'[x] = "running"} \subseteq well'
    BY <2>1 DEF Watched, Busy
  <2> QED
    BY <2>1, <2>3, <2>4, <2>5 DEF VerifyInv
<1> QED
  BY <1>1, <1>2, <1>3

\* VERIFY passes a connector only if it was in order on the profile of its manifest at
\* some time of the command, whatever changes while it looks.
THEOREM VerifyIsTruthful == Spec => []VerifyTruthful
<1>1. Init => VerifyInv
  BY DEF Init, VerifyInv
<1>2. VerifyInv => VerifyTruthful
  BY DEF VerifyInv, VerifyTruthful, Passed
<1> QED
  BY <1>1, <1>2, VerifyStep, TypeInvariance, PTL DEF Spec

-----------------------------------------------------------------------------
(* INVENTORY.                                                              *)

\* INVENTORY lists every profile and keeps the names of the environment.
ScopeInv ==
  cmd = "inventory" =>
    /\ phase \in {"listing", "done"} => scope = Env /\ asked = Profiles
    /\ phase = "done" => listing = "listed"
    /\ phase # "items"

LEMMA SplitCardinality ==
  ASSUME NEW S, IsFiniteSet(S), NEW T \in SUBSET S, NEW U, U = S \ T
  PROVE  /\ Cardinality(S) = Cardinality(T) + Cardinality(U)
         /\ Cardinality(T) \in Nat /\ Cardinality(U) \in Nat
<1>1. IsFiniteSet(T) /\ IsFiniteSet(U)
  BY FS_Subset
<1>2. Cardinality(T \cup U) = Cardinality(T) + Cardinality(U) - Cardinality(T \cap U)
  BY <1>1, FS_Union
<1>3. T \cup U = S /\ T \cap U = {}
  OBVIOUS
<1>4. Cardinality({}) = 0
  BY FS_EmptySet
<1>5. Cardinality(T) \in Nat /\ Cardinality(U) \in Nat
  BY <1>1, FS_CardinalityType
<1>6. Cardinality(T \cup U) = Cardinality(S) /\ Cardinality(T \cap U) = 0
  BY <1>3, <1>4
<1> QED
  BY <1>2, <1>5, <1>6

\* The report of a comparison adds up.
LEMMA ClassifyAddsUp ==
  ASSUME NEW L, NEW G, L \subseteq Names, G \subseteq Names
  PROVE  LET report == Classify(L, G)
         IN /\ report.liveCount = Cardinality(report.adopted) + Cardinality(report.mismatch)
                                  + Cardinality(report.pending)
            /\ report.gitCount = Cardinality(report.adopted) + Cardinality(report.mismatch)
                                 + Cardinality(report.gitOnly)
<1> DEFINE A == {n \in L \cap G : locations[n] = GitProfile(n)}
           M == {n \in L \cap G : locations[n] # GitProfile(n)}
<1>1. IsFiniteSet(L) /\ IsFiniteSet(G) /\ IsFiniteSet(L \cap G)
  BY DiscoveryAssumption, FS_Subset
<1>2. /\ Cardinality(L \cap G) = Cardinality(A) + Cardinality(M)
      /\ Cardinality(A) \in Nat /\ Cardinality(M) \in Nat
  <2>1. A \in SUBSET (L \cap G) /\ M = (L \cap G) \ A
    OBVIOUS
  <2>2. ASSUME NEW B, IsFiniteSet(B), A \in SUBSET B, M = B \ A
        PROVE  /\ Cardinality(B) = Cardinality(A) + Cardinality(M)
               /\ Cardinality(A) \in Nat /\ Cardinality(M) \in Nat
    <3> HIDE DEF A, M
    <3> QED
      BY <2>2, SplitCardinality
  <2> HIDE DEF A, M
  <2> QED
    BY <1>1, <2>1, <2>2
<1>3. /\ Cardinality(L) = Cardinality(L \cap G) + Cardinality(L \ G)
      /\ Cardinality(L \ G) \in Nat
  <2>1. L \cap G \in SUBSET L /\ L \ G = L \ (L \cap G)
    OBVIOUS
  <2> QED
    BY <1>1, <2>1, SplitCardinality
<1>4. /\ Cardinality(G) = Cardinality(L \cap G) + Cardinality(G \ L)
      /\ Cardinality(G \ L) \in Nat
  <2>1. L \cap G \in SUBSET G /\ G \ L = G \ (L \cap G)
    OBVIOUS
  <2> QED
    BY <1>1, <2>1, SplitCardinality
<1> QED
  BY <1>2, <1>3, <1>4 DEF Classify

LEMMA ScopeStep == DInv /\ ScopeInv /\ [Next]_vars => ScopeInv'
<1> SUFFICES ASSUME DInv, ScopeInv, [Next]_vars, cmd' = "inventory" PROVE ScopeInv'
  BY DEF ScopeInv
<1>1. CASE Begins
  <2>1. StartInventory
    BY <1>1 DEF Begins, StartAdopt, StartCreate, StartVerify, StartOps, Command
  <2> QED
    BY <2>1 DEF StartInventory, Begin, AllProfileNames, ScopeInv
<1>2. CASE ~Begins
  <2>1. UNCHANGED <<cmd, asked, scope>>
    BY <1>2 DEF Next, ListingStep, Answer, Collect, Goes, ListingRefused, Inventory, Listed, Finish,
       AdoptItem, CreateItem, VerifyItem, StatusItem, AnnotateItem, Others, OthersStart, OthersStop, Breaks,
       CFKActs, Environment, Unmoved, commandVars, discoveryVars, listingVars, vars
  <2>2. phase' \in {phase, "refused"} \/ (phase' = "done" /\ phase = "listing" /\ listing = "listed")
    BY <1>2, <2>1 DEF Next, ListingStep, Goes, ListingRefused, Inventory, Listed, Finish,
       AdoptItem, CreateItem, VerifyItem, StatusItem, AnnotateItem, Others, OthersStart, OthersStop, Breaks,
       CFKActs, Environment, vars, ScopeInv
  <2>3. listing = "listed" => listing' = "listed"
    BY <1>2, ListedStays
  <2> QED
    BY <2>1, <2>2, <2>3 DEF ScopeInv
<1> QED
  BY <1>1, <1>2

\* The report, on the day it is made.
LEMMA ReportMade ==
  ASSUME TInv, DInv, ScopeInv, Inventory, phase' = "done"
  PROVE  InventoryHonest'
<1> DEFINE L == DOMAIN locations
           G == ManagedNames
<1>1. /\ inventory' = Classify(L, G) /\ cmd = "inventory" /\ listing = "listed" /\ phase = "listing"
      /\ UNCHANGED <<locations, steady, ever, git>>
  BY DEF Inventory, Unmoved, discoveryVars, listingVars
<1>2. L \subseteq Names /\ G \subseteq Names
  BY DEF TInv, TypeOK, DiscoveryTypeOK, Manifest, ManagedNames
<1>3. \A n : GitProfile(n)' = GitProfile(n)
  BY <1>1 DEF GitProfile, CrOf, ProfileFromCR, Matching
<1>4. ManagedNames' = G
  BY <1>1 DEF ManagedNames
<1>5. ASSUME NEW x \in steady, x[1] \in Env
      PROVE  x[1] \in IF x[1] \notin G THEN inventory'.pending
                      ELSE IF GitProfile(x[1]) = x[2] THEN inventory'.adopted
                      ELSE inventory'.mismatch
  <2>1. PICK n \in Names, p \in Profiles : x = <<n, p>>
    BY DEF DInv, DiscoveryTypeOK, Places
  <2>2. n \in scope /\ p \in asked
    BY <1>1, <1>5, <2>1 DEF ScopeInv
  <2>3. n \in L /\ locations[n] = p
    BY <1>1, <2>1, <2>2 DEF DInv, ListingComplete
  <2> QED
    BY <1>1, <2>1, <2>3 DEF Classify
<1>6. \A n \in inventory'.adopted : <<n, GitProfile(n)>> \in ever
  BY <1>1 DEF Classify, DInv, ListingReal
<1>7. /\ inventory'.liveCount = Cardinality(inventory'.adopted) + Cardinality(inventory'.mismatch)
                                + Cardinality(inventory'.pending)
      /\ inventory'.gitCount = Cardinality(inventory'.adopted) + Cardinality(inventory'.mismatch)
                               + Cardinality(inventory'.gitOnly)
  BY <1>1, <1>2, ClassifyAddsUp
<1> QED
  BY <1>1, <1>3, <1>4, <1>5, <1>6, <1>7 DEF InventoryHonest

LEMMA HonestStep ==
  TInv /\ DInv /\ ScopeInv /\ InventoryHonest /\ [Next]_vars => InventoryHonest'
<1> SUFFICES ASSUME TInv, DInv, ScopeInv, InventoryHonest, [Next]_vars,
                    phase' = "done", cmd' = "inventory"
             PROVE  InventoryHonest'
  BY DEF InventoryHonest
<1>1. ~Begins
  BY DEF Begins, StartInventory, StartAdopt, StartCreate, StartVerify, StartOps, Command, Reads
<1>2. cmd = "inventory"
  BY <1>1 DEF Next, ListingStep, Goes, ListingRefused, Inventory, Listed, Finish, AdoptItem, CreateItem,
     VerifyItem, StatusItem, AnnotateItem, Others, OthersStart, OthersStop, Breaks, CFKActs, Environment,
     Unmoved, commandVars, vars
<1>3. CASE Inventory
  BY <1>3, ReportMade
<1>4. CASE ~Inventory
  <2>1. phase = "done"
    BY <1>1, <1>2, <1>4 DEF Next, ListingStep, Goes, ListingRefused, Listed, Finish, AdoptItem, CreateItem,
       VerifyItem, StatusItem, AnnotateItem, Others, OthersStart, OthersStop, Breaks, CFKActs, Environment,
       vars, ScopeInv
  <2>2. UNCHANGED <<git, steady, ever, inventory>>
    BY <1>1, <1>4, <2>1 DEF Next, ListingStep, Answer, Collect, Goes, ListingRefused, Listed, Finish,
       AdoptItem, CreateItem, VerifyItem, StatusItem, AnnotateItem, Item, Others, OthersStart, OthersStop,
       Breaks, CFKActs, Busy, Environment, Unmoved, workVars, discoveryVars, vars
  <2>3. \A n : GitProfile(n)' = GitProfile(n)
    BY <2>2 DEF GitProfile, CrOf, ProfileFromCR, Matching
  <2>4. ManagedNames' = ManagedNames
    BY <2>2 DEF ManagedNames
  <2> QED
    BY <1>2, <2>1, <2>2, <2>3, <2>4 DEF InventoryHonest
<1> QED
  BY <1>3, <1>4

\* INVENTORY is right about what stood still, and its counts add up.
THEOREM InventoryIsHonest == Spec => []InventoryHonest
<1>1. Init => ScopeInv /\ InventoryHonest
  BY DEF Init, ScopeInv, InventoryHonest
<1> QED
  BY <1>1, ScopeStep, HonestStep, ListingInvariance, TypeInvariance, PTL DEF Spec

-----------------------------------------------------------------------------
(* OPS.                                                                    *)

\* A restart that CFK has still to do, and one that the command has still to ask for.
Pending(n) == IF \E c \in DOMAIN git : git[c].name = n /\ annotation[c] = "restart" THEN 1 ELSE 0
Due(n) == IF cmd = "ops" /\ phase = "items" /\ operation = "restart" /\ ~dryRun /\ n \in todo
          THEN 1 ELSE 0

Reached(n) == \E c \in DOMAIN git : git[c].name = n /\ (annotation[c] = operation \/ c \in acted)

\* Only CRs of the tree are annotated, one of each connector with a restart; every
\* restart, done, pending or due, was asked for by a run of its own.
RestartInv ==
  /\ \A c \in CRs : annotation[c] # "none" => c \in DOMAIN git
  /\ \A c, d \in DOMAIN git :
       annotation[c] = "restart" /\ annotation[d] = "restart" /\ git[c].name = git[d].name => c = d
  /\ \A n \in Names : restarts[n] + Pending(n) + Due(n) <= restartRuns[n]

\* OPS works on a tree it has read, and what it has done reached a CR.
ReachInv ==
  cmd = "ops" =>
    /\ phase = "items" => ~Unreadable
    /\ phase = "done" => todo = {}
    /\ phase # "listing"
    /\ operation # "status" /\ ~dryRun /\ phase \in {"items", "done"} =>
         \A n \in selected \ (failed \cup todo) : Reached(n)

OInv == RestartInv /\ ReachInv

LEMMA CountTypes ==
  ASSUME TypeOK, NEW n \in Names
  PROVE  /\ Pending(n) \in {0, 1} /\ Due(n) \in {0, 1}
         /\ restarts[n] \in Nat /\ restartRuns[n] \in Nat
BY OperationsAssumption DEF Pending, Due, TypeOK

\* A step that annotates nothing, in a tree that stays.
LEMMA QuietOps ==
  ASSUME TInv, TInv', OInv,
         UNCHANGED <<git, annotation, restarts, restartRuns>>,
         \A n \in Names : Due(n)' <= Due(n)
  PROVE  RestartInv'
<1>1. \A n \in Names : Pending(n)' = Pending(n)
  BY DEF Pending
<1>2. ASSUME NEW n \in Names
      PROVE  restarts'[n] + Pending(n)' + Due(n)' <= restartRuns'[n]
  <2>1. restarts[n] + Pending(n) + Due(n) <= restartRuns[n]
    BY DEF OInv, RestartInv
  <2>2. Due(n)' \in {0, 1}
    BY DEF Due
  <2> QED
    BY <1>1, <2>1, <2>2, CountTypes DEF TInv
<1> QED
  BY <1>2 DEF OInv, RestartInv

LEMMA OpsBegins == TInv /\ TInv' /\ OInv /\ Begins => OInv'
<1> SUFFICES ASSUME TInv, TInv', OInv, Begins PROVE OInv'
  OBVIOUS
<1>1. UNCHANGED <<git, annotation, restarts>> /\ failed' = {}
  BY DEF Begins, StartInventory, StartAdopt, StartCreate, StartVerify, StartOps, Command
<1>2. phase # "items"
  BY DEF Begins, StartInventory, StartAdopt, StartCreate, StartVerify, StartOps, Command
<1>3. CASE StartOps
  <2>1. \/ phase' = "refused" /\ selected' = {} /\ todo' = {}
        \/ phase' = "items" /\ selected' = todo' /\ ~Unreadable
    BY <1>3 DEF StartOps, Reads
  <2>2. Unreadable' <=> Unreadable
    BY <1>1 DEF Unreadable, ProfileFromCR, Matching
  <2>3. ReachInv'
    BY <1>1, <2>1, <2>2 DEF ReachInv
  <2>4. ASSUME NEW n \in Names
        PROVE  restarts'[n] + Pending(n)' + Due(n)' <= restartRuns'[n]
    <3>1. restartRuns'[n] = restartRuns[n]
            + IF operation' = "restart" /\ ~dryRun' /\ n \in selected' THEN 1 ELSE 0
      BY <1>3 DEF StartOps
    <3>2. restartRuns'[n] = restartRuns[n] + 1 \/ (restartRuns'[n] = restartRuns[n] /\ Due(n)' = 0)
      BY <2>1, <3>1, CountTypes DEF Due, TInv
    <3>3. restarts[n] + Pending(n) + Due(n) <= restartRuns[n]
      BY DEF OInv, RestartInv
    <3>4. Pending(n)' = Pending(n)
      BY <1>1 DEF Pending
    <3>5. Due(n)' \in {0, 1}
      BY DEF Due
    <3> QED
      BY <1>1, <3>2, <3>3, <3>4, <3>5, CountTypes DEF TInv
  <2>5. RestartInv'
    BY <1>1, <2>4 DEF OInv, RestartInv
  <2> QED
    BY <2>3, <2>5 DEF OInv
<1>4. CASE ~StartOps
  <2>1. cmd' # "ops" /\ UNCHANGED restartRuns
    BY <1>4 DEF Begins, StartInventory, StartAdopt, StartCreate, StartVerify, Command
  <2>2. \A n \in Names : Due(n)' <= Due(n)
    BY <2>1 DEF Due
  <2>3. RestartInv'
    BY <1>1, <2>1, <2>2, QuietOps
  <2> QED
    BY <2>1, <2>3 DEF OInv, ReachInv
<1> QED
  BY <1>3, <1>4

\* The steps of a command that leave the tree and the annotations alone.
LEMMA OpsQuietSteps ==
  ASSUME TInv, TInv', OInv,
         UNCHANGED <<git, annotation, restarts, restartRuns, cmd, operation, dryRun, selected, acted>>,
         todo' \subseteq todo,
         \/ cmd = "ops" => UNCHANGED <<phase, todo, failed>>
         \/ cmd = "ops" /\ operation = "status" /\ phase' = phase /\ phase = "items"
  PROVE  OInv'
<1>1. \A n \in Names : Due(n)' <= Due(n)
  BY DEF Due
<1>2. RestartInv'
  BY <1>1, QuietOps
<1>3. Unreadable' <=> Unreadable
  BY DEF Unreadable, ProfileFromCR, Matching
<1>4. \A n : Reached(n) => Reached(n)'
  BY DEF Reached
<1>5. ReachInv'
  BY <1>3, <1>4 DEF OInv, ReachInv
<1> QED
  BY <1>2, <1>5 DEF OInv

LEMMA OpsFinish == TInv /\ TInv' /\ OInv /\ Finish => OInv'
<1> SUFFICES ASSUME TInv, TInv', OInv, Finish PROVE OInv'
  OBVIOUS
<1>1. /\ UNCHANGED <<annotation, restarts, restartRuns, cmd, operation, dryRun, selected, acted, todo, failed>>
      /\ phase = "items" /\ phase' = "done" /\ todo = {}
  BY DEF Finish, commandVars
<1>2. cmd = "ops" => git' = git
  BY DEF Finish, Writes
<1>3. DOMAIN git \subseteq DOMAIN git' /\ \A c \in DOMAIN git : git'[c] = git[c]
  BY DEF Finish
<1>4. ReachInv'
  BY <1>1, <1>2 DEF OInv, ReachInv, Reached
<1>5. DOMAIN git' \subseteq CRs
  BY DEF TInv, TypeOK
<1>6. \A n : Pending(n)' = Pending(n)
  BY <1>1, <1>3, <1>5 DEF Pending, OInv, RestartInv
<1>7. ASSUME NEW n \in Names
      PROVE  restarts'[n] + Pending(n)' + Due(n)' <= restartRuns'[n]
  <2>1. restarts[n] + Pending(n) + Due(n) <= restartRuns[n]
    BY DEF OInv, RestartInv
  <2>2. Due(n)' = 0
    BY <1>1 DEF Due
  <2> QED
    BY <1>1, <1>6, <2>1, <2>2, CountTypes DEF TInv
<1>8. RestartInv'
  BY <1>1, <1>3, <1>5, <1>7 DEF OInv, RestartInv
<1> QED
  BY <1>4, <1>8 DEF OInv

LEMMA OpsAnnotates == ASSUME TInv, TInv', OInv, NEW n \in todo, AnnotateItem(n) PROVE OInv'
<1> DEFINE c == CrOf(n)
<1>1. /\ UNCHANGED <<git, restarts, restartRuns, cmd, operation, dryRun, selected, acted, phase>>
      /\ cmd = "ops" /\ phase = "items" /\ operation # "status" /\ todo' = todo \ {n}
  BY DEF AnnotateItem, Item, commandVars
<1>2. /\ ~Unreadable /\ ~Unreadable'
      /\ \A x, y \in DOMAIN git : git[x].name = git[y].name => x = y
  BY <1>1 DEF OInv, ReachInv, Unreadable, ProfileFromCR, Matching
<1>3. \/ UNCHANGED annotation
      \/ /\ ~dryRun /\ n \in ManagedNames
         /\ annotation' = [annotation EXCEPT ![c] = operation]
  BY DEF AnnotateItem, Annotated
<1>4. annotation \in [CRs -> {"none", "pause", "resume", "restart"}] /\ DOMAIN git \subseteq CRs
      /\ n \in Names
  BY DEF TInv, TypeOK
<1>5. n \in ManagedNames => c \in DOMAIN git /\ git[c].name = n
  BY CrOfManaged
<1> HIDE DEF c
<1>6. \A x \in DOMAIN git : annotation'[x] \in {annotation[x], operation}
  BY <1>3, <1>4
<1>7. ReachInv'
  <2>1. ASSUME ~dryRun, NEW m \in selected \ (failed' \cup todo')
        PROVE  Reached(m)'
    <3>1. CASE m = n
      <4>1. n \in ManagedNames /\ annotation' = [annotation EXCEPT ![c] = operation]
        BY <2>1, <3>1 DEF AnnotateItem, Annotated, Fails, c
      <4> QED
        BY <1>1, <1>4, <1>5, <3>1, <4>1 DEF Reached
    <3>2. CASE m # n
      <4>1. m \notin failed /\ m \notin todo
        BY <1>1, <2>1, <3>2 DEF AnnotateItem, Fails, Succeeds
      <4>2. Reached(m)
        BY <1>1, <2>1, <4>1 DEF OInv, ReachInv
      <4> QED
        BY <1>1, <1>6, <4>2 DEF Reached
    <3> QED
      BY <3>1, <3>2
  <2> QED
    BY <1>1, <1>2, <2>1 DEF ReachInv
<1>8. ASSUME NEW m \in Names
      PROVE  restarts'[m] + Pending(m)' + Due(m)' <= restartRuns'[m]
  <2>1. restarts[m] + Pending(m) + Due(m) <= restartRuns[m]
    BY DEF OInv, RestartInv
  <2>2. Pending(m)' + Due(m)' <= Pending(m) + Due(m)
    <3>1. CASE m # n
      <4>1. Due(m)' = Due(m)
        BY <1>1, <3>1 DEF Due
      <4>2. Pending(m)' = Pending(m)
        BY <1>1, <1>3, <1>4, <1>5, <3>1 DEF Pending
      <4> QED
        BY <4>1, <4>2 DEF Pending, Due
    <3>2. CASE m = n
      <4>1. Due(n)' = 0
        BY <1>1 DEF Due
      <4>2. CASE UNCHANGED annotation
        BY <1>1, <3>2, <4>1, <4>2 DEF Pending, Due
      <4>3. CASE operation # "restart"
        <5>1. Pending(n)' <= Pending(n)
          BY <1>1, <1>6, <4>3 DEF Pending
        <5> QED
          BY <3>2, <4>1, <5>1 DEF Due, Pending
      <4>4. CASE operation = "restart" /\ ~dryRun
        BY <1>1, <3>2, <4>1, <4>4 DEF Due, Pending
      <4> QED
        BY <1>3, <4>2, <4>3, <4>4
    <3> QED
      BY <3>1, <3>2
  <2>3. Pending(m)' \in {0, 1} /\ Due(m)' \in {0, 1}
    BY DEF Pending, Due
  <2> QED
    BY <1>1, <2>1, <2>2, <2>3, CountTypes DEF TInv
<1>9. \A x \in CRs : annotation'[x] # "none" => x \in DOMAIN git'
  BY <1>1, <1>3, <1>4, <1>5 DEF OInv, RestartInv
<1>10. RestartInv'
  BY <1>1, <1>2, <1>8, <1>9 DEF RestartInv
<1> QED
  BY <1>7, <1>10 DEF OInv

LEMMA CFKActsOps == ASSUME TInv, TInv', OInv, NEW c \in CRs, CFKActs(c) PROVE OInv'
<1>1. /\ UNCHANGED <<git, restartRuns, cmd, operation, dryRun, selected, phase, todo, failed>>
      /\ c \in DOMAIN git /\ annotation' = [annotation EXCEPT ![c] = "none"]
      /\ acted' = IF cmd = "ops" THEN acted \cup {c} ELSE acted
      /\ \/ restarts' = restarts
         \/ annotation[c] = "restart" /\ restarts' = [restarts EXCEPT ![git[c].name] = @ + 1]
  BY DEF CFKActs, commandVars, workVars
<1>2. /\ annotation \in [CRs -> {"none", "pause", "resume", "restart"}]
      /\ restarts \in [Names -> Nat]
      /\ DOMAIN git \subseteq CRs /\ \A x \in DOMAIN git : git[x].name \in Names
  BY DEF TInv, TypeOK, Manifest
<1>3. \A x \in CRs : annotation'[x] = IF x = c THEN "none" ELSE annotation[x]
  BY <1>1, <1>2
<1>4. ReachInv'
  <2>1. Unreadable' <=> Unreadable
    BY <1>1 DEF Unreadable, ProfileFromCR, Matching
  <2>2. \A n : cmd = "ops" /\ Reached(n) => Reached(n)'
    BY <1>1, <1>2, <1>3 DEF Reached
  <2> QED
    BY <1>1, <2>1, <2>2 DEF OInv, ReachInv
<1>5. ASSUME NEW n \in Names
      PROVE  restarts'[n] + Pending(n)' + Due(n)' <= restartRuns'[n]
  <2>1. restarts[n] + Pending(n) + Due(n) <= restartRuns[n]
    BY DEF OInv, RestartInv
  <2>2. Due(n)' = Due(n)
    BY <1>1 DEF Due
  <2>3. Pending(n)' <= Pending(n)
    BY <1>1, <1>2, <1>3 DEF Pending
  <2>4. Pending(n)' \in {0, 1}
    BY DEF Pending
  <2>5. CASE restarts'[n] = restarts[n]
    BY <1>1, <2>1, <2>2, <2>3, <2>4, <2>5, CountTypes DEF TInv
  <2>6. CASE restarts'[n] # restarts[n]
    <3>1. git[c].name = n /\ annotation[c] = "restart" /\ restarts'[n] = restarts[n] + 1
      BY <1>1, <1>2, <2>6
    <3>2. Pending(n) = 1
      BY <1>1, <3>1 DEF Pending
    <3>3. \A d \in DOMAIN git : git[d].name = n /\ annotation[d] = "restart" => d = c
      BY <1>1, <3>1 DEF OInv, RestartInv
    <3>4. Pending(n)' = 0
      BY <1>1, <1>2, <1>3, <3>3 DEF Pending
    <3> QED
      BY <1>1, <2>1, <2>2, <3>1, <3>2, <3>4, CountTypes DEF TInv
  <2> QED
    BY <2>5, <2>6
<1>6. RestartInv'
  BY <1>1, <1>2, <1>3, <1>5 DEF OInv, RestartInv
<1> QED
  BY <1>4, <1>6 DEF OInv

LEMMA OpsStep == TInv /\ TInv' /\ OInv /\ [Next]_vars => OInv'
<1> SUFFICES ASSUME TInv, TInv', OInv, [Next]_vars PROVE OInv'
  OBVIOUS
<1>1. CASE ListingStep \/ UNCHANGED vars
  BY <1>1, OpsQuietSteps DEF ListingStep, Unmoved, commandVars, workVars, vars
<1>2. CASE ListingRefused \/ Inventory \/ Listed
  <2>1. cmd # "ops"
    BY <1>2 DEF ListingRefused, Inventory, Listed, OInv, ReachInv
  <2> QED
    BY <1>2, <2>1, OpsQuietSteps DEF ListingRefused, Inventory, Listed, Unmoved, commandVars, workVars
<1>3. ASSUME NEW n \in todo, AdoptItem(n) \/ CreateItem(n) \/ VerifyItem(n) \/ StatusItem(n)
      PROVE  OInv'
  BY <1>3, OpsQuietSteps DEF AdoptItem, CreateItem, VerifyItem, StatusItem, Item, Unmoved, commandVars
<1>4. ASSUME NEW n \in Names, NEW p \in Profiles, OthersStart(n, p) \/ OthersStop(n, p) \/ Breaks(n, p)
      PROVE  OInv'
  BY <1>4, OpsQuietSteps DEF OthersStart, OthersStop, Breaks, Environment, commandVars, workVars
<1> QED
  BY <1>1, <1>2, <1>3, <1>4, OpsBegins, OpsFinish, OpsAnnotates, CFKActsOps DEF Next, Goes, Others

\* OPS reports success only for a CR it has annotated, and no connector is restarted
\* more often than runs asked for it, whatever fails and is repeated.
THEOREM OpsAsksOnce == Spec => []OpsOncePerRun
<1>1. Init => OInv
  BY OperationsAssumption DEF Init, OInv, RestartInv, ReachInv, Pending, Due
<1>2. TInv /\ OInv => OpsOncePerRun
  <2> SUFFICES ASSUME TInv, OInv PROVE OpsOncePerRun
    OBVIOUS
  <2>1. \A n \in Names : restarts[n] <= restartRuns[n]
    BY CountTypes DEF TInv, OInv, RestartInv
  <2> QED
    BY <2>1 DEF OInv, ReachInv, Reached, OpsOncePerRun
<1> QED
  BY <1>1, <1>2, OpsStep, TypeInvariance, PTL DEF Spec
=============================================================================
