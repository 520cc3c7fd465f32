---------------------------- MODULE ApiExtensions ---------------------------
(***************************************************************************)
(* How a request finds the extensions of other plugins and decides which   *)
(* of them its schema carries: ExtensionRegistry, filled by the listeners  *)
(* of the panel's plugins, and ExtensionLoader, which reads what each has  *)
(* to say and then has the schema built with them.                         *)
(*                                                                         *)
(* An extension is known by its place in the order of registration.  Of    *)
(* its SDL, what it adds to the schema and what that refers to count; the  *)
(* core's own types are always there, and an extension that adds one of    *)
(* those again, or refers to one nobody has, is one that uses Nothing.     *)
(***************************************************************************)
EXTENDS Naturals, Sequences, SequencesExt

CONSTANTS
    Fields,         \* fields and types extensions may add
    Nothing,        \* what no schema has
    Offered,        \* extensions the plugins have
    MaxExtensions   \* registrations in this instance

(* What its SDL adds and uses, the fields it has resolvers for, and        *)
(* whether one of its methods throws or its SDL does not parse.            *)
Extension == [adds : SUBSET Fields, uses : SUBSET (Fields \cup {Nothing}),
              serves : SUBSET Fields, throws : BOOLEAN]

ASSUME ExtensionsConfigured ==
    Nothing \notin Fields /\ Offered \subseteq Extension /\ MaxExtensions \in Nat

VARIABLES
    registered,   \* the extensions, in registration order
    stage,        \* how far the request is
    next,         \* the place of the next extension to look at
    candidates,   \* the places of those that could be read
    claimed,      \* the fields of extensions that somebody serves
    keeping,      \* the places of those kept so far
    built         \* the places of those in the schema last built

extensionVars == <<registered, stage, next, candidates, claimed, keeping, built>>

---------------------------------------------------------------------------

Places == 1..MaxExtensions

ExtensionTypeOK ==
    /\ registered \in Seq(Offered) /\ Len(registered) <= MaxExtensions
    /\ stage \in {"registering", "reading", "building", "adding", "built"}
    /\ next \in 1..(MaxExtensions + 1)
    /\ candidates \in Seq(Places)
    /\ claimed \subseteq Fields
    /\ keeping \subseteq Places /\ built \subseteq Places

ExtensionInit ==
    /\ registered = <<>> /\ stage = "registering" /\ next = 1
    /\ candidates = <<>> /\ claimed = {} /\ keeping = {} /\ built = {}

---------------------------------------------------------------------------

(* Whether a schema of these builds: nothing is added twice, and there is  *)
(* all that is referred to.  Resolvers no longer clash here.               *)
Builds(places) ==
    /\ \A i, j \in places : i # j => registered[i].adds \cap registered[j].adds = {}
    /\ \A i \in places : registered[i].uses \subseteq UNION {registered[j].adds : j \in places}

(* Whether an extension keeps its own rules: it answers, and has resolvers *)
(* for fields it adds only.                                                *)
Sound(e) == ~e.throws /\ e.serves \subseteq e.adds

(* read(): and nobody serves its fields yet.                               *)
Readable(e) == Sound(e) /\ e.serves \cap claimed = {}

---------------------------------------------------------------------------

(* A listener registers an extension.                                      *)
Register(e) ==
    /\ stage = "registering" /\ Len(registered) < MaxExtensions
    /\ registered' = Append(registered, e)
    /\ UNCHANGED <<stage, next, candidates, claimed, keeping, built>>

(* No listener is left, or one has thrown - as register() does at a name   *)
(* that is malformed or taken - and those after it are not asked.          *)
Registered ==
    /\ stage = "registering"
    /\ stage' = "reading"
    /\ UNCHANGED <<registered, next, candidates, claimed, keeping, built>>

(* The next extension is asked for what it has, once.                      *)
Read ==
    /\ stage = "reading" /\ next <= Len(registered)
    /\ next' = next + 1
    /\ IF Readable(registered[next])
       THEN /\ candidates' = Append(candidates, next)
            /\ claimed' = claimed \cup registered[next].serves
       ELSE UNCHANGED <<candidates, claimed>>
    /\ UNCHANGED <<registered, stage, keeping, built>>

AllRead ==
    /\ stage = "reading" /\ next > Len(registered)
    /\ stage' = "building"
    /\ UNCHANGED <<registered, next, candidates, claimed, keeping, built>>

(* The schema of all candidates, of none if there are none.                *)
BuildAll ==
    /\ stage = "building"
    /\ IF Builds(ToSet(candidates))
       THEN stage' = "built" /\ keeping' = ToSet(candidates) /\ built' = ToSet(candidates)
       ELSE stage' = "adding" /\ UNCHANGED <<keeping, built>>
    /\ next' = 1
    /\ UNCHANGED <<registered, candidates, claimed>>

AddNext_Keeps ==   \* mutant: kept, and then the schema is built
    /\ stage = "adding" /\ next <= Len(candidates)
    /\ next' = next + 1
    /\ keeping' = keeping \cup {candidates[next]}
    /\ built' = IF Builds(keeping') THEN keeping' ELSE built
    /\ UNCHANGED <<registered, stage, candidates, claimed>>

(* One that does not fit with those kept so far is left out.               *)
AddNext ==
    /\ stage = "adding" /\ next <= Len(candidates)
    /\ next' = next + 1
    /\ LET tried == keeping \cup {candidates[next]}
       IN  IF Builds(tried)
           THEN keeping' = tried /\ built' = tried
           ELSE UNCHANGED <<keeping, built>>
    /\ UNCHANGED <<registered, stage, candidates, claimed>>

(* The schema is the last that was built, and the core's alone if none is  *)
(* kept.                                                                   *)
AllAdded ==
    /\ stage = "adding" /\ next > Len(candidates)
    /\ stage' = "built"
    /\ UNCHANGED <<registered, next, candidates, claimed, keeping, built>>

ExtensionNext ==
    \/ \E e \in Offered : Register(e)
    \/ Registered \/ Read \/ AllRead \/ BuildAll \/ AddNext \/ AllAdded

ExtensionSpec == ExtensionInit /\ [][ExtensionNext]_extensionVars

---------------------------------------------------------------------------
(* Properties. *)

(* i is left out and would fit in with those that are kept.                *)
LeftOutThoughFit(i) ==
    /\ i \notin keeping /\ Sound(registered[i])
    /\ Builds(keeping \cup {i})

(* The schema is that of the extensions kept, and it builds.  "Everything  *)
(* else is kept", the loader says, and so it is but for two cases: one     *)
(* that uses what a later one adds is tried before it, once anything else  *)
(* is amiss; and one that serves a field goes when an earlier one has      *)
(* claimed it, though that one is left out too.                            *)
OthersAreKept ==
    stage = "built" =>
        /\ built = keeping /\ Builds(keeping)
        /\ \A i \in 1..Len(registered) : LeftOutThoughFit(i) =>
               \/ \E j \in keeping : j > i /\ registered[j].adds \cap registered[i].uses # {}
               \/ \E j \in 1..(i - 1) :
                      j \notin keeping /\ registered[j].serves \cap registered[i].serves # {}
=============================================================================
