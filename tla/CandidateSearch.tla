--------------------------- MODULE CandidateSearch ---------------------------
(***************************************************************************)
(* The search for partners in the index of ProfileIndex                    *)
(* (profile-similar-finder.service.ts): a filter is built from the         *)
(* seeker's profile and, while nobody passes it, relaxed up to three       *)
(* times.  The index and the profile may change between any two calls.     *)
(***************************************************************************)
EXTENDS ProfileIndex

CONSTANTS
    Searches,
    Seekers,        \* bound of the model: the users whose searches are followed
    Types,          \* MatchType
    Unwanted,       \* the preferences a partner must not have, by the seeker's own; with
                    \* Null among them where compability.ts has nothing for one of these
    AgePrefs        \* preferences that say something of a partner's age

ASSUME SearchAssumption ==
    /\ IsFiniteSet(Genders) /\ Cardinality(Genders) = 2
    /\ Seekers \subseteq Users
    /\ Ranks \subseteq {"S", "A", "B", "C", "UNKNOWN"}
    /\ Types \subseteq {"scheduled", "rematching", "admin"}
    /\ Unwanted \in [Prefs -> SUBSET (Prefs \cup {Null})]
    /\ AgePrefs \subseteq Prefs

VARIABLES
    search,
    steady      \* history: searches since whose start no profile and no point changed

searchVars == <<search, steady>>
NoSearch == [pc |-> "idle"]

\* RANK_MATCHING_RULES; the empty set stands for its false.
RankFilter(r, type) ==
    IF type = "rematching"
    THEN IF r \in {"S", "A", "B"} THEN {"S", "A", "B"} ELSE {"B", "C"}
    ELSE CASE r = "S" -> {"S", "A"}
           [] r \in {"A", "B"} -> {"A", "B"}
           [] r = "C" -> {"C", "B"}
           [] OTHER -> {}

Partner(g) == CHOOSE h \in Genders : h # g

\* What Qdrant finds: every condition of the filter holds of the point.  Nobody
\* passes a filter of ages, which are strings there and numbers in the points.
Matching(q) ==
    IF q.aged THEN {}
    ELSE {v \in Users \ q.hidden :
            /\ point[v] # NoPoint
            /\ point[v].gender = q.target
            /\ point[v].rank \in q.ranks
            /\ point[v].wants \notin q.unwanted}

-----------------------------------------------------------------------------
(* A search, one action for each call it waits for. *)

SearchAt(s, pc) == search[s].pc = pc
KeepAll == UNCHANGED <<indexVars, steady>>

\* gone: those who had withdrawn, all their jobs done, when the search began.
StartSearch(s, u, type, except) ==
    /\ SearchAt(s, "idle")
    /\ Count
    /\ search' = [search EXCEPT ![s] =
         [pc |-> "point", user |-> u, type |-> type, except |-> except, target |-> Null,
          ranks |-> {}, hidden |-> {}, unwanted |-> {}, aged |-> FALSE, step |-> 0, found |-> {},
          gone |-> {v \in Users : withdrawn[v] /\ ~Busy(v)}]]
    /\ steady' = steady \cup {s}
    /\ UNCHANGED <<profileRows, point, job, orderly, failures>>

GetUserPoint(s) ==
    /\ SearchAt(s, "point")
    /\ LET p == point[search[s].user] IN
       search' = [search EXCEPT ![s] =
         IF p = NoPoint THEN [@ EXCEPT !.pc = "failed"]
         ELSE [@ EXCEPT !.pc = "profile", !.target = Partner(p.gender)]]
    /\ KeepAll

FindCandidates(s) ==
    /\ SearchAt(s, "profile")
    /\ LET u == search[s].user
           allowed == RankFilter(rank[u], search[s].type)
       IN search' = [search EXCEPT ![s] =
            IF allowed = {} THEN [@ EXCEPT !.pc = "done"]
            ELSE [@ EXCEPT !.pc = "search", !.ranks = allowed,
                           !.hidden = search[s].except \cup {u},
                           !.unwanted = Unwanted[wants[u]], !.aged = wants[u] \in AgePrefs]]
    /\ KeepAll

\* Qdrant rejects a filter without ranks, and one with a null among its options: an
\* option compability.ts does not list answers undefined, which `r !== null` keeps.
Rejected(q) == q.ranks = {} \/ Null \in q.unwanted

\* Qdrant answers the nearest of those who match.  Nothing catches its error.
SearchPoints(s) ==
    /\ SearchAt(s, "search")
    /\ LET q == search[s] IN
       \/ /\ Rejected(q)
          /\ search' = [search EXCEPT ![s].pc = "failed"]
       \/ /\ ~Rejected(q)
          /\ \E found \in (SUBSET Matching(q)) \ {{}} :
               search' = [search EXCEPT ![s].pc = "done", ![s].found = found]
       \/ /\ ~Rejected(q) /\ Matching(q) = {}
          /\ search' = [search EXCEPT ![s].pc = IF q.step >= 3 THEN "done" ELSE "relax"]
    /\ KeepAll

\* Mutant: the last relaxation forgets whom it must not find.
RelaxedAnyone(q) ==
    CASE q.step = 0 -> [q EXCEPT !.aged = FALSE]
      [] q.step = 1 -> [q EXCEPT !.unwanted = {}]
      [] OTHER -> [q EXCEPT !.hidden = {}, !.ranks = RankFilter(rank[q.user], q.type)]

\* Mutant: the first relaxation drops all that the seeker wants.
RelaxedAtOnce(q) ==
    CASE q.step \in {0, 1} -> [q EXCEPT !.aged = FALSE, !.unwanted = {}]
      [] OTHER -> [q EXCEPT !.target = Partner(GenderOf[q.user]),
                            !.ranks = RankFilter(rank[q.user], q.type)]

\* The next filter: without ages, without the strict preferences, and in the end a
\* new one, which takes the rank the profile has by then.
Relaxed(q) ==
    CASE q.step = 0 -> [q EXCEPT !.aged = FALSE]
      [] q.step = 1 -> [q EXCEPT !.unwanted = {}]
      [] OTHER -> [q EXCEPT !.aged = FALSE, !.unwanted = {},
                            !.hidden = q.except \cup {q.user},
                            !.target = Partner(GenderOf[q.user]),
                            !.ranks = RankFilter(rank[q.user], q.type)]

GetNextFilterStrategy(s) ==
    /\ SearchAt(s, "relax")
    /\ LET next == Relaxed(search[s]) IN
       search' = [search EXCEPT ![s] = [next EXCEPT !.pc = "search", !.step = next.step + 1]]
    /\ KeepAll

\* A profile or a point changes while searches are under way.
IndexStep ==
    /\ IndexNext
    /\ search' = search
    /\ steady' = IF UNCHANGED <<profileRows, point>> THEN steady ELSE {}

Init == IndexInit /\ search = [s \in Searches |-> NoSearch] /\ steady = {}

Next ==
    \/ IndexStep
    \/ \E s \in Searches :
         \/ \E u \in Seekers, type \in Types : \E except \in SUBSET (Users \ {u}) :
              StartSearch(s, u, type, except)
         \/ GetUserPoint(s) \/ FindCandidates(s) \/ SearchPoints(s) \/ GetNextFilterStrategy(s)

Spec == Init /\ [][Next]_<<indexVars, searchVars>>

-----------------------------------------------------------------------------
(* Properties. *)

\* However far a search has been relaxed, and whatever changed meanwhile, it offers
\* neither the seeker nor one she has been matched with, nobody of her own
\* gender, and nobody who had withdrawn in good order before it began.
SearchSound ==
    \A s \in Searches : SearchAt(s, "done") => \A v \in search[s].found :
        /\ v # search[s].user
        /\ v \notin search[s].except
        /\ GenderOf[v] # GenderOf[search[s].user]
        /\ v \in orderly => v \notin search[s].gone

\* A search during which nothing changed offers people of the ranks that go with
\* the seeker's, ends empty-handed only if the index has none of them, and offers
\* one whose preferences she does not want only if all of them are unwanted.  It
\* fails only if she has no point, or wants something compability.ts does not list.
SearchExact ==
    \A s \in steady :
        LET q == search[s]
            unwanted == Unwanted[wants[q.user]]
            pool == {v \in Users \ (q.except \cup {q.user}) :
                       /\ point[v] # NoPoint /\ point[v].gender # GenderOf[q.user]
                       /\ point[v].rank \in RankFilter(rank[q.user], q.type)}
            wanted == {v \in pool : point[v].wants \notin unwanted}
        IN /\ SearchAt(s, "failed") => point[q.user] = NoPoint \/ Null \in unwanted
           /\ SearchAt(s, "done") =>
                /\ q.found \subseteq pool
                /\ q.found = {} => pool = {}
                /\ wanted # {} => q.found \subseteq wanted
=============================================================================
