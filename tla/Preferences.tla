----------------------------- MODULE Preferences -----------------------------
(***************************************************************************)
(* What one user says of herself and of the partner she wants              *)
(* (preference.controller.ts, profile.service.ts, profile.repository.ts):  *)
(* the options of two targets in one table, and one row of additional      *)
(* preferences.  A PATCH replaces those of its target in a transaction at  *)
(* read committed: a DELETE removes what has been committed when it        *)
(* starts, and waits for the rows another transaction is deleting.         *)
(***************************************************************************)
EXTENDS Naturals, FiniteSets, Sequences

CONSTANTS
    Options,            \* rows of preference_options
    Deprecated,
    Codes,              \* preference_types.code
    CodeOf, MaximumChoiceCount,
    Hidden,             \* for each target, the names of convertFilteredOptions
    Gender,             \* the user's
    Orders,             \* bound of the model: the types a body lists, in this order
    Requests,           \* bound of the model: one PATCH each
    NoRequest

Targets == {"SELF", "PARTNER"}
CommonCodes == {"personality", "DATING_STYLE", "DRINKING", "SMOKING", "TATTOO",
                "MILITARY_STATUS_MALE", "MILITARY_PREFERENCE_FEMALE"}
TargetCodes(t) == CommonCodes \cup (IF t = "SELF" THEN {"INTEREST"} ELSE {"AGE_PREFERENCE"})

ASSUME PreferencesAssumption ==
    /\ CodeOf \in [Options -> Codes]
    /\ MaximumChoiceCount \in [Codes -> Nat]
    /\ Deprecated \subseteq Options
    /\ Hidden \in [Targets -> SUBSET Options]
    /\ Gender \in {"MALE", "FEMALE"}
    /\ NoRequest \notin Requests

VARIABLES
    chosen,         \* user_preference_options
    additional,     \* additional_preferences
    pc, target, body,       \* a request
    holds, awaits,  \* rows its DELETE has marked, rows it waits for
    replaced,       \* rows of additional_preferences it has marked
    late,           \* rows whose INSERT a rejected request has left on its connection
    last,           \* history: for each target, the last request that was committed
    tidy            \* history: targets whose requests neither overlapped nor left
                    \* an INSERT behind

tables == <<chosen, additional>>
histories == <<last, tidy>>
vars == <<tables, pc, target, body, holds, awaits, replaced, late, histories>>

Row == [target : Targets, option : Options, by : Requests]
Of(t) == {row \in chosen : row.target = t}

\* The options of a target, and those of them that GET preferences/self/options and
\* partner/options list.
Listed(t) == {o \in Options \ Deprecated : CodeOf[o] \in TargetCodes(t)}
Offered(t) ==
    {o \in Listed(t) \ Hidden[t] :
        /\ CodeOf[o] = "MILITARY_PREFERENCE_FEMALE" => Gender # "MALE"
        /\ CodeOf[o] = "MILITARY_STATUS_MALE" => Gender # "FEMALE" /\ t # "PARTNER"}

\* A body has one entry for each of its types: the options of that type.
Entry(b, code) == {o \in b.options : CodeOf[o] = code}
NoBody == [types |-> <<>>, options |-> {}]

PreferencesInit ==
    /\ chosen = {} /\ additional = {}
    /\ pc = [r \in Requests |-> "idle"]
    /\ target = [r \in Requests |-> "SELF"]
    /\ body = [r \in Requests |-> NoBody]
    /\ holds = [r \in Requests |-> {}]
    /\ awaits = [r \in Requests |-> {}]
    /\ replaced = [r \in Requests |-> {}]
    /\ late = {}
    /\ last = [t \in Targets |-> NoRequest]
    /\ tidy = Targets

Open(t) == {r \in Requests : pc[r] \notin {"idle", "done"} /\ target[r] = t}
Goto(r, place) == pc' = [pc EXCEPT ![r] = place]

-----------------------------------------------------------------------------
(* A request. *)

\* The options are among those offered; a type may be one that has been renamed.
Patch(r, t, types, options) ==
    /\ pc[r] = "idle"
    /\ \A o \in options : \E i \in DOMAIN types : types[i] = CodeOf[o]
    /\ Goto(r, "validate")
    /\ target' = [target EXCEPT ![r] = t]
    /\ body' = [body EXCEPT ![r] = [types |-> types, options |-> options]]
    /\ tidy' = IF Open(t) = {} THEN tidy ELSE tidy \ {t}
    /\ UNCHANGED <<tables, holds, awaits, replaced, late, last>>

\* A type nobody knows has no maximum, nor has one whose maximum is 0.
TooMany(b) ==
    \E c \in Codes : MaximumChoiceCount[c] # 0 /\ Cardinality(Entry(b, c)) > MaximumChoiceCount[c]

ValidatePreferenceData(r) ==
    /\ pc[r] = "validate"
    /\ Goto(r, IF TooMany(body[r]) THEN "done" ELSE "delete")
    /\ UNCHANGED <<tables, target, body, holds, awaits, replaced, late, histories>>

-----------------------------------------------------------------------------
(* The transaction. *)

Unlocked(r, rows) == \A k \in Requests \ {r} : holds[k] \cap rows = {}

AfterDelete(r) == IF target[r] = "PARTNER" THEN "additional" ELSE "insert"

Delete(r, rows) ==
    /\ pc[r] = "delete"
    /\ \/ /\ Unlocked(r, rows)
          /\ holds' = [holds EXCEPT ![r] = rows]
          /\ Goto(r, AfterDelete(r))
          /\ UNCHANGED awaits
       \/ /\ ~Unlocked(r, rows)
          /\ awaits' = [awaits EXCEPT ![r] = rows]
          /\ Goto(r, "wait")
          /\ UNCHANGED holds
    /\ UNCHANGED <<tables, target, body, replaced, late, histories>>

\* Mutant: the options of both targets are deleted.
DeleteAllOptions(r) == Delete(r, chosen)

DeleteExistingOptions(r) == Delete(r, Of(target[r]))

\* The other transaction has ended: rows it has deleted are passed over, and those
\* it has inserted are not looked at.
GrantRows(r) ==
    /\ pc[r] = "wait"
    /\ Unlocked(r, awaits[r])
    /\ holds' = [holds EXCEPT ![r] = awaits[r] \cap chosen]
    /\ awaits' = [awaits EXCEPT ![r] = {}]
    /\ Goto(r, AfterDelete(r))
    /\ UNCHANGED <<tables, target, body, replaced, late, histories>>

\* It waits as well, until nobody else is deleting the row.
DeleteExistingAdditionalPreferences(r) ==
    /\ pc[r] = "additional"
    /\ \A k \in Requests \ {r} : replaced[k] \cap additional = {}
    /\ replaced' = [replaced EXCEPT ![r] = additional]
    /\ Goto(r, "insert")
    /\ UNCHANGED <<tables, target, body, holds, awaits, late, histories>>

Known(b) == \A i \in DOMAIN b.types : b.types[i] \in Codes
Empty(b) == b.types = <<>>
RowsFor(r, options) == [target : {target[r]}, option : options, by : {r}]

\* The transaction ends without effect; its locks are free.
Rollback(r) ==
    /\ Goto(r, "done")
    /\ holds' = [holds EXCEPT ![r] = {}]
    /\ awaits' = [awaits EXCEPT ![r] = {}]
    /\ replaced' = [replaced EXCEPT ![r] = {}]
    /\ UNCHANGED <<tables, target, body, last>>

\* The types are looked up one after the other and the options of each inserted.
InsertPreferenceOptions(r) ==
    /\ pc[r] = "insert" /\ Known(body[r])
    /\ Goto(r, IF target[r] = "PARTNER" /\ ~Empty(body[r]) THEN "unique" ELSE "commit")
    /\ UNCHANGED <<tables, target, body, holds, awaits, replaced, late, histories>>

\* The types after the first unknown one.
Behind(b) ==
    {b.types[i] : i \in {i \in DOMAIN b.types : \E k \in 1 .. i - 1 : b.types[k] \notin Codes}}

\* One type is unknown: its promise rejects, and so does Promise.all.  The queries
\* of the types after it are on the connection before the ROLLBACK, the INSERTs
\* that follow them come after it.
UnknownType(r) ==
    LET left == UNION {Entry(body[r], c) : c \in Behind(body[r])} IN
    /\ pc[r] = "insert" /\ ~Known(body[r])
    /\ Rollback(r)
    /\ late' = late \cup RowsFor(r, left)
    /\ tidy' = IF left = {} THEN tidy ELSE tidy \ {target[r]}

\* An INSERT outside its transaction takes effect at once, unless it meets another
\* transaction on that connection that is rolled back.
InsertLate(row) ==
    /\ row \in late
    /\ late' = late \ {row}
    /\ chosen' \in {chosen, chosen \cup {row}}
    /\ UNCHANGED <<additional, pc, target, body, holds, awaits, replaced, histories>>

\* Mutant: nothing waits, and nothing fails.
InsertAnotherAdditional(r) ==
    /\ pc[r] = "unique"
    /\ Goto(r, "commit")
    /\ UNCHANGED <<tables, target, body, holds, awaits, replaced, late, histories>>

\* profile_id is unique: the INSERT waits for those of others, and fails if the
\* profile has a row this transaction has not deleted.
InsertAdditionalPartnerOptions(r) ==
    /\ pc[r] = "unique"
    /\ \A k \in Requests \ {r} :
          /\ replaced[k] \cap additional = {}
          /\ ~(pc[k] = "commit" /\ target[k] = "PARTNER" /\ ~Empty(body[k]))
    /\ additional \subseteq replaced[r]
    /\ Goto(r, "commit")
    /\ UNCHANGED <<tables, target, body, holds, awaits, replaced, late, histories>>

Commit(r) ==
    /\ pc[r] = "commit"
    /\ chosen' = (chosen \ holds[r]) \cup RowsFor(r, body[r].options)
    /\ additional' = IF target[r] = "PARTNER"
                       THEN (additional \ replaced[r]) \cup (IF Empty(body[r]) THEN {} ELSE {r})
                       ELSE additional
    /\ last' = [last EXCEPT ![target[r]] = r]
    /\ Goto(r, "done")
    /\ holds' = [holds EXCEPT ![r] = {}]
    /\ replaced' = [replaced EXCEPT ![r] = {}]
    /\ UNCHANGED <<target, body, awaits, late, tidy>>

\* A call fails, the second INSERT of additional preferences among them.
Fails(r) ==
    /\ pc[r] \notin {"idle", "done"}
    /\ Rollback(r)
    /\ UNCHANGED <<late, tidy>>

PreferencesNext ==
    \/ \E r \in Requests :
         \/ \E t \in Targets, types \in Orders : \E options \in SUBSET Offered(t) :
              Patch(r, t, types, options)
         \/ ValidatePreferenceData(r) \/ DeleteExistingOptions(r) \/ GrantRows(r)
         \/ DeleteExistingAdditionalPreferences(r) \/ InsertPreferenceOptions(r)
         \/ UnknownType(r) \/ InsertAdditionalPartnerOptions(r) \/ Commit(r) \/ Fails(r)
    \/ \E row \in late : InsertLate(row)

PreferencesSpec == PreferencesInit /\ [][PreferencesNext]_vars

-----------------------------------------------------------------------------
(* Properties. *)

TypeOK ==
    /\ chosen \subseteq Row /\ additional \subseteq Requests
    /\ pc \in [Requests -> {"idle", "validate", "delete", "wait", "additional", "insert",
                            "unique", "commit", "done"}]
    /\ target \in [Requests -> Targets]
    /\ \A r \in Requests : body[r].options \subseteq Options
    /\ holds \in [Requests -> SUBSET Row] /\ awaits \in [Requests -> SUBSET Row]
    /\ replaced \in [Requests -> SUBSET Requests]
    /\ late \subseteq Row
    /\ last \in [Targets -> Requests \cup {NoRequest}]
    /\ tidy \subseteq Targets

\* What is stored of a target is what the last committed request for it asked, all
\* of it and nothing else, whatever requests for the other target, refused ones and
\* rolled back ones did meanwhile; overlapping requests, and a rejected one that
\* leaves an INSERT behind, are the only ones that add to another's choice.
LastRequestKept ==
    \A t \in tidy :
        LET r == last[t]
            asked == IF r = NoRequest THEN NoBody ELSE body[r]
        IN /\ Of(t) = {row \in chosen : row.by = r}
           /\ {row.option : row \in Of(t)} = asked.options
           /\ t = "PARTNER" => additional = IF Empty(asked) THEN {} ELSE {r}

\* A profile never has two rows of additional preferences, although a transaction
\* deletes only what was there before another's: the later INSERT fails, and its
\* options go with it.
OneAdditional == Cardinality(additional) <= 1
=============================================================================
