--------------------------- MODULE OpenSearchPage ---------------------------
(***************************************************************************)
(* The page of the opensearch plugin (opensearch/ui-src/src/main.tsx): the *)
(* operator selects a query profile, previews its query and runs it.  A    *)
(* request keeps the profile it was sent with; its answer is shown         *)
(* whatever is selected when it comes.                                     *)
(***************************************************************************)
EXTENDS Naturals, Queries

CONSTANTS Profiles,   \* names of profiles
          MaxRows,    \* bound on the rows of a result
          MaxQueries  \* bound on the queries

OpenSearchAssumption ==
  /\ MaxRows \in Nat /\ MaxQueries \in Nat
  /\ Nothing \notin [profile : Profiles, rows : Nat, number : Nat]  \* it is no result

VARIABLES
  onProfiles,     \* the page is shown
  profiles,       \* profiles that profiles-list returned
  profileName,    \* the selected profile, or Nothing
  params,         \* the profile whose parameters the fields hold, or Nothing
  result,         \* profile, rows and number of the query, or Nothing
  preview,        \* profile and values of the previewed query, or Nothing
  selected,       \* the row shown in full: query and row number, or Nothing
  pendingAction,  \* the request that runs, or Nothing
  queries         \* number of queries sent

vars == <<onProfiles, profiles, profileName, params, result, preview, selected,
          pendingAction, queries>>

TypeOK ==
  /\ onProfiles \in BOOLEAN
  /\ profiles \in SUBSET Profiles
  /\ {profileName, params} \subseteq Profiles \union {Nothing}
  /\ result \in [profile : Profiles, rows : 0 .. MaxRows, number : 1 .. MaxQueries] \union {Nothing}
  /\ preview \in [profile : Profiles, params : Profiles] \union {Nothing}
  /\ selected \in [number : 1 .. MaxQueries, row : 1 .. MaxRows] \union {Nothing}
  /\ pendingAction \in [action : {"preview", "query"}, profile : Profiles, params : Profiles]
                         \union {Nothing}
  /\ queries \in 0 .. MaxQueries

Init ==
  /\ onProfiles \in BOOLEAN
  /\ profiles = {}
  /\ profileName = Nothing
  /\ params = Nothing
  /\ result = Nothing
  /\ preview = Nothing
  /\ selected = Nothing
  /\ pendingAction = Nothing
  /\ queries = 0

(* profiles-list answers; the first profile is selected.                   *)
ListArrives(P) ==
  /\ profiles = {}
  /\ profiles' = P
  /\ \E first \in P : profileName' = first /\ params' = first
  /\ UNCHANGED <<onProfiles, result, preview, selected, pendingAction, queries>>

(* Mutant: a profile can be selected while a request runs.                 *)
SelectProfile_WhileLoading(p) ==
  /\ p \in profiles
  /\ profileName' = p
  /\ params' = p
  /\ result' = Nothing
  /\ selected' = Nothing
  /\ preview' = Nothing
  /\ UNCHANGED <<onProfiles, profiles, pendingAction, queries>>

(* Mutant: the row shown in full stays.                                    *)
SelectProfile_KeepsRow(p) ==
  /\ pendingAction = Nothing
  /\ p \in profiles
  /\ profileName' = p
  /\ params' = p
  /\ result' = Nothing
  /\ preview' = Nothing
  /\ UNCHANGED <<onProfiles, profiles, selected, pendingAction, queries>>

(* The Select is disabled while a request runs.                            *)
SelectProfile(p) ==
  /\ pendingAction = Nothing
  /\ p \in profiles
  /\ profileName' = p
  /\ params' = p
  /\ result' = Nothing
  /\ selected' = Nothing
  /\ preview' = Nothing
  /\ UNCHANGED <<onProfiles, profiles, pendingAction, queries>>

Run(action) ==
  /\ pendingAction = Nothing /\ profileName # Nothing
  /\ queries < MaxQueries
  /\ queries' = queries + 1
  /\ pendingAction' = [action |-> action, profile |-> profileName, params |-> params]
  /\ UNCHANGED <<onProfiles, profiles, profileName, params, result, preview, selected>>

PreviewArrives ==
  /\ pendingAction # Nothing /\ pendingAction.action = "preview"
  /\ preview' = [profile |-> pendingAction.profile, params |-> pendingAction.params]
  /\ pendingAction' = Nothing
  /\ UNCHANGED <<onProfiles, profiles, profileName, params, result, selected, queries>>

(* Mutant: the row of the last result stays.                               *)
ResultArrives_KeepsRow(n) ==
  /\ pendingAction # Nothing /\ pendingAction.action = "query"
  /\ result' = [profile |-> pendingAction.profile, rows |-> n, number |-> queries]
  /\ preview' = Nothing
  /\ pendingAction' = Nothing
  /\ UNCHANGED <<onProfiles, profiles, profileName, params, selected, queries>>

(* The first of the n rows is shown in full.                               *)
ResultArrives(n) ==
  /\ pendingAction # Nothing /\ pendingAction.action = "query"
  /\ result' = [profile |-> pendingAction.profile, rows |-> n, number |-> queries]
  /\ selected' = IF n = 0 THEN Nothing ELSE [number |-> queries, row |-> 1]
  /\ preview' = Nothing
  /\ pendingAction' = Nothing
  /\ UNCHANGED <<onProfiles, profiles, profileName, params, queries>>

RequestFails ==
  /\ pendingAction # Nothing
  /\ pendingAction' = Nothing
  /\ UNCHANGED <<onProfiles, profiles, profileName, params, result, preview, selected, queries>>

(* The table of rows is hidden behind a preview.                           *)
ClickRow(r) ==
  /\ result # Nothing /\ preview = Nothing /\ r <= result.rows
  /\ selected' = [number |-> result.number, row |-> r]
  /\ UNCHANGED <<onProfiles, profiles, profileName, params, result, preview, pendingAction,
                 queries>>

Next ==
  /\ onProfiles
  /\ \/ \E P \in SUBSET Profiles : ListArrives(P)
     \/ \E p \in Profiles : SelectProfile(p)
     \/ Run("preview") \/ Run("query")
     \/ PreviewArrives
     \/ \E n \in 0 .. MaxRows : ResultArrives(n)
     \/ RequestFails
     \/ \E r \in 1 .. MaxRows : ClickRow(r)

Spec == Init /\ [][Next]_vars

-----------------------------------------------------------------------------
(* What is shown belongs together: the result and the preview to the       *)
(* selected profile, the row shown in full to the result, although each    *)
(* arrives in its own time and any of them may fail                        *)
(* (main.tsx:150-188, 197-203).                                            *)
ShownTogether ==
  /\ result # Nothing => result.profile = profileName
  /\ preview # Nothing => preview.profile = profileName /\ preview.params = profileName
  /\ selected # Nothing =>
       result # Nothing /\ selected.number = result.number /\ selected.row <= result.rows
=============================================================================
