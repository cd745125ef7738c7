------------------------------- MODULE S3Page -------------------------------
(***************************************************************************)
(* The page of the s3 plugin (s3/ui-src/src/main.tsx): a tree of prefixes, *)
(* listed page by page when they are selected, and a preview of the        *)
(* selected object.  Listings run to their end whatever is selected        *)
(* meanwhile; the request for an object is cancelled by the next           *)
(* selection.                                                              *)
(***************************************************************************)
EXTENDS Naturals, Sequences, FiniteSets, Queries

CONSTANTS Root,      \* the prefix ""
          Prefixes,  \* the other prefixes
          Objects,
          Pages,     \* Pages[p]: the listing of prefix p, a sequence of sets of paths
          MaxLoads   \* bound on the listings

Paths == Prefixes \union Objects

S3Assumption ==
  /\ Nothing \notin Paths
  /\ Pages \in [Prefixes \union {Root} -> Seq(SUBSET Paths)]
  /\ \A p \in Prefixes \union {Root} : Pages[p] # <<>>
  /\ MaxLoads \in Nat \ {0}

VARIABLES
  onBucket,        \* the page is shown
  entries,         \* paths of the tree
  loadedPrefixes,
  selectedPath,    \* a path, or Nothing
  followedPath,    \* the selection that the effect has seen
  selectedObject,  \* the object of the preview, or Nothing
  loadingObject,
  reading,         \* the object requested for the selection, or Nothing
  cancelled,       \* a cancelled request that is still to be answered
  loads            \* the listings: prefix, pages read, paths found

vars == <<onBucket, entries, loadedPrefixes, selectedPath, followedPath, selectedObject,
          loadingObject, reading, cancelled, loads>>

TypeOK ==
  /\ onBucket \in BOOLEAN
  /\ entries \in SUBSET Paths
  /\ loadedPrefixes \in SUBSET (Prefixes \union {Root})
  /\ {selectedPath, followedPath} \subseteq entries \union {Nothing}
  /\ {selectedObject, reading, cancelled} \subseteq Objects \union {Nothing}
  /\ loadingObject \in BOOLEAN
  /\ Len(loads) <= MaxLoads
  /\ \A i \in DOMAIN loads :
       loads[i] \in [prefix : Prefixes \union {Root}, read : 0 .. Len(Pages[loads[i].prefix]),
                     found : SUBSET Paths, over : BOOLEAN]

NewLoad(p) == [prefix |-> p, read |-> 0, found |-> {}, over |-> FALSE]

Init ==
  /\ onBucket \in BOOLEAN
  /\ entries = {}
  /\ loadedPrefixes = {}
  /\ selectedPath = Nothing
  /\ followedPath = Nothing
  /\ selectedObject = Nothing
  /\ loadingObject = FALSE
  /\ reading = Nothing
  /\ cancelled = Nothing
  /\ loads = <<NewLoad(Root)>>

Select(p) ==
  /\ selectedPath = followedPath
  /\ p # selectedPath
  /\ selectedPath' = p
  /\ UNCHANGED <<onBucket, entries, loadedPrefixes, followedPath, selectedObject,
                 loadingObject, reading, cancelled, loads>>

(* Mutant: the preview of the last object stays.                           *)
Effects_KeepsPreview ==
  /\ selectedPath # followedPath
  /\ followedPath' = selectedPath
  /\ cancelled' = IF reading # Nothing THEN reading ELSE cancelled
  /\ reading' = IF selectedPath \in Objects THEN selectedPath ELSE Nothing
  /\ loadingObject' = (loadingObject \/ selectedPath \in Objects)
  /\ IF selectedPath \in Prefixes \ loadedPrefixes
     THEN Len(loads) < MaxLoads /\ loads' = Append(loads, NewLoad(selectedPath))
     ELSE UNCHANGED loads
  /\ UNCHANGED <<onBucket, entries, loadedPrefixes, selectedPath, selectedObject>>

(* The effect of a selection: cancel the last request, empty the preview,  *)
(* then list a prefix that is not loaded or request an object.             *)
Effects ==
  /\ selectedPath # followedPath
  /\ followedPath' = selectedPath
  /\ cancelled' = IF reading # Nothing THEN reading ELSE cancelled
  /\ selectedObject' = Nothing
  /\ reading' = IF selectedPath \in Objects THEN selectedPath ELSE Nothing
  /\ loadingObject' = (loadingObject \/ selectedPath \in Objects)
  /\ IF selectedPath \in Prefixes \ loadedPrefixes
     THEN Len(loads) < MaxLoads /\ loads' = Append(loads, NewLoad(selectedPath))
     ELSE UNCHANGED loads
  /\ UNCHANGED <<onBucket, entries, loadedPrefixes, selectedPath>>

(* Mutant: an error leaves the page loading.                               *)
ObjectAnswered_ErrorKeepsLoading ==
  /\ reading # Nothing
  /\ reading' = Nothing
  /\ \/ selectedObject' = reading /\ loadingObject' = FALSE
     \/ UNCHANGED <<selectedObject, loadingObject>>
  /\ UNCHANGED <<onBucket, entries, loadedPrefixes, selectedPath, followedPath, cancelled, loads>>

(* The object, or an error.                                                *)
ObjectAnswered ==
  /\ reading # Nothing
  /\ reading' = Nothing
  /\ selectedObject' \in {reading, selectedObject}
  /\ loadingObject' = FALSE
  /\ UNCHANGED <<onBucket, entries, loadedPrefixes, selectedPath, followedPath, cancelled, loads>>

(* Mutant: the answer to a cancelled request is shown.                     *)
LateAnswer_Shown ==
  /\ cancelled # Nothing
  /\ cancelled' = Nothing
  /\ selectedObject' = cancelled
  /\ loadingObject' = FALSE
  /\ UNCHANGED <<onBucket, entries, loadedPrefixes, selectedPath, followedPath, reading, loads>>

(* `if (!cancelled)`                                                       *)
LateAnswer ==
  /\ cancelled # Nothing
  /\ cancelled' = Nothing
  /\ UNCHANGED <<onBucket, entries, loadedPrefixes, selectedPath, followedPath, selectedObject,
                 loadingObject, reading, loads>>

-----------------------------------------------------------------------------
(* loadPrefix: page after page, then all entries at once. *)

PageArrives(i) ==
  LET load == loads[i]
  IN /\ ~load.over /\ load.read < Len(Pages[load.prefix])
     /\ loads' = [loads EXCEPT ![i].read = @ + 1,
                               ![i].found = @ \union Pages[load.prefix][load.read + 1]]
     /\ UNCHANGED <<onBucket, entries, loadedPrefixes, selectedPath, followedPath, selectedObject,
                    loadingObject, reading, cancelled>>

(* Mutant: the first page is taken for the listing.                        *)
ListingEnds_FirstPage(i) ==
  LET load == loads[i]
  IN /\ ~load.over /\ load.read > 0
     /\ entries' = entries \union load.found
     /\ loadedPrefixes' = loadedPrefixes \union {load.prefix}
     /\ loads' = [loads EXCEPT ![i].over = TRUE]
     /\ UNCHANGED <<onBucket, selectedPath, followedPath, selectedObject,
                    loadingObject, reading, cancelled>>

ListingEnds(i) ==
  LET load == loads[i]
  IN /\ ~load.over /\ load.read = Len(Pages[load.prefix])
     /\ entries' = entries \union load.found
     /\ loadedPrefixes' = loadedPrefixes \union {load.prefix}
     /\ loads' = [loads EXCEPT ![i].over = TRUE]
     /\ UNCHANGED <<onBucket, selectedPath, followedPath, selectedObject,
                    loadingObject, reading, cancelled>>

ListingFails(i) ==
  /\ ~loads[i].over
  /\ loads' = [loads EXCEPT ![i].over = TRUE]
  /\ UNCHANGED <<onBucket, entries, loadedPrefixes, selectedPath, followedPath, selectedObject,
                 loadingObject, reading, cancelled>>

Next ==
  /\ onBucket
  /\ \/ \E p \in entries \union {Nothing} : Select(p)
     \/ Effects
     \/ ObjectAnswered \/ LateAnswer
     \/ \E i \in DOMAIN loads : PageArrives(i) \/ ListingEnds(i) \/ ListingFails(i)

Spec == Init /\ [][Next]_vars

-----------------------------------------------------------------------------
(* The preview is the one of the selected object, and "Loading object" is  *)
(* shown exactly while its request runs, whatever came late or failed      *)
(* (main.tsx:190-215, 250-256).                                            *)
PreviewBelongsToSelection ==
  selectedPath = followedPath /\ selectedPath \in Objects =>
    /\ selectedObject \in {selectedPath, Nothing}
    /\ loadingObject <=> reading = selectedPath

(* A prefix that counts as loaded has all pages of its listing in the      *)
(* tree, whichever listings ran at the same time (main.tsx:153-183): it    *)
(* will not be listed again.                                               *)
LoadedIsComplete ==
  \A p \in loadedPrefixes : \A n \in DOMAIN Pages[p] : Pages[p][n] \subseteq entries
=============================================================================
