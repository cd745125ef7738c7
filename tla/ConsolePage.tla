---------------------------- MODULE ConsolePage ----------------------------
(***************************************************************************)
(* The console tab of the sql-server plugin (pages/ConsoleTab.tsx, the     *)
(* history of lib/history.ts; the postgres plugin has the same code).  A   *)
(* link ?q=&run=1 opens the tab with a statement and runs it once the      *)
(* editor is there.  Statements run while earlier ones are still under     *)
(* way, and all windows of the browser share the history.                  *)
(***************************************************************************)
EXTENDS Naturals, Sequences, FiniteSets, Filter

CONSTANTS Statements,
          Default, Linked,  \* the statement of an empty console, and of the link
          MaxHistory,       \* MAX_HISTORY (50 in the code)
          MaxSaves,         \* bound on executed statements, those of other windows included
          MaxOpens          \* bound on loads of the page and openings of the tab

ConsoleAssumption ==
  /\ {Default, Linked} \subseteq Statements
  /\ MaxHistory \in Nat /\ MaxSaves \in Nat /\ MaxOpens \in Nat

VARIABLES
  onConsole,  \* the page is shown
  link,       \* the parameters of the URL: "none", "seed" (q), "run" (q and run=1)
  editor,     \* "closed": another tab is open; "loading", "ready"
  statement,
  autoRun,    \* pendingAutoRunRef
  sent,       \* number of statements that queryMut has sent
  result,     \* the one whose result queryMut has, or 0
  storage,    \* the history in localStorage, newest first
  saves,      \* the statements saved since the last clear, newest first (history)
  linkRuns,   \* how often the link ran a statement (history)
  executed, opens

vars == <<onConsole, link, editor, statement, autoRun, sent, result, storage, saves, linkRuns,
          executed, opens>>

TypeOK ==
  /\ onConsole \in BOOLEAN
  /\ link \in {"none", "seed", "run"}
  /\ editor \in {"closed", "loading", "ready"}
  /\ statement \in Statements
  /\ autoRun \in BOOLEAN
  /\ sent \in 0 .. executed /\ result \in 0 .. sent
  /\ storage \in Seq(Statements) /\ Len(storage) <= MaxHistory
  /\ saves \in Seq(Statements) /\ Len(saves) <= executed
  /\ linkRuns \in Nat
  /\ executed \in 0 .. MaxSaves
  /\ opens \in 0 .. MaxOpens

-----------------------------------------------------------------------------
(* Mutant: the link stays in the URL.                                      *)
Stripped_Kept == UNCHANGED link

(* readDeepLink strips q and run.                                          *)
Stripped == link' = "none"

(* The tab is rendered for the first time, in a new page or a new tab.     *)
Mount ==
  /\ editor' = "loading"
  /\ statement' = IF link = "none" THEN Default ELSE Linked
  /\ autoRun' = (link = "run")
  /\ Stripped
  /\ sent' = 0
  /\ result' = 0

Close ==
  /\ editor' = "closed"
  /\ statement' = Default
  /\ autoRun' = FALSE
  /\ sent' = 0
  /\ result' = 0

(* The URL that the host is about to open.                                 *)
Init ==
  /\ onConsole \in BOOLEAN
  /\ link \in {"none", "seed", "run"}
  /\ editor = "closed"
  /\ statement = Default
  /\ autoRun = FALSE
  /\ sent = 0
  /\ result = 0
  /\ storage = <<>>
  /\ saves = <<>>
  /\ linkRuns = 0
  /\ executed = 0
  /\ opens = 0

(* The page is loaded: App shows this tab when the URL has a statement.    *)
Load ==
  /\ opens < MaxOpens
  /\ opens' = opens + 1
  /\ IF link = "none" THEN Close /\ UNCHANGED link ELSE Mount
  /\ UNCHANGED <<onConsole, storage, saves, linkRuns, executed>>

OpenTab ==
  /\ editor = "closed" /\ 0 < opens /\ opens < MaxOpens
  /\ opens' = opens + 1
  /\ Mount
  /\ UNCHANGED <<onConsole, storage, saves, linkRuns, executed>>

LeaveTab ==
  /\ editor # "closed"
  /\ Close
  /\ UNCHANGED <<onConsole, link, storage, saves, linkRuns, executed, opens>>

-----------------------------------------------------------------------------
(* Mutant: a statement that was run before keeps its place.                *)
Saved_KeepsPlace(q) ==
  IF \E n \in DOMAIN storage : storage[n] = q THEN storage
  ELSE SubSeq(<<q>> \o storage, 1,
              IF Len(storage) < MaxHistory THEN Len(storage) + 1 ELSE MaxHistory)

(* saveToHistory                                                           *)
Saved(q) ==
  LET next == <<q>> \o Filter(storage, Statements \ {q})
  IN SubSeq(next, 1, IF Len(next) < MaxHistory THEN Len(next) ELSE MaxHistory)

Save(q) ==
  /\ executed < MaxSaves
  /\ executed' = executed + 1
  /\ storage' = Saved(q)
  /\ saves' = <<q>> \o saves

(* executeQuery("run"): queryMut forgets the statement before it.          *)
ExecuteQuery(q) ==
  /\ Save(q)
  /\ sent' = sent + 1
  /\ result' = 0

(* handleEditorMount; the queued run comes before any other event.         *)
EditorMounts ==
  /\ editor = "loading"
  /\ editor' = "ready"
  /\ autoRun' = FALSE
  /\ IF autoRun THEN ExecuteQuery(statement) /\ linkRuns' = linkRuns + 1
     ELSE UNCHANGED <<storage, saves, sent, result, linkRuns, executed>>
  /\ UNCHANGED <<onConsole, link, statement, opens>>

(* The button is disabled while a statement runs, the editor's key is not. *)
Run ==
  /\ editor # "closed"
  /\ editor = "ready" \/ result = sent
  /\ ExecuteQuery(statement)
  /\ UNCHANGED <<onConsole, link, editor, statement, autoRun, linkRuns, opens>>

(* Mutant: every answer is shown.                                          *)
Shown_Any(n) == n

(* queryMut follows the last statement that it was given.                  *)
Shown(n) == IF n = sent THEN n ELSE result

Answer(n) ==
  /\ result' = Shown(n)
  /\ UNCHANGED <<onConsole, link, editor, statement, autoRun, sent, storage, saves, linkRuns,
                 executed, opens>>

(* The operator types a statement or picks one of the history, which is    *)
(* possible before the editor is there.                                    *)
SetStatement(q) ==
  /\ editor # "closed"
  /\ statement' = q
  /\ UNCHANGED <<onConsole, link, editor, autoRun, sent, result, storage, saves, linkRuns,
                 executed, opens>>

(* clearHistory                                                            *)
Clear ==
  /\ editor # "closed"
  /\ storage' = <<>> /\ saves' = <<>>
  /\ UNCHANGED <<onConsole, link, editor, statement, autoRun, sent, result, linkRuns, executed,
                 opens>>

(* Another window of the same browser runs a statement.                    *)
OtherWindow(q) ==
  /\ Save(q)
  /\ UNCHANGED <<onConsole, link, editor, statement, autoRun, sent, result, linkRuns, opens>>

Next ==
  /\ onConsole
  /\ \/ Load \/ OpenTab \/ LeaveTab \/ EditorMounts \/ Run \/ Clear
     \/ \E n \in 1 .. sent : Answer(n)
     \/ \E q \in Statements : SetStatement(q) \/ OtherWindow(q)

Spec == Init /\ [][Next]_vars

-----------------------------------------------------------------------------
(* The result under the editor is that of the statement run last, however  *)
(* late an earlier one answers (queryMut).                                 *)
ResultOfLatestRun == result # 0 => result = sent

(* A link runs a statement at most once, though the page is reloaded and   *)
(* the tab is left and opened again (readDeepLink, pendingAutoRunRef).     *)
LinkRunsOnce == linkRuns <= 1

(* The history holds the statements that were run last, in all windows     *)
(* together and each once, newest first (saveToHistory).                   *)
LastRun(q) == CHOOSE n \in DOMAIN saves :
                saves[n] = q /\ \A m \in 1 .. n - 1 : saves[m] # q
Distinct == {saves[n] : n \in DOMAIN saves}

HistoryIsMostRecent ==
  /\ Len(storage) = IF Cardinality(Distinct) < MaxHistory THEN Cardinality(Distinct)
                    ELSE MaxHistory
  /\ \A q \in Distinct :
       LET place == Cardinality({u \in Distinct : LastRun(u) <= LastRun(q)})
       IN place <= MaxHistory => storage[place] = q
=============================================================================
