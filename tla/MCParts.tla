------------------------------ MODULE MCParts ------------------------------
(* A small instance of the parts for TLC. *)
EXTENDS Parts

MCReports == {<<"REBUILD">>, <<"DROP", "REBUILD">>}
MCPages == [p \in {"root", "dir"} |->
              IF p = "root" THEN <<{"a"}, {"dir"}>> ELSE <<{"b"}, {"c"}>>]
MCBound == [i \in {"server", "d1"} |-> IF i = "server" THEN Nothing ELSE "d1"]

(* Three indexes, the most worn first, as the scan returns them, and up to *)
(* two stale statistics, one of which belongs to an index.                 *)
Weight == [w \in {"none", "reorganize", "rebuild"} |->
             CASE w = "none" -> 0 [] w = "reorganize" -> 1 [] OTHER -> 2]
Row(i) == [index : {i}, key : {<<"x">>, <<"x", "y">>, <<"y">>}, essential : BOOLEAN,
           read : BOOLEAN, wear : {"none", "reorganize", "rebuild"}]
MCScans ==
  [rows : {rows \in {<<a, b, c>> : a \in Row("i1"), b \in Row("i2"), c \in Row("i3")} :
             /\ Weight[rows[1].wear] >= Weight[rows[2].wear]
             /\ Weight[rows[2].wear] >= Weight[rows[3].wear]},
   stale : {<<>>, <<"i1">>, <<"column">>, <<"i1", "column">>}]
Unscanned == CHOOSE s \in MCScans : TRUE

(* A part that is not looked at starts, and stays, in one state.           *)
MCInit ==
  /\ part \in PartNames
  /\ part # "health" => database = CHOOSE d \in Databases : TRUE
  /\ part # "golang" => open = {}
  /\ part # "arthas" => aJob = [j \in 1 .. MaxJobs |-> Arthas!Unused]
  /\ part # "console" => link = "none"
  /\ part # "triage" => scan = Unscanned
  /\ Init

MCSpec == MCInit /\ [][Next]_vars

(* The state of the part that is looked at is well typed.                  *)
TypeOK ==
  /\ part = "health" => Health!TypeOK
  /\ part = "rollbacks" => Rollbacks!TypeOK
  /\ part = "trace" => Trace!TypeOK
  /\ part = "logs" => Logs!TypeOK
  /\ part = "bucket" => S3!TypeOK
  /\ part = "profiles" => OpenSearch!TypeOK
  /\ part = "gadgets" => Gadget!TypeOK
  /\ part = "golang" => Golang!TypeOK
  /\ part = "arthas" => Arthas!TypeOK
  /\ part = "console" => Console!TypeOK
  /\ part = "sql-server cache" => SqlCache!TypeOK
  /\ part = "postgres cache" => PgCache!TypeOK
  /\ part = "follow" => Follow!TypeOK
  /\ part = "triage" => Triage!TypeOK

(* What follows a selection is not disturbed by the answers and streams of *)
(* an earlier one:                                                         *)
(*   - in the trace tab one stream is open, that of the active trace, and  *)
(*     what it brought is shown in order; events of the trace shown before *)
(*     may stand beside it, because a click on a row does not clear them;  *)
(*   - the log lines are the newest of the selected pod and container;     *)
(*   - the preview of the bucket is of the selected object;                *)
(*   - profile, result, preview and row of opensearch belong together;     *)
(*   - the result in the console is of the statement run last;             *)
(*   - a pool is handed out for another database than the item's only if   *)
(*     the item's lookup failed, in this call or in the one that opened    *)
(*     the pool, and never for another item.                               *)
(* TraceTab.tsx, useLogStream.ts, main.tsx of s3 and opensearch,           *)
(* ConsoleTab.tsx, client.go of sql-server and postgres.                   *)
SelectionIsFollowed ==
  /\ part = "trace" => Trace!OneStreamFollowed /\ Trace!StreamIsShown
  /\ part = "logs" => Logs!LinesBelongToSelection
  /\ part = "bucket" => S3!PreviewBelongsToSelection
  /\ part = "profiles" => OpenSearch!ShownTogether
  /\ part = "console" => Console!ResultOfLatestRun
  /\ part = "sql-server cache" => SqlCache!PoolIsOfTheDatabase
  /\ part = "postgres cache" => PgCache!PoolIsOfTheDatabase

(* What was asked for is followed up, with the exceptions that its part's  *)
(* property names:                                                         *)
(*   - the drops sent were ticked, unless sent before the effects ran;     *)
(*   - a restore that the page saw end as done is shown as restored,       *)
(*     unless the latest fetch of the entries failed;                      *)
(*   - a prefix that counts as loaded has every page of its listing;       *)
(*   - of a gadget session listed as completed or failed the latest events *)
(*     up to the page's limit are shown, but not of a stopped one, and not *)
(*     if a refresh or a failed load came in between;                      *)
(*   - golang starts one session per target, unless an answer or the list  *)
(*     was lost; arthas follows a start to its session; both keep a        *)
(*     deleted one out of the list, unless the latest fetch of it failed;  *)
(*   - a link runs at most once; the history has the statements run last;  *)
(*   - an opened pool is lost only to one whose opening overlapped;        *)
(*   - a log stream writes whole frames, every line read, in order, before *)
(*     it returns; only the heartbeat may still write after that;          *)
(*   - a scan leaves no need without a fix, but that of a column statistic *)
(*     of a table rebuilt as a whole; no index that enforces a key is      *)
(*     dropped, and a used one only if a longer one stays or is unused.    *)
RequestsAreFollowedUp ==
  /\ part = "health" => Health!AppliedAsChosen
  /\ part = "rollbacks" => Rollbacks!DoneIsShownRestored
  /\ part = "bucket" => S3!LoadedIsComplete
  /\ part = "gadgets" => Gadget!CompletedIsShownToTheEnd
  /\ part = "golang" => Golang!OneSessionPerTarget /\ Golang!DeletedStaysGone
  /\ part = "arthas" => Arthas!StartIsFollowed /\ Arthas!DeletedStaysGone
  /\ part = "console" => Console!LinkRunsOnce /\ Console!HistoryIsMostRecent
  /\ part = "sql-server cache" => SqlCache!LostPoolNeedsOverlap
  /\ part = "postgres cache" => PgCache!LostPoolNeedsOverlap
  /\ part = "follow" => Follow!FramesAreWholeAndOrdered /\ Follow!ReturnedAfterLastLine
  /\ part = "triage" => Triage!UnmetNeedIsOfAColumn /\ Triage!UsedIndexHasSubstitute
=============================================================================
