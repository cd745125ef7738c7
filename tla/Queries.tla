------------------------------- MODULE Queries -------------------------------
(***************************************************************************)
(* What the user interfaces rely on of @tanstack/react-query (external):   *)
(* a query keeps the last answer for its key and has at most one request   *)
(* in flight.  The answer a request will bring is what the server holds    *)
(* when it is asked; a server that reads later answers nothing older.      *)
(***************************************************************************)
CONSTANT Nothing  \* no answer, no request

NewQuery == [data |-> Nothing, flight |-> Nothing]

Fetching(q) == q.flight # Nothing

(* A mount, a timer: joins the request in flight, if there is one.         *)
Fetch(q, now) == IF Fetching(q) THEN q ELSE [q EXCEPT !.flight = now]

(* Mutant: a request in flight is taken for the new one.                   *)
Refetch_Joins(q, now) == IF Fetching(q) THEN q ELSE [q EXCEPT !.flight = now]

(* invalidateQueries and refetch(): a request in flight is abandoned for   *)
(* the new one, except the very first, which is joined.                    *)
Refetch(q, now) ==
  IF Fetching(q) /\ q.data = Nothing THEN q ELSE [q EXCEPT !.flight = now]

Answered(q) == [data |-> q.flight, flight |-> Nothing]
Failed(q) == [q EXCEPT !.flight = Nothing]
=============================================================================
