------------------------------- MODULE Watch -------------------------------
(***************************************************************************)
(* A client of the API that watches the mailbox the way docs/api.md:80     *)
(* describes: it asks for the newest email (GET /emails/latest, or         *)
(* /emails?limit=1) and passes its id as since_id to GET /emails/wait.     *)
(* The table is that of Inbox; the page does nothing.                      *)
(***************************************************************************)
EXTENDS Inbox

VARIABLES
    client,       \* what the client does, since_id and the answer to wait
    known         \* history: emails that had arrived when it asked for the newest

watchVars == <<client, known>>

WatchInit ==
    /\ Init
    /\ client = [at |-> "idle", since |-> 0, got |-> None]
    /\ known = {}

\* 404 from an empty table: the client begins with since_id=0.
Latest ==
    /\ client.at = "idle"
    /\ \E n \in IF live = {} THEN {0} ELSE Newest(live) :
         client' = [at |-> "waiting", since |-> n, got |-> None]
    /\ known' = 1 .. nextId - 1
    /\ UNCHANGED vars

\* One round of the poll loop that finds something.
WaitReturns ==
    /\ client.at = "waiting"
    /\ \E i \in Newest(Since(client.since)) :
         client' = [client EXCEPT !.at = "told", !.got = i]
    /\ UNCHANGED <<vars, known>>

\* 408, or the email was read: the client asks for the newest again.
AskAgain ==
    /\ \/ client.at = "told"
       \/ client.at = "waiting" /\ Since(client.since) = {}
    /\ client' = [client EXCEPT !.at = "idle", !.got = None]
    /\ UNCHANGED <<vars, known>>

WatchNext ==
    \/ Table /\ UNCHANGED watchVars
    \/ Latest
    \/ WaitReturns
    \/ AskAgain

WatchSpec == WatchInit /\ [][WatchNext]_<<vars, watchVars>>
----------------------------------------------------------------------------
\* No two emails were parsed in the same second: it is plain which is newest.
NoTies == \A i, j \in 1 .. nextId - 1 : i # j => created[i] # created[j]

(* docs/api.md:80: "Pass since_id of the current newest email to block     *)
(* until new mail arrives".  What wait answers with is an email that had   *)
(* not arrived yet when the client asked for the newest one, at least when *)
(* it is plain which one that was.  The newest is the one with the highest *)
(* created_at, since_id is compared with ids.                              *)
WaitBringsLater == NoTies /\ client.at = "told" => client.got \notin known
============================================================================
