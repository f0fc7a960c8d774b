---------------------------- MODULE EmailStore ----------------------------
(***************************************************************************)
(* The emails table behind api/internal/database: one operator per SQL     *)
(* statement the package runs.  SQLite executes each statement atomically  *)
(* and Open caps the pool at one connection, so a statement is one step;   *)
(* what a handler does BETWEEN its statements is the business of the       *)
(* modules that extend this one.                                           *)
(*                                                                         *)
(* Tokens are abstracted to the order in which GenerateToken drew them: 16 *)
(* random bytes never repeat.  Time is a clock in whole units, like the    *)
(* RFC3339 text of created_at and opened_at.                               *)
(***************************************************************************)
EXTENDS Integers

CONSTANTS
    MaxMail,     \* bound: messages handed to the ingest handler
    MaxRegen,    \* bound: preview-token requests
    MaxTime      \* bound: last instant of the clock

ASSUME BoundsAssumption ==
    /\ MaxMail \in Nat \ {0}
    /\ MaxRegen \in Nat
    /\ MaxTime \in Nat

Ids  == 1 .. MaxMail
Toks == 1 .. (2 * MaxMail + MaxRegen)
Time == 0 .. MaxTime

Null == 0        \* SQL NULL in a token column
Never == -1      \* SQL NULL in opened_at

Row == [created : Time,
        kept    : BOOLEAN,
        opened  : Time \cup {Never},
        preview : Toks \cup {Null},
        keep    : Toks,
        atts    : BOOLEAN]        \* the message has attachments

VARIABLES
    emails,      \* the table: a function from the live ids to their rows
    nextId,      \* AUTOINCREMENT: ids are never reused
    nextTok,     \* the next token GenerateToken draws
    now          \* the clock the handlers and the cleaner read

storeVars == <<emails, nextId, nextTok, now>>

Live == DOMAIN emails

StoreTypeOK ==
    /\ Live \subseteq Ids
    /\ emails \in [Live -> Row]
    /\ nextId \in 1 .. (MaxMail + 1)
    /\ \A id \in Live : id < nextId
    /\ nextTok \in 1 .. (2 * MaxMail + MaxRegen + 1)
    /\ now \in Time

StoreInit ==
    /\ emails = [id \in {} |-> {}]
    /\ nextId = 1
    /\ nextTok = 1
    /\ now = 0

----------------------------------------------------------------------------
(* Conditions of the WHERE clauses. *)

HoldsPreview(id, t) == id \in Live /\ emails[id].preview = t
HoldsKeep(id, t)    == id \in Live /\ emails[id].keep = t
Unopened(id)        == id \in Live /\ emails[id].opened = Never
IsKept(id)          == id \in Live /\ emails[id].kept
IsUnkept(id)        == id \in Live /\ ~emails[id].kept

\* Mutant: the DELETE forgets "AND kept = 0".
ExpiredAll(cut) == {id \in Live : emails[id].created < cut}
Expired(cut)    == {id \in Live : emails[id].created < cut /\ ~emails[id].kept}

(* Statements that change rows.  Each leaves now alone; only InsertRow and *)
(* SetPreview draw tokens, which nobody else can see before the statement  *)
(* commits.                                                                *)

\* Mutant: the INSERT of before keep_otk existed.
NewRowNoKeep(at, withAtts) ==
    [created |-> at, kept |-> FALSE, opened |-> Never,
     preview |-> nextTok, keep |-> Null, atts |-> withAtts]

\* Mutant: one token for the life of the process.
NewRowSameToken(at, withAtts) ==
    [created |-> at, kept |-> FALSE, opened |-> Never,
     preview |-> 1, keep |-> nextTok + 1, atts |-> withAtts]

NewRow(at, withAtts) ==
    [created |-> at, kept |-> FALSE, opened |-> Never,
     preview |-> nextTok, keep |-> nextTok + 1, atts |-> withAtts]

\* The transaction of InsertEmail: the row, its attachments and both tokens.
InsertRow(at, withAtts) ==
    /\ nextId \in Ids
    /\ nextTok + 1 \in Toks
    /\ emails' = [id \in Live \cup {nextId} |->
                    IF id = nextId THEN NewRow(at, withAtts) ELSE emails[id]]
    /\ nextId' = nextId + 1
    /\ nextTok' = nextTok + 2
    /\ UNCHANGED now

\* Mutant: the link is checked as ValidPreviewOTK does, and stays valid.
ClearPreviewNot(id) == UNCHANGED storeVars

ClearPreview(id) ==
    /\ emails' = [emails EXCEPT ![id].preview = Null]
    /\ UNCHANGED <<nextId, nextTok, now>>

\* Mutant: the keep link is renewed together with the preview link.
SetPreviewAndKeep(id) ==
    /\ nextTok \in Toks
    /\ nextTok' = nextTok + 1
    /\ emails' = IF id \in Live
                   THEN [emails EXCEPT ![id].preview = nextTok, ![id].keep = nextTok]
                   ELSE emails
    /\ UNCHANGED <<nextId, now>>

\* RegeneratePreviewOTK draws the token before it knows whether the row is there.
SetPreview(id) ==
    /\ nextTok \in Toks
    /\ nextTok' = nextTok + 1
    /\ emails' = IF id \in Live THEN [emails EXCEPT ![id].preview = nextTok]
                                ELSE emails
    /\ UNCHANGED <<nextId, now>>

\* Mutant: both statements set the flag.
SetKeptAlways(id, flag) ==
    /\ emails' = [emails EXCEPT ![id].kept = TRUE]
    /\ UNCHANGED <<nextId, nextTok, now>>

SetKept(id, flag) ==
    /\ emails' = [emails EXCEPT ![id].kept = flag]
    /\ UNCHANGED <<nextId, nextTok, now>>

\* Mutant: INSERT OR REPLACE instead of UPDATE, which deletes the old row and
\* with it, by the cascade, the attachments.
SetOpenedReplace(id, at) ==
    /\ emails' = [emails EXCEPT ![id].opened = at, ![id].atts = FALSE]
    /\ UNCHANGED <<nextId, nextTok, now>>

\* The time is read before the statement waits for the connection.
SetOpened(id, at) ==
    /\ emails' = [emails EXCEPT ![id].opened = at]
    /\ UNCHANGED <<nextId, nextTok, now>>

\* Attachments go with their row (ON DELETE CASCADE).
DeleteRows(S) ==
    /\ emails' = [id \in Live \ S |-> emails[id]]
    /\ UNCHANGED <<nextId, nextTok, now>>

Tick ==
    /\ now < MaxTime
    /\ now' = now + 1
    /\ UNCHANGED <<emails, nextId, nextTok>>
============================================================================
