----------------------------- MODULE Migration -----------------------------
(***************************************************************************)
(* database.Open: the statements of migrate that bring a table of any      *)
(* earlier version to the present one (api/internal/database/schema.go).   *)
(*                                                                         *)
(* Each statement commits on its own and the process can stop between any  *)
(* two; the next boot starts from the top.  A table from before the split  *)
(* of the links has one token per email, preview_otk, which was mailed out *)
(* as the email's only link; a used one is NULL.                           *)
(***************************************************************************)
EXTENDS Integers, FiniteSets

CONSTANTS
    OldMail,     \* emails an earlier version stored
    MaxMail      \* bound: the highest id

ASSUME MigrationAssumption ==
    /\ OldMail \in Nat
    /\ MaxMail \in Nat \ {0}
    /\ OldMail <= MaxMail

Ids  == 1 .. MaxMail
Null == 0
Toks == 1 .. (OldMail + 2 * MaxMail)

Columns == {"preview_otk", "keep_otk", "kept", "opened_at"}

VARIABLES
    phase,       \* what main does next
    cols,        \* the columns the table has
    otk,         \* the rows: per live id, the tokens of its links
    nextId,      \* AUTOINCREMENT
    nextTok,     \* the next token drawn, by GenerateToken or randomblob(16)
    sent         \* history: per id, the token that went out in its keep link

tableVars == <<cols, otk, nextId, nextTok, sent>>

Live == DOMAIN otk

\* The tables of versions without keep_otk, a fresh file among them.
MigrationInit ==
    /\ phase = "down"
    /\ cols \in SUBSET (Columns \ {"keep_otk"})
    /\ \E S \in SUBSET (1 .. OldMail) :
         /\ S # {} => "preview_otk" \in cols
         /\ otk = [id \in 1 .. OldMail |->
                     [preview |-> IF id \in S THEN id ELSE Null, keep |-> Null]]
         /\ sent = [id \in Ids |-> IF id \in S THEN id ELSE Null]
    /\ nextId = OldMail + 1
    /\ nextTok = OldMail + 1

Phase(p, q) ==
    /\ phase = p
    /\ phase' = q

\* CREATE TABLE and CREATE INDEX, all IF NOT EXISTS.
CreateTables ==
    /\ Phase("tables", "preview_otk")
    /\ UNCHANGED tableVars

\* Mutant: a column that is there is taken for a table that is up to date.
AddColumnOrDone(c, next) ==
    /\ Phase(c, IF c \in cols THEN "up" ELSE next)
    /\ cols' = cols \cup {c}
    /\ UNCHANGED <<otk, nextId, nextTok, sent>>

\* addColumnIfMissing: "duplicate column" is no error.
AddColumnIfMissing(c, next) ==
    /\ Phase(c, next)
    /\ cols' = cols \cup {c}
    /\ UNCHANGED <<otk, nextId, nextTok, sent>>

\* Mutant: the condition that leaves tokens alone is forgotten.
CopyOTKAlways ==
    /\ Phase("copy otk", "draw otk")
    /\ otk' = [id \in Live |-> IF otk[id].preview # Null
                                 THEN [otk[id] EXCEPT !.keep = otk[id].preview]
                                 ELSE otk[id]]
    /\ UNCHANGED <<cols, nextId, nextTok, sent>>

\* UPDATE emails SET keep_otk = preview_otk: the link that was mailed keeps.
CopyOTK ==
    /\ Phase("copy otk", "draw otk")
    /\ otk' = [id \in Live |-> IF otk[id].keep = Null
                                 THEN [otk[id] EXCEPT !.keep = otk[id].preview]
                                 ELSE otk[id]]
    /\ UNCHANGED <<cols, nextId, nextTok, sent>>

Bare == {id \in Live : otk[id].keep = Null}
Rank(id) == Cardinality({j \in Bare : j < id})

\* UPDATE emails SET keep_otk = randomblob for what is still without.
DrawOTK ==
    /\ Phase("draw otk", "kept")
    /\ otk' = [id \in Live |-> IF id \in Bare
                                 THEN [otk[id] EXCEPT !.keep = nextTok + Rank(id)]
                                 ELSE otk[id]]
    /\ nextTok' = nextTok + Cardinality(Bare)
    /\ UNCHANGED <<cols, nextId, sent>>

Migrate ==
    \/ CreateTables
    \/ AddColumnIfMissing("preview_otk", "keep_otk")
    \/ AddColumnIfMissing("keep_otk", "copy otk")
    \/ CopyOTK
    \/ DrawOTK
    \/ AddColumnIfMissing("kept", "opened_at")

\* The last statement of migrate, after which Open returns.
Opens == AddColumnIfMissing("opened_at", "up")

MigrationTypeOK ==
    /\ cols \subseteq Columns
    /\ Live \subseteq 1 .. nextId - 1
    /\ otk \in [Live -> [preview : Toks \cup {Null}, keep : Toks \cup {Null}]]
    /\ nextId \in 1 .. MaxMail + 1
    /\ nextTok \in Nat
    /\ sent \in [Ids -> Toks \cup {Null}]

(* Whoever was sent a link can keep the email with it for as long as the   *)
(* email lives: through the upgrade, however often it is interrupted, and  *)
(* through every later boot, which runs the statements again.  An email    *)
(* without such a link gets one, and no two emails share one.              *)
LinksLast ==
    phase = "up" =>
        \A id \in Live :
            /\ otk[id].keep # Null
            /\ sent[id] # Null => otk[id].keep = sent[id]
            /\ \A j \in Live \ {id} : otk[j].keep # otk[id].keep
============================================================================
