--------------------------- MODULE Server_proofs ---------------------------
(***************************************************************************)
(* Proofs about the life of the API process, for any number of handlers,   *)
(* restarts, failed rounds and emails of an earlier version.               *)
(*                                                                         *)
(* The inductive invariant has a part per matter: what a boot has reached  *)
(* (BootInv), the links in the table (LinkInv), the ids that are left      *)
(* (PurgeInv), the cleaner's count (PaceInv) and in whose hand an event is *)
(* (OnceInv).                                                              *)
(***************************************************************************)
EXTENDS Server, FiniteSetTheorems, TLAPS

\* The phases of main in which the database serves or served.
Booted == {"up", "draining", "closed"}
Phases == {"down", "tables", "preview_otk", "keep_otk", "copy otk", "draw otk",
           "kept", "opened_at"} \cup Booted

\* Behind the statement that draws the tokens.
PastDraw == {"kept", "opened_at"} \cup Booted

\* The columns the boot has added.
HasColumns ==
    /\ phase = "keep_otk" => {"preview_otk"} \subseteq cols
    /\ phase \in {"copy otk", "draw otk", "kept"} =>
         {"preview_otk", "keep_otk"} \subseteq cols
    /\ phase = "opened_at" => {"preview_otk", "keep_otk", "kept"} \subseteq cols
    /\ phase \in Booted => Columns \subseteq cols

\* A process that does not serve yet, or is not there, holds nothing.
Fresh == /\ Busy = {} /\ cpc = "off" /\ posts = {}
         /\ runCount = 0 /\ hours = 0 /\ misses = 0 /\ failed = 0

BootInv == phase \in Phases /\ HasColumns /\ (phase \notin Booted => Fresh)

\* The token that keeps an email: the only one of a table from before the split.
link == [id \in Live |-> IF otk[id].keep # Null THEN otk[id].keep
                                               ELSE otk[id].preview]

LinkInv ==
    /\ OldMail < nextId
    /\ 0 < nextTok
    /\ nextTok + Cardinality(Bare) <= 2 * nextId - 1
    /\ \A id \in Live : /\ link[id] < nextTok
                        /\ sent[id] # Null => link[id] = sent[id]
    /\ \A i, j \in Live : i # j /\ link[i] # Null => link[i] # link[j]
    /\ phase = "draw otk" => \A id \in Bare : otk[id].preview = Null
    /\ phase \in PastDraw => Bare = {}

\* Every round that reported deleted an email.
PurgeInv == purges \in Nat /\ purges + Cardinality(Live) <= nextId - 1

\* What failures have cost since the last VACUUM: one round each, and all that
\* led up to it when it was the VACUUM that failed.
lost == VacuumEvery * failed + misses

\* Where the cleaner is between two VACUUMs.
PaceInv ==
    /\ cpc = "off"    => hours <= VacuumEvery + lost
    /\ cpc = "select" => hours = runCount + lost
    /\ cpc \in {"delete", "report"} => hours = runCount + lost + 1
    /\ cpc = "vacuum" => hours = VacuumEvery + lost /\ runCount = 0

\* The events a handler, or the cleaner, has still to hand over.
owed == [h \in Handlers |-> IF At(h, "notify") THEN {Event("received", req[h].id)}
                          ELSE IF At(h, "hook") THEN {Event("opened", req[h].id)}
                          ELSE {}]
cleanOwed == IF cpc = "report" THEN {Event("cleaned", purges)} ELSE {}

\* No event is in two hands: those of two handlers, or one due, one posting
\* and the receiver.
OnceInv ==
    /\ \A e \in Events : /\ seen[e] <= 1
                         /\ e \in Due => e \notin posts /\ seen[e] = 0
                         /\ e \in posts => seen[e] = 0
    /\ \A g, h \in Handlers : g # h => owed[g] \cap owed[h] = {}

EventInv == NoEventForgotten /\ OnceInv

TableInv == MigrationTypeOK /\ LinkInv /\ PurgeInv

----------------------------------------------------------------------------
(* The table. *)

LEMMA TableFacts ==
  ASSUME MigrationTypeOK
  PROVE  /\ nextId \in Nat /\ nextId <= MaxMail + 1
         /\ Live \subseteq Ids /\ nextId \notin Live
         /\ \A id \in Live : /\ otk[id].keep \in Toks \cup {Null}
                             /\ otk[id].preview \in Toks \cup {Null}
                             /\ link[id] \in Toks \cup {Null}
         /\ \A id \in Ids : sent[id] \in Toks \cup {Null}
         /\ Toks \subseteq Nat \ {0} /\ Null = 0
         /\ Bare \subseteq Live
         /\ IsFiniteSet(Live) /\ Cardinality(Live) \in Nat
         /\ IsFiniteSet(Bare) /\ Cardinality(Bare) \in Nat
<1>1. /\ nextId \in Nat /\ nextId <= MaxMail + 1
      /\ Live \subseteq Ids /\ nextId \notin Live
  BY MigrationAssumption, SMT DEF MigrationTypeOK, Ids
<1>2. Toks \subseteq Nat \ {0} /\ Null = 0
  BY MigrationAssumption, SMT DEF Toks, Null
<1>3. \A id \in Live : /\ otk[id].keep \in Toks \cup {Null}
                       /\ otk[id].preview \in Toks \cup {Null}
  BY SMT DEF MigrationTypeOK
<1>4. \A id \in Live : link[id] \in Toks \cup {Null}
  BY <1>3 DEF link
<1>5. \A id \in Ids : sent[id] \in Toks \cup {Null}
  BY DEF MigrationTypeOK
<1>6. IsFiniteSet(1 .. nextId - 1)
  BY <1>1, FS_Interval, SMT
<1>7. IsFiniteSet(Live) /\ Live \in SUBSET (1 .. nextId - 1)
  BY <1>6, FS_Subset DEF MigrationTypeOK
<1>8. Bare \subseteq Live /\ IsFiniteSet(Bare)
  BY <1>7, FS_Subset DEF Bare
<1>9. Cardinality(Live) \in Nat /\ Cardinality(Bare) \in Nat
  BY <1>7, <1>8, FS_CardinalityType
<1> QED
  BY <1>1, <1>2, <1>3, <1>4, <1>5, <1>7, <1>8, <1>9

\* The same as a formula, to be used of the next state too.
TableCounts ==
    MigrationTypeOK => /\ Cardinality(Live) \in Nat
                       /\ nextId \in Nat /\ nextId <= MaxMail + 1

LEMMA TableFactsAlways == TableCounts
  BY TableFacts DEF TableCounts

LEMMA InitTable == Init => TableInv
<1> SUFFICES ASSUME Init PROVE TableInv
  OBVIOUS
<1>1. PICK S \in SUBSET (1 .. OldMail) :
        /\ otk = [id \in 1 .. OldMail |->
                    [preview |-> IF id \in S THEN id ELSE Null, keep |-> Null]]
        /\ sent = [id \in Ids |-> IF id \in S THEN id ELSE Null]
  BY DEF Init, MigrationInit
<1>2. /\ phase = "down" /\ cols \subseteq Columns
      /\ nextId = OldMail + 1 /\ nextTok = OldMail + 1 /\ purges = 0
  BY DEF Init, MigrationInit
<1>3. Live = 1 .. OldMail /\ Live \subseteq Ids /\ Live \subseteq Toks
  BY <1>1, MigrationAssumption, SMT DEF Live, Ids, Toks
<1>4. \A id \in Live : /\ otk[id].keep = Null
                       /\ otk[id].preview = IF id \in S THEN id ELSE Null
                       /\ sent[id] = IF id \in S THEN id ELSE Null
  BY <1>1, <1>3
<1>5. otk \in [Live -> [preview : Toks \cup {Null}, keep : Toks \cup {Null}]]
  BY <1>1, <1>3, SMT
<1>6. sent \in [Ids -> Toks \cup {Null}]
  BY <1>1, MigrationAssumption, SMT DEF Ids, Toks
<1>7. MigrationTypeOK
  BY <1>2, <1>3, <1>5, <1>6, MigrationAssumption, SMT DEF MigrationTypeOK
<1>8. Cardinality(Live) = OldMail
  BY <1>3, FS_Interval, MigrationAssumption, SMT
<1>9. Bare = Live
  BY <1>4 DEF Bare
<1>10. PurgeInv
  BY <1>2, <1>8, MigrationAssumption, SMT DEF PurgeInv
<1>11. \A id \in Live : link[id] = IF id \in S THEN id ELSE Null
  BY <1>4 DEF link
<1>12. LinkInv
  <2>1. /\ OldMail < nextId /\ 0 < nextTok
        /\ nextTok + Cardinality(Bare) <= 2 * nextId - 1
    BY <1>2, <1>8, <1>9, MigrationAssumption, SMT
  <2>2. \A id \in Live : link[id] < nextTok /\ (sent[id] # Null => link[id] = sent[id])
    BY <1>2, <1>3, <1>4, <1>11, MigrationAssumption, SMT DEF Null
  <2>3. \A i, j \in Live : i # j /\ link[i] # Null => link[i] # link[j]
    BY <1>11
  <2>4. phase # "draw otk" /\ phase \notin PastDraw
    BY <1>2 DEF PastDraw, Booted
  <2> QED
    BY <2>1, <2>2, <2>3, <2>4 DEF LinkInv
<1> QED
  BY <1>7, <1>10, <1>12 DEF TableInv

(* A step that leaves the rows alone keeps what is known of them, unless   *)
(* it goes past statements of the migration.                               *)
LEMMA RowsStay ==
  ASSUME TableInv, otk' = otk, nextId' = nextId, nextTok' = nextTok, sent' = sent,
         cols' \subseteq Columns, purges' = purges,
         phase' \in PastDraw => phase \in PastDraw,
         phase' = "draw otk" => phase = "draw otk"
  PROVE  TableInv'
<1>1. Live' = Live /\ Bare' = Bare /\ link' = link
  BY DEF Live, Bare, link
<1>2. MigrationTypeOK'
  BY <1>1 DEF TableInv, MigrationTypeOK
<1>3. PurgeInv'
  BY <1>1 DEF TableInv, PurgeInv
<1>4. LinkInv'
  <2>1. /\ OldMail < nextId' /\ 0 < nextTok'
        /\ nextTok' + Cardinality(Bare') <= 2 * nextId' - 1
    BY <1>1 DEF TableInv, LinkInv
  <2>2. \A id \in Live' : /\ link'[id] < nextTok'
                          /\ sent'[id] # Null => link'[id] = sent'[id]
    BY <1>1 DEF TableInv, LinkInv
  <2>3. \A i, j \in Live' : i # j /\ link'[i] # Null => link'[i] # link'[j]
    BY <1>1 DEF TableInv, LinkInv
  <2>4. /\ phase' = "draw otk" => \A id \in Bare' : otk'[id].preview = Null
        /\ phase' \in PastDraw => Bare' = {}
    BY <1>1 DEF TableInv, LinkInv
  <2> QED
    BY <2>1, <2>2, <2>3, <2>4 DEF LinkInv
<1> QED
  BY <1>2, <1>3, <1>4 DEF TableInv

(* The new row's keep token is one nobody has. *)
LEMMA InsertTable ==
  ASSUME TableInv, NEW h \in Handlers, InsertEmail(h), phase \in PastDraw
  PROVE  TableInv'
<1> DEFINE row == [preview |-> nextTok, keep |-> nextTok + 1]
<1>1. /\ nextId \in Ids /\ phase' = phase /\ cols' = cols /\ purges' = purges
      /\ otk' = [id \in Live \cup {nextId} |-> IF id = nextId THEN row ELSE otk[id]]
      /\ sent' = [sent EXCEPT ![nextId] = nextTok + 1]
      /\ nextId' = nextId + 1 /\ nextTok' = nextTok + 2
  BY DEF InsertEmail, eventVars
<1>2. MigrationTypeOK /\ LinkInv /\ PurgeInv
  BY DEF TableInv
<1>3. Bare = {} /\ nextTok <= 2 * nextId - 1 /\ nextTok \in Nat \ {0}
  <2>1. Bare = {} /\ Cardinality(Bare) = 0
    BY <1>2, FS_EmptySet DEF LinkInv
  <2>2. nextTok + 0 <= 2 * nextId - 1 /\ 0 < nextTok
    BY <1>2, <2>1 DEF LinkInv
  <2> QED
    BY <1>2, <2>1, <2>2, TableFacts, SMT DEF MigrationTypeOK
<1>4. nextTok \in Toks /\ nextTok + 1 \in Toks
  BY <1>1, <1>3, MigrationAssumption, SMT DEF Toks, Ids
<1>5. row \in [preview : Toks \cup {Null}, keep : Toks \cup {Null}]
  BY <1>4
<1>6. row.preview = nextTok /\ row.keep = nextTok + 1
  OBVIOUS
<1> HIDE DEF row
<1>7. Live' = Live \cup {nextId} /\ nextId \notin Live
  BY <1>1, <1>2, TableFacts DEF Live
<1>8. otk'[nextId] = row /\ \A id \in Live : otk'[id] = otk[id]
  BY <1>1, <1>7
<1>9. otk' \in [Live' -> [preview : Toks \cup {Null}, keep : Toks \cup {Null}]]
  BY <1>1, <1>2, <1>5, <1>7, <1>8 DEF MigrationTypeOK
<1>10. /\ sent' \in [Ids -> Toks \cup {Null}]
       /\ sent'[nextId] = nextTok + 1
       /\ \A id \in Live : sent'[id] = sent[id]
  BY <1>1, <1>2, <1>4, <1>7, TableFacts DEF MigrationTypeOK
<1>11. /\ Live' \subseteq 1 .. nextId' - 1
       /\ nextId' \in 1 .. MaxMail + 1 /\ nextTok' \in Nat
  BY <1>1, <1>2, <1>3, <1>7, MigrationAssumption, SMT DEF MigrationTypeOK, Ids
<1>12. MigrationTypeOK'
  BY <1>1, <1>2, <1>9, <1>10, <1>11 DEF MigrationTypeOK
<1>13. link'[nextId] = nextTok + 1 /\ \A id \in Live : link'[id] = link[id]
  <2>1. nextTok + 1 # Null
    BY <1>3, SMT DEF Null
  <2> QED
    BY <1>6, <1>7, <1>8, <2>1 DEF link
<1>14. Bare' = {}
  <2>1. nextTok + 1 # Null
    BY <1>3, SMT DEF Null
  <2> QED
    BY <1>3, <1>6, <1>7, <1>8, <2>1 DEF Bare
<1>15. PurgeInv'
  <2>1. Cardinality(Live') = Cardinality(Live) + 1
    BY <1>2, <1>7, TableFacts, FS_AddElement
  <2>2. /\ Cardinality(Live) \in Nat /\ nextId \in Nat
        /\ purges + Cardinality(Live) <= nextId - 1
    BY <1>2, TableFacts DEF PurgeInv
  <2>3. purges \in Nat /\ purges + (Cardinality(Live) + 1) <= (nextId + 1) - 1
    BY <1>2, <2>2, SMT DEF PurgeInv
  <2> QED
    BY <1>1, <2>1, <2>3 DEF PurgeInv
<1>16. \A id \in Live : /\ link[id] < nextTok /\ link[id] \in Nat
                        /\ sent[id] # Null => link[id] = sent[id]
  <2>1. \A id \in Live : link[id] \in Toks \cup {0}
    BY <1>2, TableFacts
  <2>2. \A id \in Live : link[id] \in Nat
    BY <1>2, <2>1, TableFacts
  <2> QED
    BY <1>2, <2>2 DEF LinkInv
<1>17. LinkInv'
  <2>1. /\ OldMail < nextId' /\ 0 < nextTok'
        /\ nextTok' + Cardinality(Bare') <= 2 * nextId' - 1
    BY <1>1, <1>2, <1>3, <1>14, FS_EmptySet, TableFacts, MigrationAssumption, SMT
    DEF LinkInv
  <2>2. \A id \in Live' : link'[id] < nextTok'
    BY <1>1, <1>3, <1>7, <1>13, <1>16, SMT
  <2>3. \A id \in Live' : sent'[id] # Null => link'[id] = sent'[id]
    BY <1>7, <1>10, <1>13, <1>16
  <2>4. \A id \in Live : link[id] # nextTok + 1
    BY <1>3, <1>16, SMT
  <2>5. \A i, j \in Live' : i # j /\ link'[i] # Null => link'[i] # link'[j]
    <3> SUFFICES ASSUME NEW i \in Live', NEW j \in Live', i # j, link'[i] # Null
                 PROVE  link'[i] # link'[j]
      OBVIOUS
    <3>1. CASE i \in Live /\ j \in Live
      <4>1. link[i] # Null => link[i] # link[j]
        BY <1>2, <3>1 DEF LinkInv
      <4> QED
        BY <1>13, <3>1, <4>1
    <3>2. CASE i = nextId \/ j = nextId
      BY <1>7, <1>13, <2>4, <3>2
    <3> QED
      BY <1>7, <3>1, <3>2
  <2>6. phase' # "draw otk"
    BY <1>1 DEF PastDraw, Booted
  <2> QED
    BY <1>14, <2>1, <2>2, <2>3, <2>5, <2>6 DEF LinkInv
<1> QED
  BY <1>12, <1>15, <1>17 DEF TableInv

(* A DELETE takes rows and leaves the links of the others alone. *)
LEMMA DeleteTable ==
  ASSUME TableInv, DeleteExpired
  PROVE  TableInv'
<1>1. /\ phase' = phase /\ cols' = cols /\ sent' = sent
      /\ nextId' = nextId /\ nextTok' = nextTok
      /\ \/ otk' = otk /\ purges' = purges
         \/ \E S \in (SUBSET Live) \ {{}} : /\ otk' = [id \in Live \ S |-> otk[id]]
                                            /\ purges' = purges + 1
  BY Zenon DEF DeleteExpired
<1>2. MigrationTypeOK /\ LinkInv /\ PurgeInv
  BY DEF TableInv
<1>3. CASE otk' = otk /\ purges' = purges
  BY <1>1, <1>2, <1>3, RowsStay DEF MigrationTypeOK
<1>4. ASSUME NEW S \in (SUBSET Live) \ {{}},
             otk' = [id \in Live \ S |-> otk[id]], purges' = purges + 1
      PROVE  TableInv'
  <2>1. Live' = Live \ S /\ \A id \in Live' : otk'[id] = otk[id]
    BY <1>4 DEF Live
  <2>2. Bare' \subseteq Bare /\ \A id \in Live' : link'[id] = link[id]
    BY <2>1 DEF Bare, link
  <2>3. MigrationTypeOK'
    BY <1>1, <1>2, <1>4, <2>1, SMT DEF MigrationTypeOK
  <2>4. Cardinality(Bare') <= Cardinality(Bare) /\ Cardinality(Bare') \in Nat
    <3>1. IsFiniteSet(Bare) /\ Bare' \in SUBSET Bare
      BY <1>2, <2>2, TableFacts
    <3> QED
      BY <3>1, FS_Subset, FS_CardinalityType
  <2>5. PurgeInv'
    <3>1. Live' # Live /\ Live' \in SUBSET Live
      BY <1>4, <2>1
    <3>2. /\ IsFiniteSet(Live) /\ Cardinality(Live) \in Nat
          /\ purges \in Nat /\ nextId \in Nat
          /\ purges + Cardinality(Live) <= nextId - 1
      BY <1>2, TableFacts DEF PurgeInv
    <3>3. /\ Cardinality(Live') <= Cardinality(Live) /\ Cardinality(Live') \in Nat
          /\ Cardinality(Live') # Cardinality(Live)
      BY <3>1, <3>2, FS_Subset, FS_CardinalityType
    <3>4. purges + 1 \in Nat /\ (purges + 1) + Cardinality(Live') <= nextId - 1
      BY <3>2, <3>3, SMT
    <3> QED
      BY <1>1, <1>4, <3>4 DEF PurgeInv
  <2>6. LinkInv'
    <3>1. /\ OldMail < nextId' /\ 0 < nextTok'
          /\ nextTok' + Cardinality(Bare') <= 2 * nextId' - 1
      <4>1. /\ nextTok \in Nat /\ nextId \in Nat /\ Cardinality(Bare) \in Nat
            /\ OldMail < nextId /\ 0 < nextTok
            /\ nextTok + Cardinality(Bare) <= 2 * nextId - 1
        BY <1>2, TableFacts DEF LinkInv, MigrationTypeOK
      <4>2. nextTok + Cardinality(Bare') <= 2 * nextId - 1
        BY <2>4, <4>1, SMT
      <4> QED
        BY <1>1, <4>1, <4>2
    <3>2. /\ \A id \in Live' : /\ link'[id] < nextTok'
                               /\ sent'[id] # Null => link'[id] = sent'[id]
          /\ \A i, j \in Live' : i # j /\ link'[i] # Null => link'[i] # link'[j]
      <4>1. /\ Live' \subseteq Live
            /\ \A id \in Live : /\ link[id] < nextTok
                                /\ sent[id] # Null => link[id] = sent[id]
            /\ \A i, j \in Live : i # j /\ link[i] # Null => link[i] # link[j]
        BY <1>2, <2>1 DEF LinkInv
      <4> QED
        BY <1>1, <2>2, <4>1
    <3>3. /\ phase' = "draw otk" => \A id \in Bare' : otk'[id].preview = Null
          /\ phase' \in PastDraw => Bare' = {}
      <4>1. Bare' \subseteq Live'
        BY DEF Bare
      <4> QED
        BY <1>1, <1>2, <2>1, <2>2, <4>1 DEF LinkInv
    <3> QED
      BY <3>1, <3>2, <3>3 DEF LinkInv
  <2> QED
    BY <2>3, <2>5, <2>6 DEF TableInv
<1> QED
  BY <1>1, <1>3, <1>4
LinkRow == [preview : Toks \cup {Null}, keep : Toks \cup {Null}]

LEMMA SetKeep ==
  ASSUME NEW row \in LinkRow, NEW t \in Toks \cup {Null}
  PROVE  LET new == [row EXCEPT !.keep = t] IN
           new \in LinkRow /\ new.keep = t /\ new.preview = row.preview
  BY DEF LinkRow

(* The mailed link becomes the keep link; no email changes its link. *)
LEMMA CopyTable ==
  ASSUME TableInv, CopyOTK, purges' = purges
  PROVE  TableInv'
<1>1. /\ phase = "copy otk" /\ phase' = "draw otk"
      /\ cols' = cols /\ nextId' = nextId /\ nextTok' = nextTok /\ sent' = sent
      /\ otk' = [id \in Live |-> IF otk[id].keep = Null
                                   THEN [otk[id] EXCEPT !.keep = otk[id].preview]
                                   ELSE otk[id]]
  BY DEF CopyOTK, Phase
<1>2. MigrationTypeOK /\ LinkInv /\ PurgeInv
  BY DEF TableInv
<1>3. Live' = Live
  BY <1>1 DEF Live
<1>4. \A id \in Live : /\ otk[id].keep = Null => otk'[id].keep = otk[id].preview
                       /\ otk[id].keep # Null => otk'[id].keep = otk[id].keep
                       /\ otk'[id].preview = otk[id].preview
                       /\ otk'[id] \in LinkRow
  <2> SUFFICES ASSUME NEW id \in Live
               PROVE  /\ otk[id].keep = Null => otk'[id].keep = otk[id].preview
                      /\ otk[id].keep # Null => otk'[id].keep = otk[id].keep
                      /\ otk'[id].preview = otk[id].preview
                      /\ otk'[id] \in LinkRow
    OBVIOUS
  <2>1. otk[id] \in LinkRow /\ otk[id].preview \in Toks \cup {Null}
    BY <1>2 DEF MigrationTypeOK, LinkRow
  <2>2. CASE otk[id].keep = Null
    <3>1. otk'[id] = [otk[id] EXCEPT !.keep = otk[id].preview]
      BY <1>1, <2>2
    <3> QED
      BY <2>1, <2>2, <3>1, SetKeep
  <2>3. CASE otk[id].keep # Null
    BY <1>1, <2>1, <2>3
  <2> QED
    BY <2>2, <2>3
<1>5. MigrationTypeOK'
  <2>1. otk' \in [Live -> [preview : Toks \cup {Null}, keep : Toks \cup {Null}]]
    BY <1>1, <1>4 DEF LinkRow
  <2> QED
    BY <1>1, <1>2, <1>3, <2>1 DEF MigrationTypeOK
<1>6. link' = link
  BY <1>3, <1>4 DEF link
<1>7. Bare' \subseteq Bare /\ \A id \in Bare' : otk'[id].preview = Null
  BY <1>3, <1>4 DEF Bare
<1>8. Cardinality(Bare') <= Cardinality(Bare) /\ Cardinality(Bare') \in Nat
  <2>1. IsFiniteSet(Bare) /\ Bare' \in SUBSET Bare
    BY <1>2, <1>7, TableFacts
  <2> QED
    BY <2>1, FS_Subset, FS_CardinalityType
<1>9. PurgeInv'
  BY <1>1, <1>2, <1>3 DEF PurgeInv
<1>10. LinkInv'
  <2>1. /\ nextTok \in Nat /\ nextId \in Nat /\ Cardinality(Bare) \in Nat
        /\ OldMail < nextId /\ 0 < nextTok
        /\ nextTok + Cardinality(Bare) <= 2 * nextId - 1
    BY <1>2, TableFacts DEF LinkInv, MigrationTypeOK
  <2>2. nextTok + Cardinality(Bare') <= 2 * nextId - 1
    BY <1>8, <2>1, SMT
  <2>3. /\ \A id \in Live' : /\ link'[id] < nextTok'
                             /\ sent'[id] # Null => link'[id] = sent'[id]
        /\ \A i, j \in Live' : i # j /\ link'[i] # Null => link'[i] # link'[j]
    BY <1>1, <1>2, <1>3, <1>6 DEF LinkInv
  <2>4. phase' \notin PastDraw
    BY <1>1 DEF PastDraw, Booted
  <2> QED
    BY <1>1, <1>7, <2>1, <2>2, <2>3, <2>4 DEF LinkInv
<1> QED
  BY <1>5, <1>9, <1>10 DEF TableInv

(* Two bare emails have different ranks, all below the number of them. *)
LEMMA Ranks ==
  ASSUME MigrationTypeOK
  PROVE  /\ \A i \in Bare : Rank(i) \in Nat /\ Rank(i) < Cardinality(Bare)
         /\ \A i, j \in Bare : i # j => Rank(i) # Rank(j)
<1>1. /\ IsFiniteSet(Bare) /\ Cardinality(Bare) \in Nat
      /\ Bare \subseteq Nat
  <2>1. Ids \subseteq Nat
    BY MigrationAssumption, SMT DEF Ids
  <2> QED
    BY <2>1, TableFacts
<1>2. ASSUME NEW S \in SUBSET Bare, NEW T \in SUBSET S, NEW x \in S, x \notin T
      PROVE  /\ Cardinality(T) \in Nat /\ Cardinality(S) \in Nat
             /\ Cardinality(T) < Cardinality(S)
  <2>1. IsFiniteSet(S) /\ Cardinality(S) \in Nat
    BY <1>1, FS_Subset, FS_CardinalityType
  <2>2. IsFiniteSet(T) /\ Cardinality(T) \in Nat /\ Cardinality(T) <= Cardinality(S)
    BY <2>1, FS_Subset, FS_CardinalityType
  <2>3. S # T
    BY <1>2
  <2>4. Cardinality(S) # Cardinality(T)
    BY <2>1, <2>3, FS_Subset
  <2> QED
    BY <2>1, <2>2, <2>4, SMT
<1>0. /\ \A i \in Bare : ~(i < i)
      /\ \A i, j, k \in Bare : k < i /\ i < j => k < j
      /\ \A i, j \in Bare : i # j => i < j \/ j < i
  BY <1>1, SMT
<1> DEFINE Below(i) == {j \in Bare : j < i}
<1>3. \A i \in Bare : Rank(i) = Cardinality(Below(i))
  BY DEF Rank
<1>4. ASSUME NEW i \in Bare
      PROVE  Rank(i) \in Nat /\ Rank(i) < Cardinality(Bare)
  <2>1. i \notin Below(i) /\ Below(i) \in SUBSET Bare
    BY <1>0
  <2> HIDE DEF Below
  <2>2. Cardinality(Below(i)) \in Nat /\ Cardinality(Below(i)) < Cardinality(Bare)
    BY <1>2, <2>1
  <2> QED
    BY <1>3, <2>2
<1>5. ASSUME NEW i \in Bare, NEW j \in Bare, i < j
      PROVE  Rank(i) < Rank(j) /\ Rank(i) \in Nat /\ Rank(j) \in Nat
  <2>1. /\ i \notin Below(i) /\ i \in Below(j)
        /\ Below(i) \in SUBSET Below(j) /\ Below(j) \in SUBSET Bare
    BY <1>0, <1>5
  <2> HIDE DEF Below
  <2>2. /\ Cardinality(Below(i)) \in Nat /\ Cardinality(Below(j)) \in Nat
        /\ Cardinality(Below(i)) < Cardinality(Below(j))
    BY <1>2, <2>1
  <2> QED
    BY <1>3, <2>2
<1> HIDE DEF Below
<1>7. \A i, j \in Bare : i # j => Rank(i) # Rank(j)
  <2> SUFFICES ASSUME NEW i \in Bare, NEW j \in Bare, i # j
               PROVE  Rank(i) # Rank(j)
    OBVIOUS
  <2>1. CASE i < j
    BY <1>5, <2>1, SMT
  <2>2. CASE j < i
    BY <1>5, <2>2, SMT
  <2> QED
    BY <1>0, <2>1, <2>2
<1> QED
  BY <1>4, <1>7

(* Emails without a link get tokens that nobody has, one each. *)
LEMMA DrawTable ==
  ASSUME TableInv, DrawOTK, purges' = purges
  PROVE  TableInv'
<1> DEFINE new == [id \in Bare |-> nextTok + Rank(id)]
<1>1. /\ phase = "draw otk" /\ phase' = "kept"
      /\ cols' = cols /\ nextId' = nextId /\ sent' = sent
      /\ nextTok' = nextTok + Cardinality(Bare)
      /\ otk' = [id \in Live |-> IF id \in Bare
                                   THEN [otk[id] EXCEPT !.keep = new[id]]
                                   ELSE otk[id]]
  BY DEF DrawOTK, Phase
<1>2. MigrationTypeOK /\ LinkInv /\ PurgeInv
  BY DEF TableInv
<1>3. /\ nextTok \in Nat /\ nextId \in Nat /\ Cardinality(Bare) \in Nat
      /\ OldMail < nextId /\ 0 < nextTok /\ nextId <= MaxMail + 1
      /\ nextTok + Cardinality(Bare) <= 2 * nextId - 1
  BY <1>2, TableFacts DEF LinkInv, MigrationTypeOK
<1>4. \A id \in Bare : /\ new[id] \in Nat /\ nextTok <= new[id]
                       /\ new[id] < nextTok + Cardinality(Bare)
  <2>1. \A id \in Bare : Rank(id) \in Nat /\ Rank(id) < Cardinality(Bare)
    BY <1>2, Ranks
  <2> HIDE DEF Rank
  <2> QED
    BY <1>3, <2>1, SMT
<1>5. \A i, j \in Bare : i # j => new[i] # new[j]
  <2>1. \A i, j \in Bare : i # j => Rank(i) # Rank(j)
    BY <1>2, Ranks
  <2>2. \A id \in Bare : Rank(id) \in Nat
    BY <1>2, Ranks
  <2> QED
    BY <1>3, <2>1, <2>2, SMT
<1> HIDE DEF new
<1>6. \A id \in Bare : new[id] \in Toks
  <2>1. nextTok + Cardinality(Bare) <= OldMail + 2 * MaxMail + 1
    BY <1>3, MigrationAssumption, SMT
  <2> QED
    BY <1>3, <1>4, <2>1, MigrationAssumption, SMT DEF Toks
<1>7. Live' = Live /\ Bare \subseteq Live
  BY <1>1, <1>2, TableFacts DEF Live
<1>8. /\ \A id \in Bare : otk'[id].keep = new[id]
      /\ \A id \in Live \ Bare : otk'[id] = otk[id] /\ otk[id].keep # Null
      /\ \A id \in Live : otk'[id] \in LinkRow
  <2>1. \A id \in Live : otk[id] \in LinkRow
    BY <1>2 DEF MigrationTypeOK, LinkRow
  <2>2. ASSUME NEW id \in Bare
        PROVE  otk'[id].keep = new[id] /\ otk'[id] \in LinkRow
    <3>1. otk'[id] = [otk[id] EXCEPT !.keep = new[id]]
      BY <1>1, <1>7
    <3> QED
      BY <1>6, <1>7, <2>1, <3>1, SetKeep
  <2>3. ASSUME NEW id \in Live \ Bare
        PROVE  otk'[id] = otk[id] /\ otk[id].keep # Null
    BY <1>1, <2>3 DEF Bare
  <2> QED
    BY <2>1, <2>2, <2>3
<1>9. nextTok' \in Nat /\ nextTok' = nextTok + Cardinality(Bare)
  <2>1. nextTok' = nextTok + Cardinality(Bare)
    BY <1>1
  <2> QED
    BY <1>3, <2>1, SMT
<1>10. MigrationTypeOK'
  <2>1. otk' \in [Live -> [preview : Toks \cup {Null}, keep : Toks \cup {Null}]]
    BY <1>1, <1>8 DEF LinkRow
  <2> QED
    BY <1>1, <1>2, <1>7, <1>9, <2>1 DEF MigrationTypeOK
<1>11. \A id \in Bare : new[id] # Null
  BY <1>3, <1>4, SMT DEF Null
<1>12. /\ \A id \in Bare : link'[id] = new[id]
       /\ \A id \in Live \ Bare : link'[id] = link[id]
  BY <1>7, <1>8, <1>11 DEF link
<1>13. Bare' = {}
  BY <1>7, <1>8, <1>11 DEF Bare
<1>14. PurgeInv'
  BY <1>1, <1>2, <1>7 DEF PurgeInv
<1>15. \A id \in Bare : link[id] = Null
  BY <1>1, <1>2, <1>7 DEF LinkInv, Bare, link
<1>16. \A id \in Live : link[id] < nextTok /\ link[id] \in Nat
  <2>1. \A id \in Live : link[id] \in Toks \cup {0}
    BY <1>2, TableFacts
  <2>2. \A id \in Live : link[id] \in Nat
    BY <1>2, <2>1, TableFacts
  <2> QED
    BY <1>2, <2>2 DEF LinkInv
<1>17. LinkInv'
  <2>1. /\ OldMail < nextId' /\ 0 < nextTok'
        /\ nextTok' + Cardinality(Bare') <= 2 * nextId' - 1
    <3>1. Cardinality(Bare') = 0
      BY <1>13, FS_EmptySet
    <3> QED
      <4>1. nextId' = nextId
        BY <1>1
      <4> QED
        BY <1>3, <1>9, <3>1, <4>1, SMT
  <2>2. \A id \in Live' : link'[id] < nextTok'
    <3>1. \A id \in Bare : link'[id] < nextTok'
      BY <1>4, <1>9, <1>12
    <3>2. \A id \in Live \ Bare : link[id] < nextTok'
      BY <1>3, <1>9, <1>16, SMT
    <3> QED
      BY <1>7, <1>12, <3>1, <3>2
  <2>3. \A id \in Live' : sent'[id] # Null => link'[id] = sent'[id]
    <3>1. \A id \in Live : sent[id] # Null => link[id] = sent[id]
      BY <1>2 DEF LinkInv
    <3> QED
      BY <1>1, <1>7, <1>12, <1>15, <3>1
  <2>4. \A i \in Bare, j \in Live : link[j] < new[i] /\ link[j] # new[i]
    BY <1>3, <1>4, <1>16, SMT
  <2>5. \A i, j \in Live' : i # j /\ link'[i] # Null => link'[i] # link'[j]
    <3> SUFFICES ASSUME NEW i \in Live, NEW j \in Live, i # j, link'[i] # Null
                 PROVE  link'[i] # link'[j]
      BY <1>7
    <3>1. link[i] # Null => link[i] # link[j]
      BY <1>2 DEF LinkInv
    <3> QED
      BY <1>5, <1>12, <2>4, <3>1
  <2> QED
    BY <1>1, <1>13, <2>1, <2>2, <2>3, <2>5 DEF LinkInv
<1> QED
  BY <1>10, <1>14, <1>17 DEF TableInv
----------------------------------------------------------------------------
(* The phases of main. *)

\* The steps of the process that serves, besides those of main.
Working == \/ \E h \in Handlers : StartIngest(h) \/ StartGet(h) \/ Handle(h)
           \/ Clean
           \/ \E e \in Events : Post(e)

LEMMA WorkingPhase ==
  ASSUME BootInv, Working
  PROVE  phase \in Booted /\ phase' = phase /\ cols' = cols
<1>1. Booted = {"up", "draining", "closed"}
  BY DEF Booted
<1>2. ASSUME NEW h \in Handlers, StartIngest(h) \/ StartGet(h)
      PROVE  phase \in Booted /\ phase' = phase /\ cols' = cols
  BY <1>1, <1>2 DEF StartIngest, StartGet, Begin, tableVars
<1>3. ASSUME NEW h \in Handlers, Handle(h)
      PROVE  phase \in Booted /\ phase' = phase /\ cols' = cols
  <2>1. ~At(h, "idle")
    BY <1>3, SMT
    DEF Handle, InsertEmail, EmailReceived, TrackEmailOpen, EmailOpened,
        StatementFails, At
  <2>2. phase \in Booted
    BY <2>1 DEF BootInv, Fresh, Busy
  <2>3. phase' = phase /\ cols' = cols
    BY <1>3, Zenon
    DEF Handle, InsertEmail, EmailReceived, TrackEmailOpen, EmailOpened,
        StatementFails, tableVars
  <2> QED
    BY <2>2, <2>3
<1>4. CASE Clean
  <2>1. cpc # "off" /\ phase' = phase /\ cols' = cols
    BY <1>4, SMT
    DEF Clean, DeleteExpired, DeleteFails, EmailsCleaned, Vacuum, VacuumFails, Stage, Tick,
        CleanerStops, tableVars
  <2> QED
    BY <2>1 DEF BootInv, Fresh
<1>5. ASSUME NEW e \in Events, Post(e)
      PROVE  phase \in Booted /\ phase' = phase /\ cols' = cols
  <2>1. posts # {} /\ phase' = phase /\ cols' = cols
    BY <1>5 DEF Post, Deliver, PostFails, tableVars
  <2> QED
    BY <2>1 DEF BootInv, Fresh
<1> QED
  BY <1>2, <1>3, <1>4, <1>5 DEF Working

LEMMA NextCases ==
  ASSUME [Next]_vars
  PROVE  \/ Working \/ Start \/ Booting \/ Serve \/ SigTerm
         \/ ShutdownReturns \/ ShutdownTimesOut
         \/ Exit \/ Kill \/ UNCHANGED vars
  BY Zenon DEF Next, Main, Working

LEMMA InitBoot == Init => BootInv
<1> SUFFICES ASSUME Init PROVE BootInv
  OBVIOUS
<1>1. phase = "down" /\ Fresh
  BY DEF Init, MigrationInit, Fresh, Busy, At, NoReq
<1> QED
  BY <1>1, SMT DEF BootInv, HasColumns, Phases, Booted

LEMMA BootStep == BootInv /\ [Next]_vars => BootInv'
<1> SUFFICES ASSUME BootInv, [Next]_vars PROVE BootInv'
  OBVIOUS
<1>1. CASE Working
  <2>1. phase \in Booted /\ phase' = phase /\ cols' = cols
    BY <1>1, WorkingPhase
  <2> QED
    BY <2>1 DEF BootInv, HasColumns
<1>2. CASE SigTerm \/ ShutdownReturns \/ ShutdownTimesOut
  <2>1. cols' = cols /\ phase \in {"up", "draining"} /\ phase' \in {"draining", "closed"}
    BY <1>2 DEF SigTerm, ShutdownReturns, ShutdownTimesOut, Phase, tableVars
  <2>2. Columns \subseteq cols'
    BY <2>1 DEF BootInv, HasColumns, Booted
  <2>3. HasColumns'
    BY <2>1, <2>2 DEF HasColumns
  <2>4. phase' \in Phases /\ phase' \in Booted
    BY <2>1 DEF Phases, Booted
  <2> QED
    BY <2>3, <2>4 DEF BootInv
<1>3. CASE Exit \/ Kill
  <2>1. ProcessEnds
    BY <1>3 DEF Exit, Kill
  <2>2. /\ phase' = "down" /\ cpc' = "off" /\ posts' = {}
        /\ runCount' = 0 /\ hours' = 0 /\ misses' = 0 /\ failed' = 0
        /\ req' = [h \in Handlers |-> NoReq]
    BY <2>1 DEF ProcessEnds
  <2>3. Fresh'
    BY <2>2 DEF Fresh, Busy, At, NoReq
  <2>4. HasColumns'
    BY <2>2 DEF HasColumns, Booted
  <2> QED
    BY <2>2, <2>3, <2>4 DEF BootInv, Phases
<1>4. ASSUME UNCHANGED <<req, cleanVars, posts>>, Fresh
      PROVE  Fresh'
  BY <1>4 DEF Fresh, Busy, At, cleanVars, paceVars
<1>5. CASE Start
  <2>1. phase = "down" /\ phase' = "tables" /\ UNCHANGED <<req, cleanVars, posts>>
    BY <1>5 DEF Start, Phase, eventVars
  <2>2. Fresh'
    BY <1>4, <2>1 DEF BootInv, Booted
  <2>3. HasColumns'
    BY <2>1 DEF HasColumns, Booted
  <2> QED
    BY <2>1, <2>2, <2>3 DEF BootInv, Phases
<1>6. CASE Booting
  <2>1. Migrate /\ UNCHANGED <<req, cleanVars, posts>>
    BY <1>6 DEF Booting, eventVars
  <2>2. ASSUME phase \notin Booted, phase' \in Phases, HasColumns'
        PROVE  BootInv'
    BY <1>4, <2>1, <2>2 DEF BootInv
  <2>3. CASE CreateTables
    <3>1. phase = "tables" /\ phase' = "preview_otk"
      BY <2>3 DEF CreateTables, Phase
    <3>2. HasColumns'
      BY <3>1 DEF HasColumns, Booted
    <3> QED
      BY <2>2, <3>1, <3>2 DEF Phases, Booted
  <2>4. CASE AddColumnIfMissing("preview_otk", "keep_otk")
    <3>1. phase = "preview_otk" /\ phase' = "keep_otk" /\ cols' = cols \cup {"preview_otk"}
      BY <2>4 DEF AddColumnIfMissing, Phase
    <3>2. HasColumns'
      BY <3>1 DEF HasColumns, Booted
    <3> QED
      BY <2>2, <3>1, <3>2 DEF Phases, Booted
  <2>5. CASE AddColumnIfMissing("keep_otk", "copy otk")
    <3>1. phase = "keep_otk" /\ phase' = "copy otk" /\ cols' = cols \cup {"keep_otk"}
      BY <2>5 DEF AddColumnIfMissing, Phase
    <3>2. {"preview_otk", "keep_otk"} \subseteq cols'
      BY <3>1 DEF BootInv, HasColumns
    <3>3. HasColumns'
      BY <3>1, <3>2 DEF HasColumns, Booted
    <3> QED
      BY <2>2, <3>1, <3>3 DEF Phases, Booted
  <2>6. CASE CopyOTK \/ DrawOTK
    <3>1. phase \in {"copy otk", "draw otk"} /\ phase' \in {"draw otk", "kept"} /\ cols' = cols
      BY <2>6 DEF CopyOTK, DrawOTK, Phase
    <3>2. {"preview_otk", "keep_otk"} \subseteq cols'
      BY <3>1 DEF BootInv, HasColumns
    <3>3. HasColumns'
      BY <3>1, <3>2 DEF HasColumns, Booted
    <3> QED
      BY <2>2, <3>1, <3>3 DEF Phases, Booted
  <2>7. CASE AddColumnIfMissing("kept", "opened_at")
    <3>1. phase = "kept" /\ phase' = "opened_at" /\ cols' = cols \cup {"kept"}
      BY <2>7 DEF AddColumnIfMissing, Phase
    <3>2. {"preview_otk", "keep_otk", "kept"} \subseteq cols'
      BY <3>1 DEF BootInv, HasColumns
    <3>3. HasColumns'
      BY <3>1, <3>2 DEF HasColumns, Booted
    <3> QED
      BY <2>2, <3>1, <3>3 DEF Phases, Booted
  <2> QED
    BY <2>1, <2>3, <2>4, <2>5, <2>6, <2>7 DEF Migrate
<1>7. CASE Serve
  <2>1. phase = "opened_at" /\ phase' = "up" /\ cols' = cols \cup {"opened_at"}
    BY <1>7 DEF Serve, Opens, AddColumnIfMissing, Phase
  <2>2. Columns \subseteq cols'
    BY <2>1 DEF BootInv, HasColumns, Columns
  <2>3. HasColumns'
    BY <2>1, <2>2 DEF HasColumns
  <2> QED
    BY <2>1, <2>3 DEF BootInv, Phases, Booted
<1>8. CASE UNCHANGED vars
  <2>1. phase' = phase /\ cols' = cols /\ UNCHANGED <<req, cleanVars, posts>>
    BY <1>8 DEF vars, tableVars, cleanVars, eventVars
  <2> QED
    BY <1>4, <2>1 DEF BootInv, HasColumns
<1> QED
  BY <1>1, <1>2, <1>3, <1>5, <1>6, <1>7, <1>8, NextCases
----------------------------------------------------------------------------
(* The links: every step keeps what is known of the table. *)

LEMMA TableStep == TableInv /\ BootInv /\ [Next]_vars => TableInv'
<1> SUFFICES ASSUME TableInv, BootInv, [Next]_vars PROVE TableInv'
  OBVIOUS
<1>1. cols \subseteq Columns
  BY DEF TableInv, MigrationTypeOK
<1>2. ASSUME UNCHANGED tableVars, purges' = purges,
             phase' \in PastDraw => phase \in PastDraw,
             phase' = "draw otk" => phase = "draw otk"
      PROVE  TableInv'
  BY <1>1, <1>2, RowsStay DEF tableVars
<1>3. CASE Working
  <2>1. phase \in PastDraw /\ phase' = phase
    BY <1>3, WorkingPhase DEF PastDraw
  <2>2. CASE UNCHANGED tableVars /\ purges' = purges
    BY <1>2, <2>1, <2>2
  <2>3. ASSUME NEW h \in Handlers, StartIngest(h) \/ StartGet(h) \/ Handle(h)
        PROVE  TableInv'
    <3>1. CASE InsertEmail(h)
      BY <2>1, <3>1, InsertTable
    <3>2. CASE ~InsertEmail(h)
      <4>1. UNCHANGED tableVars /\ purges' = purges
        BY <2>3, <3>2, Zenon
        DEF StartIngest, StartGet, Begin, Handle, EmailReceived, TrackEmailOpen,
            EmailOpened, StatementFails, eventVars
      <4> QED
        BY <2>2, <4>1
    <3> QED
      BY <3>1, <3>2
  <2>4. CASE Clean
    <3>1. CASE DeleteExpired
      BY <3>1, DeleteTable
    <3>2. CASE ~DeleteExpired
      <4>1. UNCHANGED tableVars /\ purges' = purges
        BY <2>4, <3>2, Zenon
        DEF Clean, DeleteFails, EmailsCleaned, Vacuum, VacuumFails, Stage, Tick, CleanerStops, eventVars
      <4> QED
        BY <2>2, <4>1
    <3> QED
      BY <3>1, <3>2
  <2>5. ASSUME NEW e \in Events, Post(e)
        PROVE  TableInv'
    <3>1. UNCHANGED tableVars /\ purges' = purges
      BY <2>5, Zenon DEF Post, Deliver, PostFails
    <3> QED
      BY <2>2, <3>1
  <2> QED
    BY <1>3, <2>3, <2>4, <2>5 DEF Working
<1>4. CASE Start \/ SigTerm \/ ShutdownReturns \/ ShutdownTimesOut
  <2>1. /\ UNCHANGED tableVars /\ purges' = purges
        /\ \/ phase' = "tables"
           \/ phase \in {"up", "draining"} /\ phase' \in {"draining", "closed"}
    BY <1>4 DEF Start, SigTerm, ShutdownReturns, ShutdownTimesOut, Phase, eventVars
  <2>2. /\ phase' \in PastDraw => phase \in PastDraw
        /\ phase' # "draw otk"
    <3>1. CASE phase' = "tables"
      BY <3>1 DEF Booted, PastDraw
    <3>2. CASE phase \in {"up", "draining"} /\ phase' \in {"draining", "closed"}
      BY <3>2 DEF Booted, PastDraw
    <3> QED
      BY <2>1, <3>1, <3>2
  <2> QED
    BY <1>2, <2>1, <2>2
<1>5. CASE Exit \/ Kill
  <2>1. UNCHANGED tableVars /\ purges' = purges /\ phase' = "down"
    BY <1>5 DEF Exit, Kill, ProcessEnds
  <2> QED
    BY <1>2, <2>1 DEF PastDraw, Booted
<1>6. CASE Booting \/ Serve
  <2>1. (Migrate \/ Opens) /\ purges' = purges
    BY <1>6 DEF Booting, Serve, eventVars
  <2>2. CASE CopyOTK
    BY <2>1, <2>2, CopyTable
  <2>3. CASE DrawOTK
    BY <2>1, <2>3, DrawTable
  <2>4. CASE CreateTables
    BY <1>2, <2>1, <2>4 DEF CreateTables, Phase, PastDraw, Booted
  <2>5. ASSUME NEW c \in Columns, NEW next, AddColumnIfMissing(c, next),
               next \in PastDraw => c \in PastDraw, next # "draw otk"
        PROVE  TableInv'
    <3>1. /\ cols' \subseteq Columns /\ otk' = otk /\ nextId' = nextId
          /\ nextTok' = nextTok /\ sent' = sent /\ phase = c /\ phase' = next
      BY <1>1, <2>5 DEF AddColumnIfMissing, Phase
    <3> QED
      BY <2>1, <2>5, <3>1, RowsStay
  <2>6. CASE \/ AddColumnIfMissing("preview_otk", "keep_otk")
             \/ AddColumnIfMissing("keep_otk", "copy otk")
             \/ AddColumnIfMissing("kept", "opened_at")
             \/ Opens
    <3>1. /\ {"preview_otk", "keep_otk", "kept", "opened_at"} \subseteq Columns
          /\ "keep_otk" \notin PastDraw /\ "copy otk" \notin PastDraw
          /\ "kept" \in PastDraw /\ "opened_at" \in PastDraw
      BY SMT DEF Columns, Booted, PastDraw, Phases
    <3> QED
      BY <2>5, <2>6, <3>1 DEF Opens
  <2> QED
    BY <2>1, <2>2, <2>3, <2>4, <2>6 DEF Migrate
<1>7. CASE UNCHANGED vars
  BY <1>2, <1>7 DEF vars, eventVars
<1> QED
  BY <1>3, <1>4, <1>5, <1>6, <1>7, NextCases
----------------------------------------------------------------------------
(* The cleaner's count. *)

LEMMA Modulo ==
  ASSUME NEW n \in 0 .. VacuumEvery - 1
  PROVE  (n + 1) % VacuumEvery = IF n + 1 = VacuumEvery THEN 0 ELSE n + 1
<1>1. VacuumEvery \in Nat \ {0} /\ n \in Nat /\ n + 1 <= VacuumEvery
  BY ServerAssumption, SMT
<1>2. CASE n + 1 = VacuumEvery
  BY <1>1, <1>2, SMT
<1>3. CASE n + 1 # VacuumEvery
  BY <1>1, <1>3, SMT
<1> QED
  BY <1>2, <1>3

CleanOK ==
    /\ cpc \in {"off", "delete", "report", "vacuum", "select"}
    /\ runCount \in 0 .. VacuumEvery - 1
    /\ hours \in Nat
    /\ misses \in 0 .. MaxMisses /\ failed \in 0 .. MaxMisses

CleanInv == CleanOK /\ PaceInv

LEMMA LostMoves ==
  ASSUME CleanOK
  PROVE  /\ lost \in Nat
         /\ failed' = failed /\ misses' = misses => lost' = lost
         /\ failed' = failed /\ misses' = misses + 1 => lost' = lost + 1
         /\ failed' = failed + 1 /\ misses' = misses => lost' = lost + VacuumEvery
         /\ failed' = 0 /\ misses' = 0 => lost' = 0
<1>1. VacuumEvery \in Nat /\ failed \in Nat /\ misses \in Nat
  BY ServerAssumption, SMT DEF CleanOK
<1>2. /\ \A v, f \in Nat : v * f \in Nat /\ v * (f + 1) = v * f + v
      /\ \A v \in Nat : v * 0 = 0
  BY SMT
<1>3. VacuumEvery * failed \in Nat /\ VacuumEvery * (failed + 1) = VacuumEvery * failed + VacuumEvery
  BY <1>1, <1>2
<1>4. failed' = failed /\ misses' = misses => lost' = lost
  BY DEF lost
<1>5. failed' = failed /\ misses' = misses + 1 => lost' = lost + 1
  BY <1>1, <1>3 DEF lost
<1>6. failed' = failed + 1 /\ misses' = misses => lost' = lost + VacuumEvery
  BY <1>1, <1>3 DEF lost
<1>7. failed' = 0 /\ misses' = 0 => lost' = 0
  BY <1>1, <1>2 DEF lost
<1> QED
  BY <1>1, <1>3, <1>4, <1>5, <1>6, <1>7 DEF lost

LEMMA InitClean == Init => CleanInv
<1> SUFFICES ASSUME Init PROVE CleanInv
  OBVIOUS
<1>1. cpc = "off" /\ runCount = 0 /\ hours = 0 /\ misses = 0 /\ failed = 0
  BY DEF Init
<1>2. CleanOK
  BY <1>1, ServerAssumption, SMT DEF CleanOK
<1>3. lost = 0
  BY <1>1, ServerAssumption, SMT DEF lost
<1> QED
  BY <1>1, <1>2, <1>3, ServerAssumption, SMT DEF CleanInv, PaceInv

\* The round is counted: the next is awaited, or VACUUM runs first.
LEMMA CountRunPace ==
  ASSUME CleanInv, cpc \in {"delete", "report"}, CountRun,
         UNCHANGED paceVars
  PROVE  CleanInv' /\ cpc' \in {"vacuum", "select"}
<1>1. /\ CleanOK /\ hours = runCount + lost + 1
      /\ hours' = hours /\ misses' = misses /\ failed' = failed
  BY DEF CleanInv, PaceInv, paceVars
<1>2. lost' = lost /\ lost \in Nat
  BY <1>1, LostMoves
<1>3. /\ runCount' = IF runCount + 1 = VacuumEvery THEN 0 ELSE runCount + 1
      /\ cpc' = IF runCount' = 0 THEN "vacuum" ELSE "select"
  BY <1>1, Modulo DEF CountRun, CleanOK
<1>4. CASE runCount + 1 = VacuumEvery
  <2>1. runCount' = 0 /\ cpc' = "vacuum"
    BY <1>3, <1>4
  <2>2. CleanOK'
    BY <1>1, <2>1, ServerAssumption, SMT DEF CleanOK
  <2>3. hours' = VacuumEvery + lost'
    BY <1>2, <1>1, <1>4, SMT DEF CleanOK
  <2> QED
    BY <2>1, <2>2, <2>3 DEF CleanInv, PaceInv
<1>5. CASE runCount + 1 # VacuumEvery
  <2>1. runCount' = runCount + 1 /\ runCount' # 0
    BY <1>1, <1>3, <1>5, SMT DEF CleanOK
  <2>2. cpc' = "select"
    BY <1>3, <2>1
  <2>3. CleanOK'
    BY <1>1, <1>5, <2>1, <2>2, ServerAssumption, SMT DEF CleanOK
  <2>4. hours' = runCount' + lost'
    BY <1>2, <1>1, <2>1, SMT DEF CleanOK
  <2> QED
    BY <2>2, <2>3, <2>4 DEF CleanInv, PaceInv
<1> QED
  BY <1>4, <1>5

LEMMA CleanStep == CleanInv /\ BootInv /\ [Next]_vars => CleanInv'
<1> SUFFICES ASSUME CleanInv, BootInv, [Next]_vars PROVE CleanInv'
  OBVIOUS
<1>0. /\ lost \in Nat
      /\ UNCHANGED paceVars => lost' = lost
  BY LostMoves DEF CleanInv, paceVars
<1>1. CASE UNCHANGED cleanVars
  BY <1>0, <1>1 DEF CleanInv, CleanOK, PaceInv, cleanVars, paceVars
<1>2. CASE Clean
  <2>1. CASE DeleteExpired
    <3>1. cpc = "delete" /\ UNCHANGED paceVars
      BY <2>1 DEF DeleteExpired
    <3>2. CASE CountRun
      BY <3>1, <3>2, CountRunPace
    <3>3. CASE cpc' = "report" /\ runCount' = runCount
      BY <1>0, <3>1, <3>3 DEF CleanInv, CleanOK, PaceInv, paceVars
    <3> QED
      BY <2>1, <3>2, <3>3 DEF DeleteExpired
  <2>2. CASE EmailsCleaned
    BY <2>2, CountRunPace DEF EmailsCleaned
  <2>3. CASE DeleteFails
    <3>1. /\ cpc = "delete" /\ cpc' = "select" /\ misses + failed < MaxMisses
          /\ misses' = misses + 1 /\ runCount' = runCount /\ hours' = hours
          /\ failed' = failed
      BY <2>3 DEF DeleteFails
    <3>2. CleanOK'
      BY <3>1, ServerAssumption, SMT DEF CleanInv, CleanOK
    <3>3. lost' = lost + 1
      BY <3>1, LostMoves DEF CleanInv
    <3>4. hours' = runCount' + lost'
      BY <1>0, <3>1, <3>3, SMT DEF CleanInv, CleanOK, PaceInv
    <3> QED
      BY <3>1, <3>2, <3>4 DEF CleanInv, PaceInv
  <2>4. CASE Vacuum
    <3>1. /\ cpc = "vacuum" /\ cpc' = "select" /\ hours' = 0 /\ misses' = 0
          /\ failed' = 0 /\ runCount' = runCount /\ runCount = 0
      BY <2>4 DEF Vacuum, Stage, CleanInv, PaceInv
    <3>2. CleanOK'
      BY <3>1, ServerAssumption, SMT DEF CleanInv, CleanOK
    <3>3. lost' = 0
      BY <3>1, LostMoves DEF CleanInv
    <3>4. hours' = runCount' + lost'
      BY <3>1, <3>3, SMT
    <3> QED
      BY <3>1, <3>2, <3>4 DEF CleanInv, PaceInv
  <2>5. CASE VacuumFails
    <3>1. /\ cpc = "vacuum" /\ cpc' = "select" /\ misses + failed < MaxMisses
          /\ failed' = failed + 1 /\ runCount' = runCount /\ hours' = hours
          /\ misses' = misses
      BY <2>5 DEF VacuumFails, Stage
    <3>2. CleanOK'
      BY <3>1, ServerAssumption, SMT DEF CleanInv, CleanOK
    <3>3. lost' = lost + VacuumEvery
      BY <3>1, LostMoves DEF CleanInv
    <3>4. hours' = runCount' + lost'
      BY <1>0, <3>1, <3>3, ServerAssumption, SMT DEF CleanInv, CleanOK, PaceInv
    <3> QED
      BY <3>1, <3>2, <3>4 DEF CleanInv, PaceInv
  <2>6. CASE Tick
    <3>1. /\ cpc = "select" /\ cpc' = "delete" /\ hours' = hours + 1
          /\ misses' = misses /\ failed' = failed /\ runCount' = runCount
      BY <2>6 DEF Tick
    <3>2. CleanOK'
      BY <3>1, SMT DEF CleanInv, CleanOK
    <3>3. lost' = lost
      BY <3>1, LostMoves DEF CleanInv
    <3>4. hours' = runCount' + lost' + 1
      BY <1>0, <3>1, <3>3, SMT DEF CleanInv, CleanOK, PaceInv
    <3> QED
      BY <3>1, <3>2, <3>4 DEF CleanInv, PaceInv
  <2>7. CASE CleanerStops
    <3>1. /\ cpc = "select" /\ cpc' = "off" /\ hours' = hours
          /\ misses' = misses /\ failed' = failed /\ runCount' = runCount
      BY <2>7 DEF CleanerStops, paceVars
    <3>2. CleanOK'
      BY <3>1 DEF CleanInv, CleanOK
    <3>3. lost' = lost
      BY <3>1, LostMoves DEF CleanInv
    <3>4. hours' <= VacuumEvery + lost'
      BY <1>0, <3>1, <3>3, ServerAssumption, SMT DEF CleanInv, CleanOK, PaceInv
    <3> QED
      BY <3>1, <3>2, <3>4 DEF CleanInv, PaceInv
  <2> QED
    BY <1>2, <2>1, <2>2, <2>3, <2>4, <2>5, <2>6, <2>7 DEF Clean
<1>3. CASE Exit \/ Kill
  <2>1. /\ cpc' = "off" /\ runCount' = 0 /\ hours' = 0
        /\ misses' = 0 /\ failed' = 0
    BY <1>3 DEF Exit, Kill, ProcessEnds
  <2>2. lost' = 0
    BY <2>1, LostMoves DEF CleanInv
  <2>3. CleanOK' /\ hours' <= VacuumEvery + lost'
    BY <2>1, <2>2, ServerAssumption, SMT DEF CleanOK
  <2> QED
    BY <2>1, <2>3 DEF CleanInv, PaceInv
<1>4. CASE Serve
  <2>1. runCount = 0 /\ misses = 0 /\ failed = 0
    BY <1>4 DEF Serve, Opens, AddColumnIfMissing, Phase, BootInv, Fresh, Booted
  <2>2. /\ cpc' = "delete" /\ hours' = 1 /\ runCount' = 0
        /\ misses' = 0 /\ failed' = 0
    BY <1>4, <2>1 DEF Serve
  <2>3. lost' = 0
    BY <2>2, LostMoves DEF CleanInv
  <2>4. CleanOK' /\ hours' = runCount' + lost' + 1
    BY <2>2, <2>3, ServerAssumption, SMT DEF CleanOK
  <2> QED
    BY <2>2, <2>4 DEF CleanInv, PaceInv
<1>5. CASE Working /\ ~Clean
  <2>1. UNCHANGED cleanVars
    BY <1>5, Zenon
    DEF Working, StartIngest, StartGet, Begin, Handle, InsertEmail, EmailReceived,
        TrackEmailOpen, EmailOpened, StatementFails, Post, Deliver, PostFails
  <2> QED
    BY <1>1, <2>1
<1>6. CASE Start \/ Booting \/ SigTerm \/ ShutdownReturns \/ ShutdownTimesOut
  BY <1>1, <1>6 DEF Start, Booting, SigTerm, ShutdownReturns, ShutdownTimesOut
<1>7. CASE UNCHANGED vars
  BY <1>1, <1>7 DEF vars
<1> QED
  BY <1>2, <1>3, <1>4, <1>5, <1>6, <1>7, NextCases
----------------------------------------------------------------------------
(* The requests. *)

Requests == [at : {"idle", "insert", "notify", "track", "hook"}, id : Ids]

ReqOK == req \in [Handlers -> Requests] /\ opened \subseteq Ids

LEMMA FirstId == 1 \in Ids
  BY MigrationAssumption, SMT DEF Ids

LEMMA InitReq == Init => ReqOK
  BY FirstId DEF Init, ReqOK, Requests, NoReq

\* A step of handler h leaves the requests of the others alone.
LEMMA HandleReq ==
  ASSUME ReqOK, MigrationTypeOK, NEW h \in Handlers,
         StartIngest(h) \/ StartGet(h) \/ Handle(h)
  PROVE  ReqOK' /\ \A g \in Handlers \ {h} : req'[g] = req[g]
<1>1. ASSUME NEW v \in Requests, req' = [req EXCEPT ![h] = v], opened' = opened
      PROVE  ReqOK' /\ \A g \in Handlers \ {h} : req'[g] = req[g]
  BY <1>1 DEF ReqOK
<1>2. ASSUME NEW s \in {"idle", "insert", "notify", "track", "hook"},
             req' = [req EXCEPT ![h].at = s], opened' \subseteq Ids
      PROVE  ReqOK' /\ \A g \in Handlers \ {h} : req'[g] = req[g]
  BY <1>2 DEF ReqOK, Requests
<1>3. CASE StartIngest(h)
  <2>1. [at |-> "insert", id |-> 1] \in Requests
    BY FirstId DEF Requests
  <2> QED
    BY <1>1, <1>3, <2>1 DEF StartIngest, Begin
<1>4. CASE StartGet(h)
  <2>1. PICK id \in Live : Begin(h, "track", id)
    BY <1>4 DEF StartGet
  <2>2. [at |-> "track", id |-> id] \in Requests
    BY TableFacts DEF Requests
  <2> QED
    BY <1>1, <2>1, <2>2 DEF Begin
<1>5. CASE InsertEmail(h)
  <2>1. [at |-> "notify", id |-> nextId] \in Requests
    BY <1>5 DEF Requests, InsertEmail
  <2> QED
    BY <1>1, <1>5, <2>1 DEF InsertEmail
<1>6. CASE EmailReceived(h) \/ EmailOpened(h) \/ StatementFails(h)
  BY <1>2, <1>6 DEF EmailReceived, EmailOpened, StatementFails, Goto, ReqOK
<1>7. CASE TrackEmailOpen(h)
  <2>1. /\ Goto(h, "hook") \/ Goto(h, "idle")
        /\ opened' = opened \/ (opened' = opened \cup {req[h].id} /\ req[h].id \in Live)
    BY <1>7, Zenon DEF TrackEmailOpen
  <2>2. opened' \subseteq Ids
    BY <2>1, TableFacts DEF ReqOK
  <2> QED
    BY <1>2, <2>1, <2>2 DEF Goto
<1> QED
  BY <1>3, <1>4, <1>5, <1>6, <1>7 DEF Handle

LEMMA ReqStep == ReqOK /\ MigrationTypeOK /\ [Next]_vars => ReqOK'
<1> SUFFICES ASSUME ReqOK, MigrationTypeOK, [Next]_vars PROVE ReqOK'
  OBVIOUS
<1>1. CASE req' = req /\ opened' = opened
  BY <1>1 DEF ReqOK
<1>2. ASSUME NEW h \in Handlers, StartIngest(h) \/ StartGet(h) \/ Handle(h)
      PROVE  ReqOK'
  BY <1>2, HandleReq
<1>3. CASE Clean
  BY <1>1, <1>3, Zenon
  DEF Clean, DeleteExpired, DeleteFails, EmailsCleaned, Vacuum, VacuumFails, Stage, Tick, CleanerStops
<1>4. ASSUME NEW e \in Events, Post(e)
      PROVE  ReqOK'
  BY <1>1, <1>4 DEF Post, Deliver, PostFails
<1>5. CASE Exit \/ Kill
  BY <1>5, FirstId DEF Exit, Kill, ProcessEnds, ReqOK, Requests, NoReq
<1>6. CASE Start \/ Booting \/ Serve \/ SigTerm \/ ShutdownReturns \/ ShutdownTimesOut
  BY <1>1, <1>6
  DEF Start, Booting, Serve, SigTerm, ShutdownReturns, ShutdownTimesOut
<1>7. CASE UNCHANGED vars
  BY <1>1, <1>7 DEF vars
<1> QED
  BY <1>2, <1>3, <1>4, <1>5, <1>6, <1>7, NextCases DEF Working
----------------------------------------------------------------------------
(* The events: each is due, being posted, dropped or seen, and in one hand *)
(* at most.                                                                *)

HandTypes ==
    /\ posts \subseteq Events
    /\ seen \in [Events -> Nat]
    /\ dropped \subseteq Events

\* What a handler owes is not what the cleaner owes.
LEMMA DueOwed ==
  /\ \A e : e \in Due <=> e \in cleanOwed \/ \E h \in Handlers : e \in owed[h]
  /\ \A h \in Handlers : owed[h] \cap cleanOwed = {}
<1>1. \A h \in Handlers : \A e : e \in owed[h] <=>
        \/ At(h, "notify") /\ e = Event("received", req[h].id)
        \/ At(h, "hook") /\ e = Event("opened", req[h].id)
  BY DEF owed, At
<1>2. \A e : e \in cleanOwed <=> cpc = "report" /\ e = Event("cleaned", purges)
  BY DEF cleanOwed
<1>3. \A e : e \in Due <=> e \in cleanOwed \/ \E h \in Handlers : e \in owed[h]
  BY <1>1, <1>2 DEF Due
<1>4. \A h \in Handlers : owed[h] \cap cleanOwed = {}
  BY <1>1, <1>2, SMT DEF Event
<1> QED
  BY <1>3, <1>4

DueIsOwed ==
    /\ \A e : e \in Due <=> e \in cleanOwed \/ \E h \in Handlers : e \in owed[h]
    /\ \A h \in Handlers : owed[h] \cap cleanOwed = {}

LEMMA DueOwedAlways == DueIsOwed
  BY DueOwed DEF DueIsOwed

\* The events in A leave their hand for the posting goroutines (P) or are
\* dropped (D), those in B have just happened.
LEMMA Moved ==
  ASSUME EventInv, HandTypes, HandTypes',
         NEW A \in SUBSET Due, NEW B \in SUBSET Events, NEW P, NEW D, A = P \cup D,
         Happened' = Happened \cup B, B \cap Happened = {},
         Due' = (Due \ A) \cup B,
         posts' = posts \cup P, dropped' = dropped \cup D, seen' = seen,
         \A g, h \in Handlers : g # h => owed'[g] \cap owed'[h] = {}
  PROVE  EventInv'
<1> DEFINE Got == {e \in Events : seen[e] > 0}
<1>1. Happened = Due \cup posts \cup dropped \cup Got
  BY DEF EventInv, NoEventForgotten
<1>2. Got' = Got
  OBVIOUS
<1>3. Happened' = Due' \cup posts' \cup dropped' \cup Got'
  BY <1>1, <1>2
<1>4. \A e \in Events : /\ seen[e] <= 1
                        /\ e \in Due => e \notin posts /\ seen[e] = 0
                        /\ e \in posts => seen[e] = 0
  BY DEF EventInv, OnceInv
<1>5. \A e \in Events : e \notin Got => seen[e] = 0
  BY SMT DEF HandTypes
<1> HIDE DEF Got
<1>6. ASSUME NEW e \in Events
      PROVE  /\ seen'[e] <= 1
             /\ e \in Due' => e \notin posts' /\ seen'[e] = 0
             /\ e \in posts' => seen'[e] = 0
  <2>1. CASE e \in B
    <3>1. e \notin Due /\ e \notin posts /\ e \notin Got /\ e \notin P
      BY <1>1, <2>1
    <3> QED
      BY <1>4, <1>5, <3>1
  <2>2. CASE e \notin B
    BY <1>4, <2>2
  <2> QED
    BY <2>1, <2>2
<1>7. NoEventForgotten'
  BY <1>3 DEF NoEventForgotten, Got
<1>8. OnceInv'
  BY <1>6 DEF OnceInv
<1> QED
  BY <1>7, <1>8 DEF EventInv

\* A step of handler h, which is the only one to hand over or to owe more.
LEMMA HandlerMoved ==
  ASSUME EventInv, HandTypes, HandTypes', NEW h \in Handlers,
         \A g \in Handlers \ {h} : owed'[g] = owed[g], cleanOwed' = cleanOwed,
         NEW P, NEW D, owed[h] = P \cup D,
         Happened' = Happened \cup owed'[h],
         owed'[h] \subseteq Events, owed'[h] \cap Happened = {},
         posts' = posts \cup P, dropped' = dropped \cup D, seen' = seen
  PROVE  EventInv'
<1>1. /\ \A e : e \in Due <=> e \in cleanOwed \/ \E g \in Handlers : e \in owed[g]
      /\ owed[h] \cap cleanOwed = {}
  BY DueOwed
<1>2. \A e : e \in Due' <=> e \in cleanOwed' \/ \E g \in Handlers : e \in owed'[g]
  <2>1. DueIsOwed'
    BY DueOwedAlways, PTL
  <2> QED
    BY <2>1 DEF DueIsOwed
<1>3. \A f, g \in Handlers : f # g => owed[f] \cap owed[g] = {}
  BY DEF EventInv, OnceInv
<1>4. Due \subseteq Happened
  BY DEF EventInv, NoEventForgotten
<1>5. owed[h] \in SUBSET Due
  BY <1>1
<1>6. Due' = (Due \ owed[h]) \cup owed'[h]
  <2>1. ASSUME NEW e, e \in Due' PROVE e \in (Due \ owed[h]) \cup owed'[h]
    <3>1. CASE e \in cleanOwed'
      BY <1>1, <3>1
    <3>2. ASSUME NEW g \in Handlers, e \in owed'[g]
          PROVE  e \in (Due \ owed[h]) \cup owed'[h]
      BY <1>1, <1>3, <3>2
    <3> QED
      BY <1>2, <2>1, <3>1, <3>2
  <2>2. ASSUME NEW e, e \in (Due \ owed[h]) \cup owed'[h] PROVE e \in Due'
    <3>1. CASE e \in owed'[h]
      BY <1>2, <3>1
    <3>2. CASE e \in cleanOwed
      BY <1>2, <3>2
    <3>3. ASSUME NEW g \in Handlers, e \in owed[g], e \notin owed[h]
          PROVE  e \in Due'
      BY <1>2, <3>3
    <3> QED
      BY <1>1, <2>2, <3>1, <3>2, <3>3
  <2> QED
    BY <2>1, <2>2
<1>7. \A f, g \in Handlers : f # g => owed'[f] \cap owed'[g] = {}
  <2> SUFFICES ASSUME NEW f \in Handlers, NEW g \in Handlers, f # g
               PROVE  owed'[f] \cap owed'[g] = {}
    OBVIOUS
  <2>1. \A q \in Handlers \ {h} : owed[q] \cap owed'[h] = {}
    BY <1>1, <1>4
  <2>2. CASE f = h \/ g = h
    BY <2>1, <2>2
  <2>3. CASE f # h /\ g # h
    BY <1>3, <2>3
  <2> QED
    BY <2>2, <2>3
<1> QED
  BY <1>5, <1>6, <1>7, Moved

\* A step of the cleaner.
LEMMA CleanerMoved ==
  ASSUME EventInv, HandTypes, HandTypes', owed' = owed,
         NEW P, cleanOwed = P,
         Happened' = Happened \cup cleanOwed',
         cleanOwed' \subseteq Events, cleanOwed' \cap Happened = {},
         posts' = posts \cup P, dropped' = dropped, seen' = seen
  PROVE  EventInv'
<1>1. /\ \A e : e \in Due <=> e \in cleanOwed \/ \E g \in Handlers : e \in owed[g]
      /\ \A g \in Handlers : owed[g] \cap cleanOwed = {}
  BY DueOwed
<1>2. \A e : e \in Due' <=> e \in cleanOwed' \/ \E g \in Handlers : e \in owed'[g]
  <2>1. DueIsOwed'
    BY DueOwedAlways, PTL
  <2> QED
    BY <2>1 DEF DueIsOwed
<1>3. Due' = (Due \ cleanOwed) \cup cleanOwed'
  BY <1>1, <1>2
<1>4. \A f, g \in Handlers : f # g => owed'[f] \cap owed'[g] = {}
  BY DEF EventInv, OnceInv
<1>5. cleanOwed \in SUBSET Due /\ cleanOwed = P \cup {} /\ dropped' = dropped \cup {}
  BY <1>1
<1> QED
  BY <1>3, <1>4, <1>5, Moved

LEMMA EventTypes ==
  ASSUME TableInv, ReqOK
  PROVE  /\ Happened \subseteq Events
         /\ purges \in 0 .. MaxMail
         /\ \A id \in Ids : \A k \in {"received", "opened", "cleaned"} :
              Event(k, id) \in Events
         /\ \A id : /\ Event("received", id) \in Happened => id < nextId
                    /\ Event("opened", id) \in Happened => id \in opened
                    /\ Event("cleaned", id) \in Happened => id <= purges
<1>1. /\ purges \in Nat /\ nextId \in Nat /\ nextId <= MaxMail + 1
      /\ Cardinality(Live) \in Nat /\ purges + Cardinality(Live) <= nextId - 1
  BY TableFacts DEF TableInv, PurgeInv
<1>2. purges \in 0 .. MaxMail
  BY <1>1, MigrationAssumption, SMT
<1>3. /\ \A id \in OldMail + 1 .. nextId - 1 : id \in Ids /\ id < nextId
      /\ \A k \in 1 .. purges : k \in Ids /\ k <= purges
  BY <1>1, <1>2, MigrationAssumption, SMT DEF Ids
<1>4. \A id \in Ids : \A k \in {"received", "opened", "cleaned"} :
        Event(k, id) \in Events
  BY DEF Event, Events
<1>5. \A k, i, l, j : Event(k, i) = Event(l, j) => k = l /\ i = j
  BY DEF Event
<1>6. \A e : e \in Happened <=>
        \/ \E id \in OldMail + 1 .. nextId - 1 : e = Event("received", id)
        \/ \E id \in opened : e = Event("opened", id)
        \/ \E k \in 1 .. purges : e = Event("cleaned", k)
  BY DEF Happened
<1>7. Happened \subseteq Events
  BY <1>3, <1>4, <1>6 DEF ReqOK
<1>8. ASSUME NEW id
      PROVE  /\ Event("received", id) \in Happened => id < nextId
             /\ Event("opened", id) \in Happened => id \in opened
             /\ Event("cleaned", id) \in Happened => id <= purges
  BY <1>3, <1>5, <1>6
<1> QED
  BY <1>2, <1>4, <1>7, <1>8

\* What a handler owes, by where it is.
LEMMA OwedAt ==
  ASSUME ReqOK, NEW h \in Handlers
  PROVE  /\ At(h, "notify") => owed[h] = {Event("received", req[h].id)}
         /\ At(h, "hook") => owed[h] = {Event("opened", req[h].id)}
         /\ ~At(h, "notify") /\ ~At(h, "hook") => owed[h] = {}
  BY DEF owed, At

LEMMA HandleEvents ==
  ASSUME EventInv, HandTypes, TableInv, ReqOK, NEW h \in Handlers,
         StartIngest(h) \/ StartGet(h) \/ Handle(h)
  PROVE  EventInv' /\ HandTypes'
<1>1. \A g \in Handlers \ {h} : req'[g] = req[g]
  BY HandleReq DEF TableInv
<1>2. \A g \in Handlers \ {h} : owed'[g] = owed[g]
  BY <1>1 DEF owed, At
<1>3. cpc' = cpc /\ purges' = purges
  BY Zenon
  DEF StartIngest, StartGet, Begin, Handle, InsertEmail, EmailReceived, TrackEmailOpen,
      EmailOpened, StatementFails, cleanVars, eventVars
<1>4. cleanOwed' = cleanOwed
  BY <1>3 DEF cleanOwed
<1>5. /\ At(h, "notify") => owed[h] = {Event("received", req[h].id)}
      /\ At(h, "hook") => owed[h] = {Event("opened", req[h].id)}
      /\ ~At(h, "notify") /\ ~At(h, "hook") => owed[h] = {}
  BY OwedAt
<1>6. /\ \A s : req'[h].at = s /\ s \notin {"notify", "hook"} => owed'[h] = {}
      /\ req'[h].at = "notify" => owed'[h] = {Event("received", req'[h].id)}
      /\ req'[h].at = "hook" => owed'[h] = {Event("opened", req'[h].id)}
  BY DEF owed, At
<1>7. /\ Happened \subseteq Events
      /\ \A id \in Ids : \A k \in {"received", "opened", "cleaned"} :
           Event(k, id) \in Events
      /\ \A id : /\ Event("received", id) \in Happened => id < nextId
                 /\ Event("opened", id) \in Happened => id \in opened
  BY EventTypes
<1>8. owed[h] \subseteq Events
  <2>1. owed[h] \subseteq Due
    BY DueOwed
  <2> QED
    BY <1>7, <2>1 DEF EventInv, NoEventForgotten
<1>9. ASSUME NEW P, NEW D, owed[h] = P \cup D, owed'[h] = {},
             nextId' = nextId, opened' = opened,
             posts' = posts \cup P, dropped' = dropped \cup D, seen' = seen
      PROVE  EventInv' /\ HandTypes'
  <2>1. Happened' = Happened \cup owed'[h]
    BY <1>3, <1>9 DEF Happened
  <2>2. HandTypes'
    BY <1>8, <1>9 DEF HandTypes
  <2> QED
    BY <1>2, <1>4, <1>9, <2>1, <2>2, HandlerMoved
<1>10. ASSUME NEW e \in Events, owed[h] = {}, owed'[h] = {e}, e \notin Happened,
              Happened' = Happened \cup {e}, UNCHANGED <<posts, dropped, seen>>
       PROVE  EventInv' /\ HandTypes'
  <2>1. HandTypes'
    BY <1>10 DEF HandTypes
  <2>2. owed[h] = {} \cup {} /\ posts' = posts \cup {} /\ dropped' = dropped \cup {}
    BY <1>10
  <2> QED
    BY <1>2, <1>4, <1>10, <2>1, <2>2, HandlerMoved
<1>11. req[h] \in Requests /\ req \in [Handlers -> Requests]
  BY DEF ReqOK
<1>12. ASSUME owed[h] = {}, req'[h].at \in {"idle", "insert", "track"},
              nextId' = nextId, opened' = opened, UNCHANGED <<posts, dropped, seen>>
       PROVE  EventInv' /\ HandTypes'
  <2>1. owed'[h] = {}
    BY <1>6, <1>12
  <2>2. owed[h] = {} \cup {} /\ posts' = posts \cup {} /\ dropped' = dropped \cup {}
    BY <1>12
  <2> QED
    BY <1>9, <1>12, <2>1, <2>2
<1>13. CASE StartIngest(h) \/ StartGet(h)
  <2>1. /\ At(h, "idle") /\ req'[h].at \in {"insert", "track"}
        /\ nextId' = nextId /\ opened' = opened /\ UNCHANGED <<posts, dropped, seen>>
    BY <1>11, <1>13 DEF StartIngest, StartGet, Begin, tableVars, eventVars
  <2>2. owed[h] = {}
    BY <1>5, <2>1 DEF At
  <2> QED
    BY <1>12, <2>1, <2>2
<1>14. CASE InsertEmail(h)
  <2>1. /\ At(h, "insert") /\ nextId \in Ids /\ nextId' = nextId + 1
        /\ req'[h] = [at |-> "notify", id |-> nextId]
        /\ opened' = opened /\ UNCHANGED <<posts, dropped, seen>>
    BY <1>11, <1>14 DEF InsertEmail, eventVars
  <2>2. owed[h] = {} /\ owed'[h] = {Event("received", nextId)}
    BY <1>5, <1>6, <2>1 DEF At
  <2>3. OldMail + 1 .. nextId' - 1 = (OldMail + 1 .. nextId - 1) \cup {nextId}
    <3>1. OldMail < nextId /\ nextId \in Nat
      BY TableFacts DEF TableInv, LinkInv
    <3> QED
      BY <2>1, <3>1, MigrationAssumption, SMT
  <2>4. Happened' = Happened \cup {Event("received", nextId)}
    BY <1>3, <2>1, <2>3 DEF Happened
  <2>5. Event("received", nextId) \in Events /\ Event("received", nextId) \notin Happened
    <3>1. ~(nextId < nextId)
      BY TableFacts, SMT DEF TableInv
    <3> QED
      BY <1>7, <2>1, <3>1
  <2> QED
    BY <1>10, <2>1, <2>2, <2>4, <2>5
<1>15. CASE EmailReceived(h)
  <2>1. /\ At(h, "notify") /\ req'[h].at = "idle"
        /\ posts' = posts \cup {Event("received", req[h].id)}
        /\ nextId' = nextId /\ opened' = opened /\ UNCHANGED <<dropped, seen>>
    BY <1>11, <1>15 DEF EmailReceived, Hand, Goto, tableVars, Requests
  <2>2. owed[h] = {Event("received", req[h].id)} \cup {} /\ owed'[h] = {}
    BY <1>5, <1>6, <2>1
  <2>3. dropped' = dropped \cup {}
    BY <2>1
  <2> QED
    BY <1>9, <2>1, <2>2, <2>3
<1>16. CASE TrackEmailOpen(h)
  <2>1. /\ At(h, "track") /\ nextId' = nextId /\ UNCHANGED <<posts, dropped, seen>>
        /\ \/ /\ req[h].id \in Live \ opened /\ opened' = opened \cup {req[h].id}
              /\ Goto(h, "hook")
           \/ opened' = opened /\ Goto(h, "idle")
    BY <1>16 DEF TrackEmailOpen, tableVars, eventVars
  <2>2. owed[h] = {}
    BY <1>5, <2>1 DEF At
  <2>3. CASE req[h].id \in Live \ opened /\ opened' = opened \cup {req[h].id}
             /\ Goto(h, "hook")
    <3>1. req'[h].at = "hook" /\ req'[h].id = req[h].id
      BY <1>11, <2>3 DEF Goto, Requests
    <3>2. owed'[h] = {Event("opened", req[h].id)}
      BY <1>6, <3>1
    <3>3. Happened' = Happened \cup {Event("opened", req[h].id)}
      BY <1>3, <2>1, <2>3 DEF Happened
    <3>4. Event("opened", req[h].id) \in Events /\ Event("opened", req[h].id) \notin Happened
      BY <1>7, <1>11, <2>3 DEF Requests
    <3> QED
      BY <1>10, <2>1, <2>2, <3>2, <3>3, <3>4
  <2>4. CASE opened' = opened /\ Goto(h, "idle")
    <3>1. req'[h].at = "idle"
      BY <1>11, <2>4 DEF Goto, Requests
    <3> QED
      BY <1>12, <2>1, <2>2, <2>4, <3>1
  <2> QED
    BY <2>1, <2>3, <2>4
<1>17. CASE EmailOpened(h)
  <2>1. /\ At(h, "hook") /\ req'[h].at = "idle"
        /\ nextId' = nextId /\ opened' = opened /\ seen' = seen
    BY <1>11, <1>17 DEF EmailOpened, Goto, tableVars, Requests
  <2>2. /\ owed[h] = {Event("opened", req[h].id)} \cup {}
        /\ owed[h] = {} \cup {Event("opened", req[h].id)}
        /\ owed'[h] = {}
    BY <1>5, <1>6, <2>1
  <2>3. CASE Hand(Event("opened", req[h].id)) /\ UNCHANGED dropped
    <3>1. posts' = posts \cup {Event("opened", req[h].id)} /\ dropped' = dropped \cup {}
      BY <2>3 DEF Hand
    <3> QED
      BY <1>9, <2>1, <2>2, <3>1
  <2>4. CASE dropped' = dropped \cup {Event("opened", req[h].id)} /\ UNCHANGED posts
    <3>1. posts' = posts \cup {}
      BY <2>4
    <3> QED
      BY <1>9, <2>1, <2>2, <2>4, <3>1
  <2> QED
    BY <1>17, <2>3, <2>4 DEF EmailOpened
<1>18. CASE StatementFails(h)
  <2>1. /\ ~At(h, "notify") /\ ~At(h, "hook") /\ req'[h].at = "idle"
        /\ nextId' = nextId /\ opened' = opened /\ UNCHANGED <<posts, dropped, seen>>
    BY <1>11, <1>18
    DEF StatementFails, Goto, At, tableVars, eventVars, Requests
  <2>2. owed[h] = {}
    BY <1>5, <2>1
  <2> QED
    BY <1>12, <2>1, <2>2
<1> QED
  BY <1>13, <1>14, <1>15, <1>16, <1>17, <1>18 DEF Handle

\* A step that touches nothing that owes, carries or has got an event.
LEMMA QuietEvents ==
  ASSUME EventInv, HandTypes, UNCHANGED <<req, opened, purges, nextId>>,
         UNCHANGED <<posts, dropped, seen>>, cleanOwed' = cleanOwed
  PROVE  EventInv' /\ HandTypes'
<1>1. owed' = owed
  BY DEF owed, At
<1>2. Happened' = Happened
  BY DEF Happened
<1>3. HandTypes'
  BY DEF HandTypes
<1>4. Due' = Due
  <2>1. DueIsOwed /\ DueIsOwed'
    BY DueOwedAlways, PTL
  <2> QED
    BY <1>1, <2>1 DEF DueIsOwed
<1> DEFINE A == {}
<1>5. /\ A \in SUBSET Due /\ A \in SUBSET Events /\ A = A \cup A
      /\ Happened' = Happened \cup A /\ A \cap Happened = {}
      /\ Due' = (Due \ A) \cup A /\ posts' = posts \cup A /\ dropped' = dropped \cup A
  BY <1>2, <1>4
<1>6. \A f, g \in Handlers : f # g => owed'[f] \cap owed'[g] = {}
  BY <1>1 DEF EventInv, OnceInv
<1> HIDE DEF A
<1> QED
  BY <1>3, <1>5, <1>6, Moved

LEMMA CleanEvents ==
  ASSUME EventInv, HandTypes, TableInv, TableInv', ReqOK, Clean
  PROVE  EventInv' /\ HandTypes'
<1>1. /\ UNCHANGED <<req, opened, nextId, dropped, seen>>
  BY Zenon
  DEF Clean, DeleteExpired, DeleteFails, EmailsCleaned, Vacuum, VacuumFails, Stage, Tick, CleanerStops,
      tableVars, eventVars
<1>2. owed' = owed
  BY <1>1 DEF owed, At
<1>3. CASE DeleteFails \/ Vacuum \/ VacuumFails \/ Tick \/ CleanerStops
  <2>1. cpc # "report" /\ cpc' # "report" /\ UNCHANGED <<purges, posts>>
    BY <1>3
    DEF DeleteFails, Vacuum, VacuumFails, Stage, Tick, CleanerStops, eventVars
  <2>2. cleanOwed' = cleanOwed
    BY <2>1 DEF cleanOwed
  <2> QED
    BY <1>1, <2>1, <2>2, QuietEvents
<1>4. CASE EmailsCleaned
  <2>1. /\ cpc = "report" /\ cpc' \in {"vacuum", "select"} /\ purges' = purges
        /\ posts' = posts \cup {Event("cleaned", purges)}
    BY <1>4 DEF EmailsCleaned, Hand, CountRun
  <2>2. cleanOwed = {Event("cleaned", purges)} /\ cleanOwed' = {}
    BY <2>1 DEF cleanOwed
  <2>3. cleanOwed \subseteq Events
    <3>1. cleanOwed \subseteq Due
      BY DueOwed
    <3> QED
      BY <3>1, EventTypes DEF EventInv, NoEventForgotten
  <2>4. HandTypes'
    BY <1>1, <2>1, <2>2, <2>3 DEF HandTypes
  <2>5. Happened' = Happened \cup cleanOwed'
    BY <1>1, <2>1, <2>2 DEF Happened
  <2> QED
    BY <1>1, <1>2, <2>1, <2>2, <2>4, <2>5, CleanerMoved
<1>5. CASE DeleteExpired
  <2>1. cpc = "delete" /\ posts' = posts
    BY <1>5 DEF DeleteExpired
  <2>2. cleanOwed = {}
    BY <2>1 DEF cleanOwed
  <2>3. CASE CountRun /\ purges' = purges
    <3>1. cpc' # "report"
      BY <2>3 DEF CountRun
    <3>2. cleanOwed' = cleanOwed
      BY <2>2, <3>1 DEF cleanOwed
    <3> QED
      BY <1>1, <2>1, <2>3, <3>2, QuietEvents
  <2>4. CASE purges' = purges + 1 /\ cpc' = "report"
    <3> DEFINE e == Event("cleaned", purges + 1)
    <3>1. cleanOwed' = {e}
      BY <2>4 DEF cleanOwed
    <3>2. purges \in Nat /\ purges + 1 \in Ids
      <4>1. purges \in 0 .. MaxMail
        BY EventTypes
      <4>2. purges' + Cardinality(Live') <= nextId' - 1
        BY DEF TableInv, PurgeInv
      <4>3. TableInv' /\ MigrationTypeOK'
        BY DEF TableInv
      <4>4. Cardinality(Live') \in Nat /\ nextId' \in Nat /\ nextId' <= MaxMail + 1
        <5>1. TableCounts'
          BY TableFactsAlways, PTL
        <5> QED
          BY <4>3, <5>1 DEF TableCounts
      <4> QED
        BY <2>4, <4>1, <4>2, <4>4, MigrationAssumption, SMT DEF Ids
    <3>3. e \in Events
      BY <3>2, EventTypes
    <3>4. e \notin Happened
      <4>1. ~(purges + 1 <= purges)
        BY <3>2, SMT
      <4> QED
        BY <4>1, EventTypes
    <3>5. 1 .. purges' = (1 .. purges) \cup {purges + 1}
      BY <2>4, <3>2, SMT
    <3>6. Happened' = Happened \cup {e}
      <4>1. {Event("cleaned", k) : k \in 1 .. purges'}
              = {Event("cleaned", k) : k \in 1 .. purges} \cup {e}
        BY <3>5
      <4> HIDE DEF e
      <4> QED
        BY <1>1, <4>1 DEF Happened
    <3>7. HandTypes'
      BY <1>1, <2>1 DEF HandTypes
    <3> HIDE DEF e
    <3>8. posts' = posts \cup {} /\ cleanOwed = {}
      BY <2>1, <2>2
    <3> QED
      BY <1>1, <1>2, <3>1, <3>3, <3>4, <3>6, <3>7, <3>8, CleanerMoved
  <2> QED
    BY <1>5, <2>3, <2>4 DEF DeleteExpired
<1> QED
  BY <1>3, <1>4, <1>5 DEF Clean

LEMMA PostEvents ==
  ASSUME EventInv, HandTypes, NEW e \in Events, Post(e)
  PROVE  EventInv' /\ HandTypes'
<1>1. /\ UNCHANGED <<req, opened, nextId, cpc, purges>>
      /\ e \in posts /\ posts' = posts \ {e}
  BY DEF Post, Deliver, PostFails, tableVars, cleanVars
<1>2. owed' = owed /\ cleanOwed' = cleanOwed /\ Happened' = Happened
  BY <1>1 DEF owed, cleanOwed, At, Happened
<1>3. Due' = Due
  <2>1. DueIsOwed /\ DueIsOwed'
    BY DueOwedAlways, PTL
  <2> QED
    BY <1>2, <2>1 DEF DueIsOwed
<1>4. /\ Happened = Due \cup posts \cup dropped \cup {x \in Events : seen[x] > 0}
      /\ \A x \in Events : /\ seen[x] <= 1
                           /\ x \in Due => x \notin posts /\ seen[x] = 0
                           /\ x \in posts => seen[x] = 0
      /\ \A f, g \in Handlers : f # g => owed[f] \cap owed[g] = {}
  BY DEF EventInv, NoEventForgotten, OnceInv
<1>5. CASE Deliver(e)
  <2>1. seen' = [seen EXCEPT ![e] = @ + 1] /\ dropped' = dropped
    BY <1>5 DEF Deliver
  <2>2. seen'[e] = 1 /\ \A x \in Events \ {e} : seen'[x] = seen[x]
    BY <1>1, <1>4, <2>1 DEF HandTypes
  <2>3. {x \in Events : seen'[x] > 0} = {x \in Events : seen[x] > 0} \cup {e}
    <3>1. \A x \in Events \ {e} : seen'[x] > 0 <=> seen[x] > 0
      BY <2>2
    <3>2. seen'[e] > 0
      BY <2>2, SMT
    <3> QED
      BY <3>1, <3>2
  <2>4. HandTypes'
    BY <1>1, <2>1 DEF HandTypes
  <2>5. NoEventForgotten'
    BY <1>1, <1>2, <1>3, <1>4, <2>1, <2>3 DEF NoEventForgotten
  <2>6. \A x \in Events : /\ seen'[x] <= 1
                          /\ x \in Due' => x \notin posts' /\ seen'[x] = 0
                          /\ x \in posts' => seen'[x] = 0
    <3>1. seen'[e] <= 1
      BY <2>2, SMT
    <3>2. e \notin Due' /\ e \notin posts'
      BY <1>1, <1>3, <1>4
    <3> QED
      BY <1>1, <1>3, <1>4, <2>2, <3>1, <3>2
  <2> QED
    BY <1>2, <1>4, <2>4, <2>5, <2>6 DEF EventInv, OnceInv
<1>6. CASE PostFails(e)
  <2>1. dropped' = dropped \cup {e} /\ seen' = seen
    BY <1>6 DEF PostFails
  <2>2. HandTypes'
    BY <1>1, <2>1 DEF HandTypes
  <2>3. NoEventForgotten'
    BY <1>1, <1>2, <1>3, <1>4, <2>1 DEF NoEventForgotten
  <2> QED
    BY <1>1, <1>2, <1>3, <1>4, <2>1, <2>2, <2>3 DEF EventInv, OnceInv
<1> QED
  BY <1>5, <1>6 DEF Post

LEMMA EndEvents ==
  ASSUME EventInv, HandTypes, TableInv, ReqOK, ProcessEnds
  PROVE  EventInv' /\ HandTypes'
<1>1. /\ req' = [h \in Handlers |-> NoReq] /\ cpc' = "off" /\ posts' = {}
      /\ dropped' = dropped \cup (Due \cup posts)
      /\ UNCHANGED <<nextId, opened, purges, seen>>
  BY DEF ProcessEnds, tableVars
<1>2. owed' = [h \in Handlers |-> {}] /\ cleanOwed' = {} /\ Happened' = Happened
  BY <1>1 DEF owed, cleanOwed, At, Happened, NoReq
<1>3. Due' = {}
  <2>1. DueIsOwed'
    BY DueOwedAlways, PTL
  <2> QED
    BY <1>2, <2>1 DEF DueIsOwed
<1>4. Due \subseteq Events
  BY EventTypes DEF EventInv, NoEventForgotten
<1>5. HandTypes'
  BY <1>1, <1>4 DEF HandTypes
<1>6. NoEventForgotten'
  BY <1>1, <1>2, <1>3 DEF EventInv, NoEventForgotten
<1>7. OnceInv'
  BY <1>1, <1>2, <1>3 DEF EventInv, OnceInv
<1> QED
  BY <1>5, <1>6, <1>7 DEF EventInv

LEMMA InitEvents == Init => EventInv /\ HandTypes
<1> SUFFICES ASSUME Init PROVE EventInv /\ HandTypes
  OBVIOUS
<1>1. /\ req = [h \in Handlers |-> NoReq] /\ cpc = "off" /\ posts = {}
      /\ dropped = {} /\ opened = {} /\ purges = 0 /\ nextId = OldMail + 1
      /\ seen = [e \in Events |-> 0]
  BY DEF Init, MigrationInit
<1>2. owed = [h \in Handlers |-> {}] /\ cleanOwed = {}
  BY <1>1 DEF owed, cleanOwed, At, NoReq
<1>3. Due = {}
  BY <1>2, DueOwed
<1>4. Happened = {}
  <2>1. OldMail + 1 .. nextId - 1 = {} /\ 1 .. purges = {}
    BY <1>1, MigrationAssumption, SMT
  <2> QED
    BY <1>1, <2>1 DEF Happened
<1>5. \A e \in Events : seen[e] = 0 /\ ~(seen[e] > 0) /\ seen[e] <= 1
  BY <1>1, SMT
<1> QED
  BY <1>1, <1>2, <1>3, <1>4, <1>5
  DEF EventInv, NoEventForgotten, OnceInv, HandTypes
----------------------------------------------------------------------------
(* All parts together. *)

ServerInv ==
    /\ TableInv /\ BootInv /\ CleanInv /\ ReqOK /\ HandTypes /\ EventInv
    /\ starts \in 0 .. MaxStarts

LEMMA InitServer == Init => ServerInv
<1>1. Init => starts \in 0 .. MaxStarts
  BY ServerAssumption, SMT DEF Init
<1> QED
  BY <1>1, InitTable, InitBoot, InitClean, InitReq, InitEvents DEF ServerInv

LEMMA EventStep == ServerInv /\ TableInv' /\ [Next]_vars => EventInv' /\ HandTypes'
<1> SUFFICES ASSUME ServerInv, TableInv', [Next]_vars PROVE EventInv' /\ HandTypes'
  OBVIOUS
<1>1. EventInv /\ HandTypes /\ TableInv /\ ReqOK
  BY DEF ServerInv
<1>2. CASE Working
  BY <1>1, <1>2, HandleEvents, CleanEvents, PostEvents DEF Working
<1>3. CASE Exit \/ Kill
  BY <1>1, <1>3, EndEvents DEF Exit, Kill
<1>4. ASSUME UNCHANGED <<req, opened, purges, nextId, posts, dropped, seen>>,
             cpc # "report", cpc' # "report"
      PROVE  EventInv' /\ HandTypes'
  <2>1. cleanOwed' = cleanOwed
    BY <1>4 DEF cleanOwed
  <2> QED
    BY <1>1, <1>4, <2>1, QuietEvents
<1>5. CASE Start \/ Booting \/ Serve
  <2>1. phase \notin Booted
    BY <1>5
    DEF Start, Booting, Serve, Migrate, Opens, CreateTables, AddColumnIfMissing,
        CopyOTK, DrawOTK, Phase, Booted
  <2>2. cpc = "off" /\ cpc' \in {"off", "delete"}
    BY <1>5, <2>1 DEF ServerInv, BootInv, Fresh, Start, Booting, Serve, cleanVars
  <2>3. nextId' = nextId
    BY <1>5
    DEF Start, Booting, Serve, Migrate, Opens, CreateTables, AddColumnIfMissing,
        CopyOTK, DrawOTK, tableVars
  <2>4. UNCHANGED <<req, opened, purges, posts, dropped, seen>>
    BY <1>5 DEF Start, Booting, Serve, eventVars
  <2> QED
    BY <1>4, <2>2, <2>3, <2>4
<1>6. CASE SigTerm \/ ShutdownReturns \/ ShutdownTimesOut \/ UNCHANGED vars
  <2>1. UNCHANGED <<req, opened, purges, nextId, posts, dropped, seen, cpc>>
    BY <1>6
    DEF SigTerm, ShutdownReturns, ShutdownTimesOut, vars, tableVars, cleanVars, eventVars
  <2>2. cleanOwed' = cleanOwed
    BY <2>1 DEF cleanOwed
  <2> QED
    BY <1>1, <2>1, <2>2, QuietEvents
<1> QED
  BY <1>2, <1>3, <1>5, <1>6, NextCases

LEMMA ServerStep == ServerInv /\ [Next]_vars => ServerInv'
<1> SUFFICES ASSUME ServerInv, [Next]_vars PROVE ServerInv'
  OBVIOUS
<1>1. TableInv' /\ BootInv' /\ CleanInv' /\ ReqOK'
  BY TableStep, BootStep, CleanStep, ReqStep DEF ServerInv, TableInv
<1>2. EventInv' /\ HandTypes'
  BY <1>1, EventStep
<1>3. starts' \in 0 .. MaxStarts
  <2>1. CASE Start
    BY <2>1, ServerAssumption, SMT DEF Start, ServerInv
  <2>2. CASE ~Start
    <3>1. starts' = starts
      BY <2>2, NextCases, Zenon
      DEF Working, StartIngest, StartGet, Begin, Handle, InsertEmail, EmailReceived,
          TrackEmailOpen, EmailOpened, StatementFails, Clean, DeleteExpired,
          DeleteFails, EmailsCleaned, Vacuum, VacuumFails, Stage, Tick, CleanerStops, Post, Deliver,
          PostFails, Booting, Serve, SigTerm, ShutdownReturns, ShutdownTimesOut,
          Exit, Kill, vars
    <3> QED
      BY <3>1 DEF ServerInv
  <2> QED
    BY <2>1, <2>2
<1> QED
  BY <1>1, <1>2, <1>3 DEF ServerInv

LEMMA ServerInvariant == Spec => []ServerInv
  BY InitServer, ServerStep, PTL DEF Spec

(* Whatever a process, a boot or a shutdown is cut off in, the state is    *)
(* well typed, nothing of a dead process is left, and the database serves  *)
(* only with a table that has every column.                                *)
THEOREM LifeTypeCorrect == Spec => []TypeOK
<1>1. ServerInv => TypeOK
  <2> SUFFICES ASSUME ServerInv PROVE TypeOK
    OBVIOUS
  <2>1. MigrationTypeOK /\ purges \in 0 .. MaxMail
    BY EventTypes DEF ServerInv, TableInv
  <2>2. phase = "down" => Busy = {} /\ cpc = "off" /\ posts = {}
    BY DEF ServerInv, BootInv, Fresh, Booted
  <2>3. DBOpen => cols = Columns
    BY <2>1 DEF ServerInv, BootInv, HasColumns, DBOpen, Booted, MigrationTypeOK
  <2> QED
    BY <2>1, <2>2, <2>3
    DEF TypeOK, ServerInv, ReqOK, Requests, CleanInv, CleanOK, HandTypes
<1> QED
  BY <1>1, ServerInvariant, PTL

(* The link an email was mailed with keeps it for as long as it lives, and *)
(* every email has one of its own: for any table of an earlier version and *)
(* any interruption of the migration.                                      *)
THEOREM LinksSurviveUpgrades == Spec => []LinksLast
<1>1. ServerInv => LinksLast
  <2> SUFFICES ASSUME ServerInv, phase = "up", NEW id \in Live
               PROVE  /\ otk[id].keep # Null
                      /\ sent[id] # Null => otk[id].keep = sent[id]
                      /\ \A j \in Live \ {id} : otk[j].keep # otk[id].keep
    BY DEF LinksLast
  <2>1. LinkInv /\ Bare = {}
    BY DEF ServerInv, TableInv, LinkInv, PastDraw, Booted
  <2>2. \A j \in Live : otk[j].keep # Null /\ link[j] = otk[j].keep
    BY <2>1 DEF Bare, link
  <2> QED
    BY <2>1, <2>2 DEF LinkInv
<1> QED
  BY <1>1, ServerInvariant, PTL

(* Every event that is worth reporting is due, being posted, dropped or    *)
(* with the receiver, and nothing else is: across crashes and shutdowns.   *)
THEOREM EventsAccountedFor == Spec => []NoEventForgotten
<1>1. ServerInv => NoEventForgotten
  BY DEF ServerInv, EventInv
<1> QED
  BY <1>1, ServerInvariant, PTL

(* The receiver gets no event twice, over any number of restarts. *)
THEOREM EventsSeenOnce == Spec => []SeenOnce
<1>1. ServerInv => SeenOnce
  BY DEF ServerInv, EventInv, OnceInv, SeenOnce
<1> QED
  BY <1>1, ServerInvariant, PTL

(* Between two VACUUMs of a process that worked there are at most          *)
(* vacuumEvery rounds, those whose DELETE failed, and vacuumEvery more for *)
(* every VACUUM that failed.                                               *)
THEOREM VacuumInTime == Spec => []VacuumKeepsUp
<1>1. ServerInv => VacuumKeepsUp
  <2> SUFFICES ASSUME CleanOK, PaceInv
               PROVE  hours <= VacuumEvery * (failed + 1) + misses
    BY DEF ServerInv, CleanInv, VacuumKeepsUp
  <2>1. VacuumEvery * (failed + 1) + misses = VacuumEvery + lost
    BY ServerAssumption, SMT DEF CleanOK, lost
  <2>2. lost \in Nat
    BY LostMoves
  <2>3. hours <= VacuumEvery + lost
    BY <2>2, ServerAssumption, SMT DEF CleanOK, PaceInv
  <2> QED
    BY <2>1, <2>3
<1> QED
  BY <1>1, ServerInvariant, PTL
============================================================================
