--------------------------- MODULE Answers_proofs ---------------------------
(* Proofs about what the handlers of EmailAPI tell their clients: what a   *)
(* status code says of the email while other handlers and the cleaner run  *)
(* between two statements of the request and after its answer.             *)
EXTENDS EmailAPI_proofs

(* What no statement does to the table, whoever runs it: an id is never    *)
(* given out again, a keep token and the attachments stay with their row,  *)
(* the time of the first open stays, and a preview token that is replaced  *)
(* never comes back.                                                       *)
Evolves ==
    /\ nextId' >= nextId
    /\ nextTok' >= nextTok
    /\ \A id \in Live' : id \notin Live =>
         /\ id >= nextId
         /\ ~emails'[id].kept
         /\ emails'[id].opened = Never
         /\ emails'[id].preview >= nextTok
         /\ emails'[id].keep >= nextTok
    /\ \A id \in Live \cap Live' :
         /\ emails'[id].keep = emails[id].keep
         /\ emails'[id].atts = emails[id].atts
         /\ emails[id].opened # Never => emails'[id].opened = emails[id].opened
         /\ \/ emails'[id].preview \in {emails[id].preview, Null}
            \/ emails'[id].preview >= nextTok

\* The rows that survive keep their flag, except perhaps one.
FlagsStay(S) ==
    \A id \in Live \cap Live' : id \notin S => emails'[id].kept = emails[id].kept

LEMMA InsertEvolves ==
  ASSUME StoreTypeOK, NEW at \in Time, NEW a \in BOOLEAN, InsertRow(at, a)
  PROVE  Evolves /\ FlagsStay({}) /\ nextId' = nextId + 1
<1>1. /\ nextId \notin Live /\ Live' = Live \cup {nextId}
      /\ \A id \in Live : emails'[id] = emails[id]
  BY InsertRowType
<1>2. /\ nextId' = nextId + 1 /\ nextTok' = nextTok + 2
      /\ emails'[nextId] = NewRow(at, a)
  BY SMT DEF InsertRow
<1>3. /\ emails'[nextId].kept = FALSE /\ emails'[nextId].opened = Never
      /\ emails'[nextId].preview = nextTok /\ emails'[nextId].keep = nextTok + 1
  BY <1>2 DEF NewRow
<1>4. nextId \in Nat /\ nextTok \in Nat
  BY BoundsAssumption, SMT DEF StoreTypeOK
<1> QED
  BY <1>1, <1>2, <1>3, <1>4, SMT DEF Evolves, FlagsStay

\* The statements that only rewrite or remove rows.
LEMMA RewriteEvolves ==
  ASSUME StoreTypeOK, nextId' >= nextId, nextTok' >= nextTok, Live' \subseteq Live,
         \A id \in Live' :
           /\ emails'[id].keep = emails[id].keep
           /\ emails'[id].atts = emails[id].atts
           /\ emails[id].opened # Never => emails'[id].opened = emails[id].opened
           /\ \/ emails'[id].preview \in {emails[id].preview, Null}
              \/ emails'[id].preview >= nextTok
  PROVE  Evolves
  BY DEF Evolves

LEMMA CountersNat ==
  ASSUME StoreTypeOK
  PROVE  /\ nextId \in Nat /\ nextTok \in Nat
         /\ nextId >= nextId /\ nextTok >= nextTok
         /\ nextTok + 1 >= nextTok
  BY BoundsAssumption, SMT DEF StoreTypeOK

LEMMA ClearPreviewEvolves ==
  ASSUME StoreTypeOK, NEW id \in Live, ClearPreview(id)
  PROVE  Evolves /\ FlagsStay({})
<1>1. /\ nextId' = nextId /\ nextTok' = nextTok /\ Live' = Live
      /\ \A i \in Live : /\ emails'[i].keep = emails[i].keep
                         /\ emails'[i].atts = emails[i].atts
                         /\ emails'[i].kept = emails[i].kept
                         /\ emails'[i].opened = emails[i].opened
                         /\ emails'[i].preview \in {emails[i].preview, Null}
  BY SMT DEF StoreTypeOK, ClearPreview, Live, Row
<1> QED
  BY <1>1, CountersNat, RewriteEvolves DEF FlagsStay

LEMMA SetPreviewEvolves ==
  ASSUME StoreTypeOK, NEW id \in Ids, SetPreview(id)
  PROVE  Evolves /\ FlagsStay({}) /\ nextId' = nextId
<1>1. nextId' = nextId /\ nextTok' = nextTok + 1
  BY DEF SetPreview
<1>2. /\ Live' = Live
      /\ \A i \in Live : /\ emails'[i].keep = emails[i].keep
                         /\ emails'[i].atts = emails[i].atts
                         /\ emails'[i].kept = emails[i].kept
                         /\ emails'[i].opened = emails[i].opened
                         /\ emails'[i].preview \in {emails[i].preview, nextTok}
  <2>1. CASE id \in Live
    <3>1. emails' = [emails EXCEPT ![id].preview = nextTok]
      BY <2>1 DEF SetPreview
    <3> QED
      BY <2>1, <3>1, SMT DEF StoreTypeOK, Live, Row
  <2>2. CASE id \notin Live
    BY <2>2 DEF SetPreview, Live
  <2> QED
    BY <2>1, <2>2
<1>3. \A i \in Live : \/ emails'[i].preview \in {emails[i].preview, Null}
                      \/ emails'[i].preview >= nextTok
  BY <1>2, CountersNat
<1> QED
  BY <1>1, <1>2, <1>3, CountersNat, RewriteEvolves DEF FlagsStay

LEMMA SetKeptEvolves ==
  ASSUME StoreTypeOK, NEW id \in Live, NEW flag \in BOOLEAN, SetKept(id, flag)
  PROVE  Evolves /\ FlagsStay({id}) /\ nextId' = nextId
<1>1. /\ nextId' = nextId /\ nextTok' = nextTok /\ Live' = Live
      /\ \A i \in Live : /\ emails'[i].keep = emails[i].keep
                         /\ emails'[i].atts = emails[i].atts
                         /\ emails'[i].opened = emails[i].opened
                         /\ emails'[i].preview = emails[i].preview
  BY SMT DEF StoreTypeOK, SetKept, Live, Row
<1>2. FlagsStay({id})
  BY SetKeptType DEF FlagsStay
<1> QED
  BY <1>1, <1>2, CountersNat, RewriteEvolves

LEMMA SetOpenedEvolves ==
  ASSUME StoreTypeOK, NEW id \in Live, NEW at \in Time, Unopened(id),
         SetOpened(id, at)
  PROVE  Evolves /\ FlagsStay({}) /\ nextId' = nextId
<1>1. /\ nextId' = nextId /\ nextTok' = nextTok /\ Live' = Live
      /\ \A i \in Live : /\ emails'[i].keep = emails[i].keep
                         /\ emails'[i].atts = emails[i].atts
                         /\ emails'[i].kept = emails[i].kept
                         /\ i # id => emails'[i].opened = emails[i].opened
                         /\ emails'[i].preview = emails[i].preview
  BY SMT DEF StoreTypeOK, SetOpened, Live, Row
<1>2. emails[id].opened = Never
  BY DEF Unopened
<1> QED
  BY <1>1, <1>2, CountersNat, RewriteEvolves DEF FlagsStay

LEMMA DeleteRowsEvolves ==
  ASSUME StoreTypeOK, NEW S, DeleteRows(S)
  PROVE  Evolves /\ FlagsStay({}) /\ nextId' = nextId
<1>1. /\ nextId' = nextId /\ nextTok' = nextTok /\ Live' \subseteq Live
      /\ \A i \in Live' : emails'[i] = emails[i]
  BY DeleteRowsType DEF DeleteRows
<1> QED
  BY <1>1, CountersNat, RewriteEvolves DEF FlagsStay

LEMMA SameRowsEvolve ==
  ASSUME StoreTypeOK, UNCHANGED <<emails, nextId, nextTok>>
  PROVE  Evolves /\ FlagsStay({}) /\ nextId' = nextId
<1>1. Live' = Live
  BY DEF Live
<1> QED
  BY <1>1, CountersNat, RewriteEvolves DEF FlagsStay
----------------------------------------------------------------------------
(* The inductive invariant: what each request knows between two of its     *)
(* statements, and what its answer still says afterwards.                  *)

Reading == {"preview", "get", "raw"}

\* Which requests run which statements.
Route(r) ==
    LET op == call[r].op IN
      /\ pc[r] \in {"insert", "notify"} => op = "ingest"
      /\ pc[r] = "consume" => op = "preview" /\ ByLink(r)
      /\ pc[r] = "checkKeep" => op = "keep" /\ ByLink(r)
      /\ pc[r] \in {"keep", "keepSel"} => op = "keep"
      /\ pc[r] \in {"unkeep", "unkeepSel"} => op = "unkeep"
      /\ pc[r] \in {"track", "trackSel", "openHook"} => op \in Reading
      /\ pc[r] \in {"row", "attach"} => op \in Reading \cup {"keep", "unkeep"}
      /\ pc[r] \in {"regen", "links"} => op = "token"
      /\ pc[r] = "exists" => op = "head"
      /\ pc[r] = "delete" => op = "delete"
      /\ pc[r] = "deleteMany" => op = "deleteMany"

\* An id that was given out: if its row is gone, it is gone for good.
Issued(id) == id < nextId

\* What a request knows of its email between two of its statements.
Seen(r) ==
    /\ call[r].cred < nextTok
    /\ call[r].existed => Issued(Email(r))
    /\ pc[r] \in {"notify", "openHook", "attach", "links"} => Issued(Email(r))
    /\ pc[r] = "row" /\ call[r].op \in {"keep", "unkeep"} => Issued(Email(r))
    /\ pc[r] = "trackSel" /\ call[r].existed => ~Unopened(Email(r))
    /\ pc[r] = "openHook" => ~Unopened(Email(r))

\* A keep or unkeep that nobody contests finds the flag as it left it.
Flagged(r) ==
    ~call[r].contested =>
      /\ pc[r] = "keepSel" /\ call[r].existed => ~IsUnkept(Email(r))
      /\ pc[r] = "unkeepSel" /\ call[r].existed => ~IsKept(Email(r))
      /\ call[r].op = "keep" =>
           /\ pc[r] \in {"row", "attach"} => ~IsUnkept(Email(r))
           /\ pc[r] = "attach" => reply[r].kept
      /\ call[r].op = "unkeep" =>
           /\ pc[r] \in {"row", "attach"} => ~IsKept(Email(r))
           /\ pc[r] = "attach" => ~reply[r].kept

\* What the last answer of a slot still says.
Told(r) ==
    pc[r] = "idle" =>
      /\ reply[r].code = 401 => ByLink(r)
      /\ reply[r].code = 401 /\ call[r].op = "preview" =>
           ~HoldsPreview(Email(r), call[r].cred)
      /\ reply[r].code = 401 /\ call[r].op = "keep" =>
           ~HoldsKeep(Email(r), call[r].cred)
      /\ reply[r].code = 404 /\ call[r].existed /\ ~call[r].contested =>
           Email(r) \notin Live
      /\ reply[r].code = 500 /\ ~call[r].fault =>
           /\ call[r].op \in {"keep", "unkeep", "token"}
           /\ Issued(Email(r)) /\ Email(r) \notin Live
      /\ reply[r].code = 200 /\ ~call[r].contested =>
           /\ call[r].op = "keep" => reply[r].kept
           /\ call[r].op = "unkeep" => ~reply[r].kept
      /\ reply[r].code = 200 /\ call[r].op \in Reading \cup {"keep", "unkeep"} =>
           /\ Issued(Email(r))
           /\ Email(r) \in Live => reply[r].atts = emails[Email(r)].atts
      /\ reply[r].code = 200 /\ call[r].op = "token" =>
           /\ Issued(Email(r))
           /\ HoldsKeep(Email(r), reply[r].keep) \/ Email(r) \notin Live

\* Two requests that must not both win know of each other.
Contest ==
    \A r, s \in Reqs : /\ pc[r] # "idle" /\ pc[s] # "idle"
                       /\ call[s].op \in Opposite(call[r].op)
                       /\ call[s].id = call[r].id
                       => call[r].contested

Own(r) == Route(r) /\ Seen(r) /\ Flagged(r) /\ Told(r)

AnswerInv == TypeOK /\ Contest /\ \A r \in Reqs : Own(r)

LEMMA InitAnswers == Init => AnswerInv
<1> SUFFICES ASSUME Init PROVE AnswerInv
  OBVIOUS
<1>1. TypeOK
  BY InitType
<1>2. \A r \in Reqs : pc[r] = "idle" /\ call[r] = NoCall /\ reply[r] = NoReply
  BY DEF Init
<1>3. Contest
  BY <1>2 DEF Contest
<1>4. nextTok = 1
  BY DEF Init, StoreInit
<1>5. ASSUME NEW r \in Reqs PROVE Own(r)
  <2>1. /\ call[r].cred = 0 /\ ~call[r].existed /\ reply[r].code = 0
        /\ pc[r] = "idle"
    BY <1>2 DEF NoCall, NoReply, ApiKey
  <2>2. Route(r)
    BY <2>1, SMT DEF Route
  <2>3. Seen(r) /\ Flagged(r)
    BY <1>4, <2>1, SMT DEF Seen, Flagged
  <2>4. Told(r)
    BY <2>1, SMT DEF Told
  <2> QED
    BY <2>2, <2>3, <2>4 DEF Own
<1> QED
  BY <1>1, <1>3, <1>5 DEF AnswerInv
----------------------------------------------------------------------------
(* The slot of a request while others act. *)

\* Nothing of the slot changes, except that an opposite request may arrive.
Slot(q) ==
    /\ pc'[q] = pc[q]
    /\ reply'[q] = reply[q]
    /\ call'[q].op = call[q].op
    /\ call'[q].id = call[q].id
    /\ call'[q].cred = call[q].cred
    /\ call'[q].existed = call[q].existed
    /\ call'[q].fault = call[q].fault
    /\ call[q].contested => call'[q].contested

\* Nobody turns the flag of the request's email against it.
FlagSafe(q) ==
    pc[q] # "idle" /\ ~call'[q].contested /\ Email(q) \in Live \cap Live' =>
      /\ call[q].op = "keep" /\ emails[Email(q)].kept => emails'[Email(q)].kept
      /\ call[q].op = "unkeep" /\ ~emails[Email(q)].kept => ~emails'[Email(q)].kept

LEMMA IssuedStays ==
  ASSUME TypeOK, TypeOK', Evolves, NEW id \in Ids, Issued(id)
  PROVE  id < nextId' /\ (id \in Live' => id \in Live)
  BY BoundsAssumption, SMT DEF TypeOK, StoreTypeOK, Evolves, Issued, Ids

LEMMA OthersOwn ==
  ASSUME TypeOK, TypeOK', Evolves, NEW q \in Reqs, Own(q), Slot(q), FlagSafe(q)
  PROVE  Own(q)'
<1> DEFINE id == call[q].id
           tok == call[q].cred
<1>1. id \in Ids /\ tok \in Nat /\ Email(q) = id
  BY CallFields DEF Email
<1>2. nextTok \in Nat /\ nextTok' \in Nat /\ nextTok' >= nextTok
  BY BoundsAssumption, SMT DEF TypeOK, StoreTypeOK, Evolves
<1>3. tok < nextTok
  BY DEF Own, Seen
<1>4. id < nextId => id < nextId' /\ (id \in Live' => id \in Live)
  BY <1>1, IssuedStays DEF Issued
<1>5. id \in Live' /\ id \in Live =>
        /\ emails'[id].keep = emails[id].keep
        /\ emails'[id].atts = emails[id].atts
        /\ emails[id].opened # Never => emails'[id].opened # Never
  BY DEF Evolves
<1>6. tok # Null /\ id \in Live' /\ emails'[id].preview = tok
        => id \in Live /\ emails[id].preview = tok
  <2> SUFFICES ASSUME tok # Null, id \in Live', emails'[id].preview = tok
               PROVE  id \in Live /\ emails[id].preview = tok
    OBVIOUS
  <2>1. ~(emails'[id].preview >= nextTok)
    BY <1>1, <1>2, <1>3, SMT
  <2> QED
    BY <2>1 DEF Evolves
<1>7. id \in Live' /\ emails'[id].keep = tok
        => id \in Live /\ emails[id].keep = tok
  <2> SUFFICES ASSUME id \in Live', emails'[id].keep = tok
               PROVE  id \in Live /\ emails[id].keep = tok
    OBVIOUS
  <2>1. ~(emails'[id].keep >= nextTok)
    BY <1>1, <1>2, <1>3, SMT
  <2> QED
    BY <2>1 DEF Evolves
<1>8. call'[q].id = id /\ call'[q].cred = tok
  BY DEF Slot
<1> HIDE DEF id, tok
<1>9. Route(q)'
  BY SMT DEF Own, Route, Slot, ByLink
<1>10. Seen(q)'
  <2>1. tok < nextTok'
    BY <1>1, <1>2, <1>3, SMT
  <2> QED
    BY <1>1, <1>4, <1>5, <1>8, <2>1 DEF Own, Seen, Slot, Email, Unopened, Issued
<1>11. Flagged(q)'
  <2>1. SUFFICES ASSUME ~call'[q].contested PROVE Flagged(q)'
    BY DEF Flagged
  <2>2. Flagged(q) /\ Seen(q) /\ ~call[q].contested /\ Slot(q)
    BY <2>1 DEF Own, Slot
  <2>3. pc[q] # "idle" /\ id < nextId /\ call[q].op = "keep" /\ ~IsUnkept(id) => ~IsUnkept(id)'
    BY <1>1, <1>4, <1>8, <2>1 DEF FlagSafe, IsUnkept, id
  <2>4. pc[q] # "idle" /\ id < nextId /\ call[q].op = "unkeep" /\ ~IsKept(id) => ~IsKept(id)'
    BY <1>1, <1>4, <1>8, <2>1 DEF FlagSafe, IsKept, id
  <2>5. /\ pc[q] = "keepSel" => call[q].op = "keep"
        /\ pc[q] = "unkeepSel" => call[q].op = "unkeep"
    BY DEF Own, Route
  <2>6. /\ call[q].existed => id < nextId
        /\ pc[q] \in {"row", "attach"} /\ call[q].op \in {"keep", "unkeep"}
             => id < nextId
    BY <2>2, SMT DEF Seen, Issued, Email, id
  <2> QED
    BY <2>2, <2>3, <2>4, <2>5, <2>6, <1>8, Zenon DEF Flagged, Slot, Email, id
<1>12. Told(q)'
  BY <1>1, <1>4, <1>5, <1>6, <1>7, <1>8
  DEF Own, Seen, Told, Slot, Email, HoldsPreview, HoldsKeep, ByLink, ApiKey, Null,
      Issued
<1> QED
  BY <1>9, <1>10, <1>11, <1>12 DEF Own
----------------------------------------------------------------------------
(* What a step of request r leaves alone. *)

\* The flag of a row changes at keep and unkeep only, of their own email.
FlagMove(r) ==
    \A id \in Live \cap Live' :
      \/ emails'[id].kept = emails[id].kept
      \/ id = Email(r) /\ pc[r] = "keep" /\ emails'[id].kept
      \/ id = Email(r) /\ pc[r] = "unkeep" /\ ~emails'[id].kept

\* The call of r keeps what the handler does not assign.
CallStays(r) ==
    /\ call'[r].op = call[r].op
    /\ call'[r].id = call[r].id \/ pc[r] = "insert"
    /\ call'[r].cred = call[r].cred
    /\ call'[r].existed = call[r].existed
    /\ call'[r].contested = call[r].contested

Frame(r) ==
    /\ \A q \in Reqs \ {r} : Slot(q)
    /\ CallStays(r)
    /\ Evolves
    /\ FlagMove(r)

LEMMA NoFlagMoves ==
  ASSUME NEW r \in Reqs, FlagsStay({})
  PROVE  FlagMove(r)
  BY DEF FlagsStay, FlagMove

\* Nothing of the slots changes but pc and reply of r.
LEMMA SlotsStay ==
  ASSUME NEW r \in Reqs, call' = call,
         \A q \in Reqs \ {r} : pc'[q] = pc[q] /\ reply'[q] = reply[q]
  PROVE  CallStays(r) /\ \A q \in Reqs \ {r} : Slot(q)
  BY DEF CallStays, Slot

LEMMA ContinueFrame ==
  ASSUME ReqType, NEW r \in Reqs, NEW s \in Labels, Continue(r, s)
  PROVE  /\ CallStays(r) /\ \A q \in Reqs \ {r} : Slot(q)
         /\ pc'[r] = s /\ call' = call /\ reply' = reply
<1>1. /\ pc'[r] = s /\ call' = call /\ reply' = reply
      /\ \A q \in Reqs \ {r} : pc'[q] = pc[q]
  BY ContinueType
<1> QED
  BY <1>1, SlotsStay

LEMMA AnswerFrame ==
  ASSUME ReqType, NEW r \in Reqs, NEW c \in Codes, Answer(r, c)
  PROVE  /\ CallStays(r) /\ \A q \in Reqs \ {r} : Slot(q)
         /\ pc'[r] = "idle" /\ call' = call /\ reply'[r].code = c
<1>1. /\ pc'[r] = "idle" /\ call' = call
      /\ \A q \in Reqs \ {r} : pc'[q] = pc[q]
  BY AnswerType
<1>2. reply'[r].code = c /\ \A q \in Reqs \ {r} : reply'[q] = reply[q]
  BY SMT DEF Answer, ReqType, Reply
<1> QED
  BY <1>1, <1>2, SlotsStay

LEMMA StepFrames ==
  ASSUME TypeOK, NEW r \in Reqs, Step(r)
  PROVE  Frame(r)
<1>1. StoreTypeOK /\ ReqType
  BY TypeParts
<1>2. Email(r) \in Ids /\ call[r].at \in Time
  BY <1>1, SMT DEF ReqType, Call, Email
<1>3. UNCHANGED storeVars => Evolves /\ FlagMove(r)
  BY <1>1, SameRowsEvolve, NoFlagMoves DEF storeVars
<1>4. \A s \in Labels : Continue(r, s)
        => CallStays(r) /\ \A q \in Reqs \ {r} : Slot(q)
  BY <1>1, ContinueFrame
<1>5. \A c \in Codes : Answer(r, c)
        => CallStays(r) /\ \A q \in Reqs \ {r} : Slot(q)
  BY <1>1, AnswerFrame
<1>6. CASE Insert(r)
  <2>1. PICK a \in Mails : InsertRow(call[r].at, a)
    BY <1>6 DEF Insert
  <2>2. Evolves /\ FlagMove(r)
    BY <1>1, <1>2, <2>1, APIAssumption, InsertEvolves, NoFlagMoves
  <2>3. /\ pc[r] = "insert" /\ Goto(r, "notify") /\ reply' = reply
        /\ call' = [call EXCEPT ![r].id = nextId]
    BY <1>6 DEF Insert, At
  <2>4. CallStays(r)
    BY <1>1, <2>3, SMT DEF CallStays, ReqType, Call
  <2>5. \A q \in Reqs \ {r} : Slot(q)
    BY <1>1, <2>3, GotoType, LabelFacts DEF Slot, ReqType
  <2> QED
    BY <2>2, <2>4, <2>5 DEF Frame
<1>7. CASE EmailReceived(r)
  BY <1>3, <1>5, <1>7, LabelFacts DEF EmailReceived, Frame
<1>8. CASE ConsumePreviewOTK(r)
  <2>1. CASE ~HoldsPreview(Email(r), call[r].cred)
    BY <1>3, <1>5, <1>8, <2>1, LabelFacts DEF ConsumePreviewOTK, Frame
  <2>2. CASE HoldsPreview(Email(r), call[r].cred)
    <3>1. /\ Email(r) \in Live /\ ClearPreview(Email(r))
          /\ Goto(r, "track") /\ reply' = reply
          /\ call' = [call EXCEPT ![r].at = now]
      BY <1>8, <2>2 DEF ConsumePreviewOTK, HoldsPreview
    <3>2. Evolves /\ FlagMove(r)
      BY <1>1, <3>1, ClearPreviewEvolves, NoFlagMoves
    <3>3. CallStays(r)
      BY <1>1, <3>1, SMT DEF CallStays, ReqType, Call
    <3>4. \A q \in Reqs \ {r} : Slot(q)
      BY <1>1, <3>1, GotoType, LabelFacts DEF Slot, ReqType
    <3> QED
      BY <3>2, <3>3, <3>4 DEF Frame
  <2> QED
    BY <2>1, <2>2
<1>9. CASE ValidKeepOTK(r)
  BY <1>3, <1>4, <1>5, <1>9, LabelFacts DEF ValidKeepOTK, Frame
<1>10. CASE TrackEmailOpen(r)
  <2>1. CASE Unopened(Email(r))
    <3>1. /\ Email(r) \in Live /\ SetOpened(Email(r), call[r].at)
          /\ Continue(r, "openHook")
      BY <1>10, <2>1, Zenon DEF TrackEmailOpen, Unopened
    <3>2. Evolves /\ FlagMove(r)
      BY <1>1, <1>2, <2>1, <3>1, SetOpenedEvolves, NoFlagMoves
    <3> QED
      BY <1>4, <3>1, <3>2, LabelFacts DEF Frame
  <2>2. CASE ~Unopened(Email(r))
    BY <1>3, <1>4, <1>10, <2>2, LabelFacts DEF TrackEmailOpen, Frame
  <2> QED
    BY <2>1, <2>2
<1>11. CASE TrackEmailOpenSelect(r)
  BY <1>3, <1>4, <1>5, <1>11, LabelFacts DEF TrackEmailOpenSelect, Frame
<1>12. CASE EmailOpened(r)
  BY <1>3, <1>4, <1>12, LabelFacts DEF EmailOpened, Frame
<1>13. CASE GetEmailRow(r)
  <2>1. CASE Email(r) \notin Live
    BY <1>3, <1>5, <1>13, <2>1, LabelFacts DEF GetEmailRow, Frame
  <2>2. CASE Email(r) \in Live
    <3>1. /\ Goto(r, "attach") /\ call' = call /\ UNCHANGED storeVars
          /\ reply' = [reply EXCEPT ![r].kept = IsKept(Email(r))]
      BY <1>13, <2>2 DEF GetEmailRow
    <3>2. \A q \in Reqs \ {r} : pc'[q] = pc[q] /\ reply'[q] = reply[q]
      BY <1>1, <3>1, GotoType, LabelFacts DEF ReqType
    <3> QED
      BY <1>3, <3>1, <3>2, SlotsStay DEF Frame
  <2> QED
    BY <2>1, <2>2
<1>14. CASE AttachmentsFor(r)
  <2> DEFINE a == Email(r) \in Live /\ emails[Email(r)].atts
  <2>1. /\ Goto(r, "idle") /\ call' = call /\ UNCHANGED storeVars
        /\ reply' = [reply EXCEPT ![r].code = 200, ![r].atts = a]
    BY <1>14 DEF AttachmentsFor
  <2> HIDE DEF a
  <2>2. \A q \in Reqs \ {r} : pc'[q] = pc[q] /\ reply'[q] = reply[q]
    BY <1>1, <2>1, GotoType, LabelFacts DEF ReqType
  <2> QED
    BY <1>3, <2>1, <2>2, SlotsStay DEF Frame
<1>15. CASE EmailExists(r)
  BY <1>3, <1>5, <1>15, LabelFacts DEF EmailExists, Frame
<1>16. CASE KeepEmail(r)
  <2>1. CASE IsUnkept(Email(r))
    <3>1. /\ Email(r) \in Live /\ SetKept(Email(r), TRUE)
          /\ Continue(r, "row") /\ pc[r] = "keep"
      BY <1>16, <2>1, Zenon DEF KeepEmail, IsUnkept, At
    <3>2. Evolves /\ FlagsStay({Email(r)}) /\ emails'[Email(r)].kept
      BY <1>1, <3>1, SetKeptEvolves, SetKeptType
    <3>3. FlagMove(r)
      BY <3>1, <3>2 DEF FlagMove, FlagsStay
    <3> QED
      BY <1>4, <3>1, <3>2, <3>3, LabelFacts DEF Frame
  <2>2. CASE ~IsUnkept(Email(r))
    <3>1. Continue(r, "keepSel") /\ UNCHANGED storeVars /\ Aside
      BY <1>16, <2>2, Zenon DEF KeepEmail
    <3> QED
      BY <1>3, <1>4, <3>1, LabelFacts DEF Frame
  <2> QED
    BY <2>1, <2>2
<1>17. CASE KeepEmailSelect(r)
  BY <1>3, <1>4, <1>5, <1>17, LabelFacts DEF KeepEmailSelect, Frame
<1>18. CASE UnkeepEmail(r)
  <2>1. CASE IsKept(Email(r))
    <3>1. /\ Email(r) \in Live /\ SetKept(Email(r), FALSE)
          /\ Continue(r, "row") /\ pc[r] = "unkeep"
      BY <1>18, <2>1, Zenon DEF UnkeepEmail, IsKept, At
    <3>2. Evolves /\ FlagsStay({Email(r)}) /\ ~emails'[Email(r)].kept
      BY <1>1, <3>1, SetKeptEvolves, SetKeptType
    <3>3. FlagMove(r)
      BY <3>1, <3>2 DEF FlagMove, FlagsStay
    <3> QED
      BY <1>4, <3>1, <3>2, <3>3, LabelFacts DEF Frame
  <2>2. CASE ~IsKept(Email(r))
    <3>1. Continue(r, "unkeepSel") /\ UNCHANGED storeVars /\ Aside
      BY <1>18, <2>2, Zenon DEF UnkeepEmail
    <3> QED
      BY <1>3, <1>4, <3>1, LabelFacts DEF Frame
  <2> QED
    BY <2>1, <2>2
<1>19. CASE UnkeepEmailSelect(r)
  BY <1>3, <1>4, <1>5, <1>19, LabelFacts DEF UnkeepEmailSelect, Frame
<1>20. CASE RegeneratePreviewOTK(r)
  <2>1. Evolves /\ FlagMove(r)
    BY <1>1, <1>2, <1>20, SetPreviewEvolves, NoFlagMoves DEF RegeneratePreviewOTK
  <2> QED
    BY <1>4, <1>5, <1>20, <2>1, LabelFacts DEF RegeneratePreviewOTK, Frame
<1>21. CASE GetLinkOTKs(r)
  <2>1. Goto(r, "idle") /\ call' = call /\ UNCHANGED storeVars
    BY <1>21 DEF GetLinkOTKs
  <2>2. \A q \in Reqs \ {r} : pc'[q] = pc[q]
    BY <1>1, <2>1, GotoType, LabelFacts
  <2>3. \A q \in Reqs \ {r} : reply'[q] = reply[q]
    <3>1. CASE Email(r) \in Live
      BY <1>1, <1>21, <3>1 DEF GetLinkOTKs, ReqType
    <3>2. CASE Email(r) \notin Live
      BY <1>1, <1>21, <3>2 DEF GetLinkOTKs, ReqType
    <3> QED
      BY <3>1, <3>2
  <2> QED
    BY <1>3, <2>1, <2>2, <2>3, SlotsStay DEF Frame
<1>22. CASE DeleteEmail(r) \/ DeleteEmails(r)
  <2>1. PICK S : DeleteRows(S)
    BY <1>22 DEF DeleteEmail, DeleteEmails
  <2>2. Evolves /\ FlagMove(r)
    BY <1>1, <2>1, DeleteRowsEvolves, NoFlagMoves
  <2> QED
    BY <1>5, <1>22, <2>2, LabelFacts DEF DeleteEmail, DeleteEmails, Frame
<1> QED
  BY <1>6, <1>7, <1>8, <1>9, <1>10, <1>11, <1>12, <1>13, <1>14, <1>15, <1>16,
     <1>17, <1>18, <1>19, <1>20, <1>21, <1>22 DEF Step
----------------------------------------------------------------------------
(* What request r knows after its own step. *)

\* An id that was given out stays given out, and a gone row stays gone.
LEMMA OwnIds ==
  ASSUME TypeOK, TypeOK', Evolves, NEW r \in Reqs, Own(r)
  PROVE  /\ call[r].cred < nextTok'
         /\ call[r].id < nextId =>
              /\ call[r].id < nextId'
              /\ call[r].id \notin Live => call[r].id \notin Live'
         /\ call[r].existed => call[r].id < nextId
<1>1. call[r].id \in Ids /\ call[r].cred \in Nat
  BY CallFields
<1>2. call[r].cred < nextTok /\ (call[r].existed => call[r].id < nextId)
  BY DEF Own, Seen, Issued, Email
<1>3. call[r].cred < nextTok'
  <2>1. nextTok \in Nat /\ nextTok' \in Nat /\ nextTok' >= nextTok
    BY BoundsAssumption, SMT DEF TypeOK, StoreTypeOK, Evolves
  <2> QED
    BY <1>1, <1>2, <2>1, SMT
<1> QED
  BY <1>1, <1>2, <1>3, IssuedStays DEF Issued

\* r answers, with a code that its email deserves.
LEMMA AnswerOwn ==
  ASSUME TypeOK, TypeOK', Evolves, NEW r \in Reqs, Own(r),
         NEW c \in Codes, Answer(r, c),
         c = 401 =>
           /\ ByLink(r)
           /\ call[r].op = "preview" => ~HoldsPreview(Email(r), call[r].cred)'
           /\ call[r].op = "keep" => ~HoldsKeep(Email(r), call[r].cred)',
         c = 404 /\ call[r].existed /\ ~call[r].contested => Email(r) \notin Live',
         c = 500 => /\ call[r].op \in {"keep", "unkeep", "token"}
                    /\ Email(r) < nextId /\ Email(r) \notin Live',
         c = 200 => call[r].op \notin Reading \cup {"keep", "unkeep", "token"}
  PROVE  Own(r)'
<1>1. ReqType
  BY TypeParts
<1>2. pc'[r] = "idle" /\ call' = call /\ reply'[r].code = c
  BY <1>1, AnswerFrame
<1>3. /\ call[r].cred < nextTok'
      /\ call[r].id < nextId => call[r].id < nextId'
      /\ call[r].existed => call[r].id < nextId
  BY OwnIds
<1>4. Route(r)' /\ Flagged(r)'
  BY <1>2, SMT DEF Route, Flagged
<1>5. Seen(r)'
  BY <1>2, <1>3, SMT DEF Seen, Issued, Email
<1>6. Told(r)'
  BY <1>2, <1>3, SMT
  DEF Told, ByLink, HoldsPreview, HoldsKeep, Email, Issued, Reading
<1> QED
  BY <1>4, <1>5, <1>6 DEF Own

\* r goes on to statement s.
LEMMA MoveOwn ==
  ASSUME TypeOK, TypeOK', Evolves, NEW r \in Reqs, Own(r), NEW s \in Labels,
         s # "idle", pc'[r] = s, call'[r].op = call[r].op,
         call'[r].id = call[r].id, call'[r].cred = call[r].cred,
         call'[r].existed = call[r].existed,
         call'[r].contested = call[r].contested,
         Route(r)', Flagged(r)',
         s \in {"notify", "openHook", "attach", "links"} => Email(r) < nextId,
         s = "row" /\ call[r].op \in {"keep", "unkeep"} => Email(r) < nextId,
         s = "trackSel" /\ call[r].existed => ~Unopened(Email(r))',
         s = "openHook" => ~Unopened(Email(r))'
  PROVE  Own(r)'
<1>1. /\ call[r].cred < nextTok'
      /\ call[r].id < nextId => call[r].id < nextId'
      /\ call[r].existed => call[r].id < nextId
  BY OwnIds
<1>2. Seen(r)'
  BY <1>1, SMT DEF Seen, Issued, Email, Unopened
<1>3. Told(r)'
  BY DEF Told
<1> QED
  BY <1>2, <1>3 DEF Own
LEMMA StepOwn ==
  ASSUME TypeOK, TypeOK', NEW r \in Reqs, Own(r), Frame(r), Step(r)
  PROVE  Own(r)'
<1>1. StoreTypeOK /\ ReqType /\ Evolves
  BY TypeParts DEF Frame
<1>2. \A id \in Live : id < nextId
  BY <1>1 DEF StoreTypeOK
<1>3. UNCHANGED storeVars => Live' = Live /\ emails' = emails
  BY <1>1, UnchangedType
<1>4. Route(r) /\ Seen(r) /\ Flagged(r) /\ Told(r)
  BY DEF Own
<1>5. Email(r) \in Ids /\ call[r].at \in Time
  BY <1>1, SMT DEF ReqType, Call, Email
\* An answer that says nothing of the email.
<1>6. ASSUME NEW c \in Codes, Answer(r, c), c \notin {401, 404, 500},
             c = 200 => call[r].op \notin Reading \cup {"keep", "unkeep", "token"}
      PROVE  Own(r)'
  BY <1>1, <1>6, AnswerOwn
\* 404 for an email that is gone.
<1>7. ASSUME Answer(r, 404), UNCHANGED storeVars,
             call[r].existed /\ ~call[r].contested => Email(r) \notin Live
      PROVE  Own(r)'
  BY <1>1, <1>3, <1>7, LabelFacts, AnswerOwn
\* The next statement, reached without a change of the table.
<1>8. ASSUME NEW s \in Labels, Continue(r, s), s # "idle", Route(r)', Flagged(r)',
             s \in {"notify", "openHook", "attach", "links"} => Email(r) < nextId,
             s = "row" /\ call[r].op \in {"keep", "unkeep"} => Email(r) < nextId,
             s = "trackSel" /\ call[r].existed => ~Unopened(Email(r))',
             s = "openHook" => ~Unopened(Email(r))'
      PROVE  Own(r)'
  <2>1. pc'[r] = s /\ call' = call
    BY <1>1, <1>8, ContinueType
  <2> QED
    BY <1>1, <1>8, <2>1, MoveOwn
<1>9. CASE Insert(r)
  <2>1. /\ pc[r] = "insert" /\ Goto(r, "notify")
        /\ call' = [call EXCEPT ![r].id = nextId] /\ nextId' = nextId + 1
    BY <1>9 DEF Insert, At, InsertRow
  <2>2. /\ call'[r].op = call[r].op /\ call'[r].id = nextId
        /\ call'[r].cred = call[r].cred /\ call'[r].existed = call[r].existed
    BY <1>1, <2>1, SMT DEF ReqType, Call
  <2>3. pc'[r] = "notify"
    BY <1>1, <2>1, GotoType, LabelFacts
  <2>4. call[r].op = "ingest"
    BY <1>4, <2>1, SMT DEF Route
  <2>5. nextId < nextId' /\ call[r].cred < nextTok'
    BY <1>1, <2>1, OwnIds, BoundsAssumption, SMT DEF StoreTypeOK
  <2>6. Route(r)' /\ Flagged(r)' /\ Told(r)'
    BY <2>2, <2>3, <2>4, SMT DEF Route, Flagged, Told
  <2>7. Seen(r)'
    BY <2>2, <2>3, <2>5, SMT DEF Seen, Issued, Email, Unopened
  <2> QED
    BY <2>6, <2>7 DEF Own
<1>10. CASE EmailReceived(r)
  BY <1>6, <1>10, LabelFacts DEF EmailReceived
<1>11. CASE ConsumePreviewOTK(r)
  <2>1. pc[r] = "consume" /\ call[r].op = "preview" /\ ByLink(r)
    BY <1>4, <1>11, SMT DEF ConsumePreviewOTK, At, Route
  <2>2. CASE ~HoldsPreview(Email(r), call[r].cred)
    <3>1. Answer(r, 401) /\ UNCHANGED storeVars
      BY <1>11, <2>2 DEF ConsumePreviewOTK
    <3>2. call' = call
      BY <3>1 DEF Answer
    <3>3. ~HoldsPreview(Email(r), call[r].cred)'
      BY <1>3, <2>2, <3>1, <3>2 DEF HoldsPreview, Email
    <3> QED
      BY <1>1, <2>1, <3>1, <3>3, LabelFacts, AnswerOwn
  <2>3. CASE HoldsPreview(Email(r), call[r].cred)
    <3>1. Goto(r, "track") /\ call' = [call EXCEPT ![r].at = now]
      BY <1>11, <2>3 DEF ConsumePreviewOTK
    <3>2. pc'[r] = "track"
      BY <1>1, <3>1, GotoType, LabelFacts
    <3>3. /\ call'[r].op = call[r].op /\ call'[r].id = call[r].id
          /\ call'[r].cred = call[r].cred /\ call'[r].existed = call[r].existed
          /\ call'[r].contested = call[r].contested
      BY <1>1, <3>1, SMT DEF ReqType, Call
    <3>4. Route(r)' /\ Flagged(r)'
      BY <2>1, <3>2, <3>3, SMT DEF Route, Flagged, Reading
    <3> QED
      BY <1>1, <3>2, <3>3, <3>4, LabelFacts, MoveOwn
  <2> QED
    BY <2>2, <2>3
<1>12. CASE ValidKeepOTK(r)
  <2>1. /\ pc[r] = "checkKeep" /\ call[r].op = "keep" /\ ByLink(r)
        /\ UNCHANGED storeVars
    BY <1>4, <1>12, SMT DEF ValidKeepOTK, At, Route
  <2>2. CASE HoldsKeep(Email(r), call[r].cred)
    <3>1. Continue(r, "keep")
      BY <1>12, <2>2 DEF ValidKeepOTK
    <3>2. pc'[r] = "keep" /\ call' = call
      BY <1>1, <3>1, ContinueType, LabelFacts
    <3>3. Route(r)' /\ Flagged(r)'
      BY <2>1, <3>2, SMT DEF Route, Flagged
    <3> QED
      BY <1>8, <3>1, <3>3, LabelFacts
  <2>3. CASE ~HoldsKeep(Email(r), call[r].cred)
    <3>1. Answer(r, 401)
      BY <1>12, <2>3 DEF ValidKeepOTK
    <3>2. call' = call
      BY <3>1 DEF Answer
    <3>3. ~HoldsKeep(Email(r), call[r].cred)'
      BY <1>3, <2>1, <2>3, <3>2 DEF HoldsKeep, Email
    <3> QED
      BY <1>1, <2>1, <3>1, <3>3, LabelFacts, AnswerOwn
  <2> QED
    BY <2>2, <2>3
<1>13. CASE TrackEmailOpen(r)
  <2>1. pc[r] = "track" /\ call[r].op \in Reading
    BY <1>4, <1>13, SMT DEF TrackEmailOpen, At, Route
  <2>2. \A s \in {"openHook", "trackSel"} : Continue(r, s) => Route(r)' /\ Flagged(r)'
    <3> SUFFICES ASSUME NEW s \in {"openHook", "trackSel"}, Continue(r, s)
                 PROVE  Route(r)' /\ Flagged(r)'
      OBVIOUS
    <3>1. pc'[r] = s /\ call' = call
      BY <1>1, ContinueType, LabelFacts
    <3> QED
      BY <2>1, <3>1, SMT DEF Route, Flagged, Reading
  <2>3. CASE Unopened(Email(r))
    <3>1. /\ Email(r) \in Live /\ SetOpened(Email(r), call[r].at)
          /\ Continue(r, "openHook")
      BY <1>13, <2>3, Zenon DEF TrackEmailOpen, Unopened
    <3>2. emails'[Email(r)].opened # Never
      BY <1>1, <1>5, <3>1, BoundsAssumption, SMT
      DEF SetOpened, Never, Time, StoreTypeOK, Live, Row
    <3>3. ~Unopened(Email(r))'
      BY <3>1, <3>2 DEF Unopened, Email, Continue
    <3> QED
      BY <1>2, <1>8, <2>2, <3>1, <3>3, LabelFacts
  <2>4. CASE ~Unopened(Email(r))
    <3>1. Continue(r, "trackSel") /\ UNCHANGED storeVars
      BY <1>13, <2>4, Zenon DEF TrackEmailOpen
    <3>2. ~Unopened(Email(r))'
      BY <1>3, <2>4, <3>1 DEF Unopened, Email, Continue
    <3> QED
      BY <1>8, <2>2, <3>1, <3>2, LabelFacts
  <2> QED
    BY <2>3, <2>4
<1>14. CASE TrackEmailOpenSelect(r)
  <2>1. /\ pc[r] = "trackSel" /\ call[r].op \in Reading /\ UNCHANGED storeVars
        /\ call[r].existed => ~Unopened(Email(r))
    BY <1>4, <1>14, SMT DEF TrackEmailOpenSelect, At, Route, Seen
  <2>2. CASE Email(r) \in Live /\ ~Unopened(Email(r))
    <3>1. Continue(r, "row")
      BY <1>14, <2>2 DEF TrackEmailOpenSelect
    <3>2. pc'[r] = "row" /\ call' = call
      BY <1>1, <3>1, ContinueType, LabelFacts
    <3>3. Route(r)' /\ Flagged(r)'
      BY <2>1, <3>2, SMT DEF Route, Flagged, Reading
    <3> QED
      BY <1>2, <1>8, <2>2, <3>1, <3>3, LabelFacts
  <2>3. CASE ~(Email(r) \in Live /\ ~Unopened(Email(r)))
    <3>1. Answer(r, 404)
      BY <1>14, <2>3 DEF TrackEmailOpenSelect
    <3> QED
      BY <1>7, <2>1, <2>3, <3>1
  <2> QED
    BY <2>2, <2>3
<1>15. CASE EmailOpened(r)
  <2>1. pc[r] = "openHook" /\ call[r].op \in Reading /\ Continue(r, "row")
    BY <1>4, <1>15, SMT DEF EmailOpened, At, Route
  <2>2. pc'[r] = "row" /\ call' = call
    BY <1>1, <2>1, ContinueType, LabelFacts
  <2>3. Route(r)' /\ Flagged(r)'
    BY <2>1, <2>2, SMT DEF Route, Flagged, Reading
  <2>4. Email(r) < nextId
    BY <1>4, <2>1, SMT DEF Seen, Issued
  <2> QED
    BY <1>8, <2>1, <2>3, <2>4, LabelFacts
<1>16. CASE GetEmailRow(r)
  <2>1. /\ pc[r] = "row" /\ UNCHANGED storeVars
        /\ call[r].op \in Reading \cup {"keep", "unkeep"}
        /\ call[r].op \in {"keep", "unkeep"} => Email(r) < nextId
    BY <1>4, <1>16, SMT DEF GetEmailRow, At, Route, Seen, Issued, Reading
  <2>2. CASE Email(r) \in Live
    <3>1. /\ Goto(r, "attach") /\ call' = call
          /\ reply' = [reply EXCEPT ![r].kept = IsKept(Email(r))]
      BY <1>16, <2>2 DEF GetEmailRow
    <3>2. pc'[r] = "attach"
      BY <1>1, <3>1, GotoType, LabelFacts
    <3>3. reply'[r].kept <=> IsKept(Email(r))
      <4>1. reply[r] \in Reply
        BY <1>1 DEF ReqType
      <4>2. reply'[r] = [reply[r] EXCEPT !.kept = IsKept(Email(r))]
        BY <1>1, <3>1 DEF ReqType
      <4> QED
        BY <4>1, <4>2, Zenon DEF Reply
    <3>4. Route(r)'
      BY <2>1, <3>1, <3>2, SMT DEF Route, Reading
    <3>5. Flagged(r)'
      <4>1. /\ ~call[r].contested /\ call[r].op = "keep" => ~IsUnkept(Email(r))
            /\ ~call[r].contested /\ call[r].op = "unkeep" => ~IsKept(Email(r))
        BY <1>4, <2>1, SMT DEF Flagged
      <4>2. /\ IsKept(Email(r))' <=> IsKept(Email(r))
            /\ IsUnkept(Email(r))' <=> IsUnkept(Email(r))
        BY <1>3, <2>1, <3>1 DEF IsKept, IsUnkept, Email
      <4>3. ~IsUnkept(Email(r)) => IsKept(Email(r))
        BY <2>2 DEF IsKept, IsUnkept
      <4>4. Email(r)' = Email(r) /\ call'[r] = call[r]
        BY <3>1 DEF Email
      <4> QED
        BY <3>2, <3>3, <4>1, <4>2, <4>3, <4>4, Zenon DEF Flagged
    <3> QED
      BY <1>1, <1>2, <2>2, <3>1, <3>2, <3>4, <3>5, LabelFacts, MoveOwn
  <2>3. CASE Email(r) \notin Live
    <3>1. CASE call[r].op \in {"keep", "unkeep"}
      <4>1. Answer(r, 500)
        BY <1>16, <2>3, <3>1 DEF GetEmailRow
      <4> QED
        BY <1>1, <1>3, <2>1, <2>3, <3>1, <4>1, LabelFacts, AnswerOwn
    <3>2. CASE call[r].op \notin {"keep", "unkeep"}
      <4>1. Answer(r, 404)
        BY <1>16, <2>3, <3>2 DEF GetEmailRow
      <4> QED
        BY <1>7, <2>1, <2>3, <4>1
    <3> QED
      BY <3>1, <3>2
  <2> QED
    BY <2>2, <2>3
<1>17. CASE AttachmentsFor(r)
  <2> DEFINE a == Email(r) \in Live /\ emails[Email(r)].atts
  <2>1. /\ pc[r] = "attach" /\ Goto(r, "idle") /\ call' = call /\ UNCHANGED storeVars
        /\ reply' = [reply EXCEPT ![r].code = 200, ![r].atts = a]
    BY <1>17 DEF AttachmentsFor, At
  <2>2. /\ call[r].op \in Reading \cup {"keep", "unkeep"} /\ Email(r) < nextId
        /\ ~call[r].contested /\ call[r].op = "keep" => reply[r].kept
        /\ ~call[r].contested /\ call[r].op = "unkeep" => ~reply[r].kept
    BY <1>4, <2>1, SMT DEF Route, Seen, Flagged, Issued
  <2>3. pc'[r] = "idle"
    BY <1>1, <2>1, GotoType, LabelFacts
  <2>4. Email(r) \in Live => a = emails[Email(r)].atts
    BY <1>1, SMT DEF StoreTypeOK, Row
  <2> HIDE DEF a
  <2>5. reply'[r].code = 200 /\ reply'[r].atts = a /\ reply'[r].kept = reply[r].kept
    BY <1>1, <2>1, SMT DEF ReqType, Reply
  <2>6. Route(r)' /\ Flagged(r)'
    BY <2>3, SMT DEF Route, Flagged
  <2>7. Seen(r)'
    BY <1>1, <2>1, <2>3, OwnIds, SMT DEF Seen, Issued, Email
  <2>8. Told(r)'
    <3>1. nextId' = nextId /\ emails' = emails /\ Live' = Live
      BY <1>3, <2>1 DEF storeVars
    <3>2. call[r].op \notin {"token"}
      BY <2>2, SMT DEF Reading
    <3> QED
      BY <2>1, <2>2, <2>3, <2>4, <2>5, <3>1, <3>2
      DEF Told, Email, Issued
  <2> QED
    BY <2>6, <2>7, <2>8 DEF Own
<1>18. CASE EmailExists(r)
  <2>1. /\ pc[r] = "exists" /\ call[r].op = "head" /\ UNCHANGED storeVars
        /\ Answer(r, IF Email(r) \in Live THEN 200 ELSE 404)
    BY <1>4, <1>18, SMT DEF EmailExists, At, Route
  <2>2. call[r].op \notin Reading \cup {"keep", "unkeep", "token"}
    BY <2>1, SMT DEF Reading
  <2> QED
    BY <1>6, <1>7, <2>1, <2>2, LabelFacts
<1>19. CASE KeepEmail(r)
  <2>1. pc[r] = "keep" /\ call[r].op = "keep"
    BY <1>4, <1>19, SMT DEF KeepEmail, At, Route
  <2>2. CASE IsUnkept(Email(r))
    <3>1. /\ Email(r) \in Live /\ SetKept(Email(r), TRUE) /\ Continue(r, "row")
      BY <1>19, <2>2, Zenon DEF KeepEmail, IsUnkept
    <3>2. pc'[r] = "row" /\ call' = call
      BY <1>1, <3>1, ContinueType, LabelFacts
    <3>3. emails'[Email(r)].kept
      BY <1>1, <3>1, SetKeptType
    <3>4. ~IsUnkept(Email(r))'
      BY <3>2, <3>3 DEF IsUnkept, Email
    <3>5. Route(r)' /\ Flagged(r)'
      BY <2>1, <3>2, <3>4, SMT DEF Route, Flagged
    <3> QED
      BY <1>2, <1>8, <3>1, <3>5, LabelFacts
  <2>3. CASE ~IsUnkept(Email(r))
    <3>1. Continue(r, "keepSel") /\ UNCHANGED storeVars
      BY <1>19, <2>3, Zenon DEF KeepEmail
    <3>2. pc'[r] = "keepSel" /\ call' = call
      BY <1>1, <3>1, ContinueType, LabelFacts
    <3>3. ~IsUnkept(Email(r))'
      BY <1>3, <2>3, <3>1, <3>2 DEF IsUnkept, Email
    <3>4. Route(r)' /\ Flagged(r)'
      BY <2>1, <3>2, <3>3, SMT DEF Route, Flagged
    <3> QED
      BY <1>8, <3>1, <3>4, LabelFacts
  <2> QED
    BY <2>2, <2>3
<1>20. CASE KeepEmailSelect(r)
  <2>1. /\ pc[r] = "keepSel" /\ call[r].op = "keep" /\ UNCHANGED storeVars
        /\ call[r].existed /\ ~call[r].contested => ~IsUnkept(Email(r))
    BY <1>4, <1>20, SMT DEF KeepEmailSelect, At, Route, Flagged
  <2>2. CASE IsKept(Email(r))
    <3>1. Continue(r, "row")
      BY <1>20, <2>2 DEF KeepEmailSelect
    <3>2. pc'[r] = "row" /\ call' = call
      BY <1>1, <3>1, ContinueType, LabelFacts
    <3>3. ~IsUnkept(Email(r))' /\ Email(r) \in Live
      BY <1>3, <2>1, <2>2, <3>2 DEF IsUnkept, IsKept, Email
    <3>4. Route(r)' /\ Flagged(r)'
      BY <2>1, <3>2, <3>3, SMT DEF Route, Flagged
    <3> QED
      BY <1>2, <1>8, <3>1, <3>3, <3>4, LabelFacts
  <2>3. CASE ~IsKept(Email(r))
    <3>1. Answer(r, 404)
      BY <1>20, <2>3 DEF KeepEmailSelect
    <3>2. ~IsUnkept(Email(r)) => Email(r) \notin Live
      BY <2>3 DEF IsKept, IsUnkept
    <3> QED
      BY <1>7, <2>1, <3>1, <3>2
  <2> QED
    BY <2>2, <2>3
<1>21. CASE UnkeepEmail(r)
  <2>1. pc[r] = "unkeep" /\ call[r].op = "unkeep"
    BY <1>4, <1>21, SMT DEF UnkeepEmail, At, Route
  <2>2. CASE IsKept(Email(r))
    <3>1. /\ Email(r) \in Live /\ SetKept(Email(r), FALSE) /\ Continue(r, "row")
      BY <1>21, <2>2, Zenon DEF UnkeepEmail, IsKept
    <3>2. pc'[r] = "row" /\ call' = call
      BY <1>1, <3>1, ContinueType, LabelFacts
    <3>3. ~emails'[Email(r)].kept
      BY <1>1, <3>1, SetKeptType
    <3>4. ~IsKept(Email(r))'
      BY <3>2, <3>3 DEF IsKept, Email
    <3>5. Route(r)' /\ Flagged(r)'
      BY <2>1, <3>2, <3>4, SMT DEF Route, Flagged
    <3> QED
      BY <1>2, <1>8, <3>1, <3>5, LabelFacts
  <2>3. CASE ~IsKept(Email(r))
    <3>1. Continue(r, "unkeepSel") /\ UNCHANGED storeVars
      BY <1>21, <2>3, Zenon DEF UnkeepEmail
    <3>2. pc'[r] = "unkeepSel" /\ call' = call
      BY <1>1, <3>1, ContinueType, LabelFacts
    <3>3. ~IsKept(Email(r))'
      BY <1>3, <2>3, <3>1, <3>2 DEF IsKept, Email
    <3>4. Route(r)' /\ Flagged(r)'
      BY <2>1, <3>2, <3>3, SMT DEF Route, Flagged
    <3> QED
      BY <1>8, <3>1, <3>4, LabelFacts
  <2> QED
    BY <2>2, <2>3
<1>22. CASE UnkeepEmailSelect(r)
  <2>1. /\ pc[r] = "unkeepSel" /\ call[r].op = "unkeep" /\ UNCHANGED storeVars
        /\ call[r].existed /\ ~call[r].contested => ~IsKept(Email(r))
    BY <1>4, <1>22, SMT DEF UnkeepEmailSelect, At, Route, Flagged
  <2>2. CASE IsUnkept(Email(r))
    <3>1. Continue(r, "row")
      BY <1>22, <2>2 DEF UnkeepEmailSelect
    <3>2. pc'[r] = "row" /\ call' = call
      BY <1>1, <3>1, ContinueType, LabelFacts
    <3>3. ~IsKept(Email(r))' /\ Email(r) \in Live
      BY <1>3, <2>1, <2>2, <3>2 DEF IsUnkept, IsKept, Email
    <3>4. Route(r)' /\ Flagged(r)'
      BY <2>1, <3>2, <3>3, SMT DEF Route, Flagged
    <3> QED
      BY <1>2, <1>8, <3>1, <3>3, <3>4, LabelFacts
  <2>3. CASE ~IsUnkept(Email(r))
    <3>1. Answer(r, 404)
      BY <1>22, <2>3 DEF UnkeepEmailSelect
    <3>2. ~IsKept(Email(r)) => Email(r) \notin Live
      BY <2>3 DEF IsKept, IsUnkept
    <3> QED
      BY <1>7, <2>1, <3>1, <3>2
  <2> QED
    BY <2>2, <2>3
<1>23. CASE RegeneratePreviewOTK(r)
  <2>1. pc[r] = "regen" /\ call[r].op = "token" /\ SetPreview(Email(r))
    BY <1>4, <1>23, SMT DEF RegeneratePreviewOTK, At, Route
  <2>2. Live' = Live
    BY <1>1, <1>5, <2>1, SetPreviewType
  <2>3. CASE Email(r) \in Live
    <3>1. Continue(r, "links")
      BY <1>23, <2>3 DEF RegeneratePreviewOTK
    <3>2. pc'[r] = "links" /\ call' = call
      BY <1>1, <3>1, ContinueType, LabelFacts
    <3>3. Route(r)' /\ Flagged(r)'
      BY <2>1, <3>2, SMT DEF Route, Flagged
    <3> QED
      BY <1>2, <1>8, <2>3, <3>1, <3>3, LabelFacts
  <2>4. CASE Email(r) \notin Live
    <3>1. Answer(r, 404)
      BY <1>23, <2>4 DEF RegeneratePreviewOTK
    <3> QED
      BY <1>1, <2>2, <2>4, <3>1, LabelFacts, AnswerOwn
  <2> QED
    BY <2>3, <2>4
<1>24. CASE GetLinkOTKs(r)
  <2>1. /\ pc[r] = "links" /\ call[r].op = "token" /\ Email(r) < nextId
        /\ UNCHANGED storeVars /\ Goto(r, "idle") /\ call' = call
    BY <1>4, <1>24, SMT DEF GetLinkOTKs, At, Route, Seen, Issued
  <2>2. pc'[r] = "idle"
    BY <1>1, <2>1, GotoType, LabelFacts
  <2>3. \/ /\ Email(r) \in Live /\ reply'[r].code = 200
           /\ reply'[r].keep = emails[Email(r)].keep
        \/ Email(r) \notin Live /\ reply'[r].code = 500
    <3>1. CASE Email(r) \in Live
      <4>1. reply' = [reply EXCEPT ![r].code = 200,
                                   ![r].keep = emails[Email(r)].keep]
        BY <1>24, <3>1 DEF GetLinkOTKs
      <4> QED
        BY <1>1, <3>1, <4>1, SMT DEF ReqType, Reply
    <3>2. CASE Email(r) \notin Live
      <4>1. reply' = [reply EXCEPT ![r].code = 500]
        BY <1>24, <3>2 DEF GetLinkOTKs
      <4> QED
        BY <1>1, <3>2, <4>1, SMT DEF ReqType, Reply
    <3> QED
      BY <3>1, <3>2
  <2>4. Route(r)' /\ Flagged(r)'
    BY <2>2, SMT DEF Route, Flagged
  <2>5. Seen(r)'
    BY <1>1, <2>1, <2>2, OwnIds, SMT DEF Seen, Issued, Email
  <2>6. nextId' = nextId /\ emails' = emails /\ Live' = Live
    BY <1>3, <2>1 DEF storeVars
  <2>7. Told(r)'
    BY <2>1, <2>2, <2>3, <2>6, SMT DEF Told, Email, Issued, HoldsKeep, Reading
  <2> QED
    BY <2>4, <2>5, <2>7 DEF Own
<1>25. CASE DeleteEmail(r)
  <2>1. /\ pc[r] = "delete" /\ call[r].op = "delete"
        /\ Answer(r, IF Email(r) \in Live THEN 200 ELSE 404)
        /\ DeleteRows({Email(r)})
    BY <1>4, <1>25, SMT DEF DeleteEmail, At, Route
  <2>2. Email(r) \notin Live'
    BY <1>1, <2>1, DeleteRowsType
  <2>3. call[r].op \notin Reading \cup {"keep", "unkeep", "token"}
    BY <2>1, SMT DEF Reading
  <2>4. PICK c \in {200, 404} : Answer(r, c)
    BY <2>1
  <2> QED
    BY <1>1, <2>2, <2>3, <2>4, LabelFacts, AnswerOwn
<1>26. CASE DeleteEmails(r)
  <2>1. /\ pc[r] = "deleteMany" /\ call[r].op = "deleteMany" /\ Answer(r, 200)
    BY <1>4, <1>26, SMT DEF DeleteEmails, At, Route
  <2>2. call[r].op \notin Reading \cup {"keep", "unkeep", "token"}
    BY <2>1, SMT DEF Reading
  <2> QED
    BY <1>6, <2>1, <2>2, LabelFacts
<1> QED
  BY <1>9, <1>10, <1>11, <1>12, <1>13, <1>14, <1>15, <1>16, <1>17, <1>18, <1>19,
     <1>20, <1>21, <1>22, <1>23, <1>24, <1>25, <1>26 DEF Step
----------------------------------------------------------------------------
(* The invariant is kept. *)

\* A request that acts harms no other, because rivals know of each other.
LEMMA FrameOthers ==
  ASSUME AnswerInv, TypeOK', NEW r \in Reqs, Frame(r), pc[r] # "idle",
         NEW q \in Reqs \ {r}
  PROVE  Own(q)'
<1>1. TypeOK /\ Own(q) /\ Own(r) /\ Slot(q) /\ Evolves /\ Contest
  BY DEF AnswerInv, Frame
<1>2. FlagSafe(q)
  <2> SUFFICES ASSUME pc[q] # "idle", ~call'[q].contested,
                      Email(q) \in Live \cap Live'
               PROVE  /\ call[q].op = "keep" /\ emails[Email(q)].kept
                           => emails'[Email(q)].kept
                      /\ call[q].op = "unkeep" /\ ~emails[Email(q)].kept
                           => ~emails'[Email(q)].kept
    BY DEF FlagSafe
  <2>1. ~call[q].contested
    BY <1>1 DEF Slot
  <2>2. /\ pc[r] = "keep" => call[r].op = "keep"
        /\ pc[r] = "unkeep" => call[r].op = "unkeep"
    BY <1>1, SMT DEF Own, Route
  <2>3. /\ call[q].op = "keep" /\ call[r].op = "unkeep" => Email(r) # Email(q)
        /\ call[q].op = "unkeep" /\ call[r].op = "keep" => Email(r) # Email(q)
    BY <1>1, <2>1, SMT DEF Contest, Opposite, Email
  <2>4. FlagMove(r)
    BY DEF Frame
  <2> QED
    BY <2>2, <2>3, <2>4, Zenon DEF FlagMove
<1> QED
  BY <1>1, <1>2, OthersOwn

LEMMA FrameContest ==
  ASSUME AnswerInv, NEW r \in Reqs, Frame(r), pc[r] # "idle"
  PROVE  Contest'
<1> SUFFICES ASSUME NEW q \in Reqs, NEW s \in Reqs,
                    pc'[q] # "idle", pc'[s] # "idle",
                    call'[s].op \in Opposite(call'[q].op),
                    call'[s].id = call'[q].id
             PROVE  call'[q].contested
  BY DEF Contest
<1>1. \A x \in Reqs : /\ pc'[x] # "idle" => pc[x] # "idle"
                      /\ call'[x].op = call[x].op
                      /\ call[x].contested => call'[x].contested
                      /\ call[x].op \in {"keep", "unkeep"} => call'[x].id = call[x].id
  <2> TAKE x \in Reqs
  <2>1. CASE x = r
    <3>1. pc[r] = "insert" => call[r].op = "ingest"
      BY SMT DEF AnswerInv, Own, Route
    <3> QED
      BY <2>1, <3>1, SMT DEF Frame, CallStays
  <2>2. CASE x # r
    BY <2>2, SMT DEF Frame, Slot
  <2> QED
    BY <2>1, <2>2
<1>2. call[q].op \in {"keep", "unkeep"} /\ call[s].op \in {"keep", "unkeep"}
  BY <1>1, SMT DEF Opposite
<1>3. call[q].contested
  BY <1>1, <1>2 DEF AnswerInv, Contest
<1> QED
  BY <1>1, <1>3

\* An arriving request knows nothing yet, and tells its rivals.
LEMMA BeginOwn ==
  ASSUME AnswerInv, TypeOK', NEW r \in Reqs, NEW op \in AllOps, NEW id \in Ids,
         NEW cred \in Creds, NEW s \in Labels, Begin(r, op, id, cred, s),
         s \notin {"notify", "openHook", "attach", "links", "trackSel", "idle",
                   "keepSel", "unkeepSel"},
         s = "row" => op \notin {"keep", "unkeep"},
         cred < nextTok, Route(r)'
  PROVE  AnswerInv'
<1>1. TypeOK /\ StoreTypeOK /\ ReqType /\ Contest
  BY TypeParts DEF AnswerInv
<1>2. /\ pc[r] = "idle" /\ pc'[r] = s
      /\ \A q \in Reqs \ {r} : pc'[q] = pc[q]
      /\ call'[r].op = op /\ call'[r].id = id /\ call'[r].cred = cred
      /\ call'[r].existed = (id \in Live) /\ reply'[r] = NoReply
      /\ call'[r].contested <=> Rivals(r, op, id) # {}
      /\ \A q \in Reqs \ {r} :
           /\ reply'[q] = reply[q]
           /\ call'[q].op = call[q].op
           /\ call'[q].id = call[q].id
           /\ call'[q].cred = call[q].cred
           /\ call'[q].existed = call[q].existed
           /\ call'[q].fault = call[q].fault
           /\ call'[q].contested <=> call[q].contested \/ q \in Rivals(r, op, id)
  BY <1>1, BeginType
<1>3. emails' = emails /\ nextTok' = nextTok /\ nextId' = nextId /\ Live' = Live
  BY DEF Begin, storeVars, Live
<1>4. Evolves /\ FlagsStay({})
  BY <1>1, <1>3, SameRowsEvolve
<1>5. ASSUME NEW q \in Reqs \ {r} PROVE Own(q)'
  <2>1. Slot(q)
    BY <1>2 DEF Slot
  <2>2. FlagSafe(q)
    BY <1>3 DEF FlagSafe
  <2> QED
    BY <1>1, <1>4, <2>1, <2>2, OthersOwn DEF AnswerInv
<1>6. Own(r)'
  <2>1. id \in Live => id < nextId
    BY <1>1 DEF StoreTypeOK
  <2>2. Seen(r)'
    <3>1. call'[r].existed => id < nextId'
      BY <1>2, <1>3, <2>1
    <3> QED
      BY <1>2, <1>3, <3>1, SMT DEF Seen, Issued, Email
  <2>3. Flagged(r)'
    BY <1>2, SMT DEF Flagged
  <2>4. Told(r)'
    BY <1>2, SMT DEF Told
  <2> QED
    BY <2>2, <2>3, <2>4 DEF Own
<1>7. Contest'
  <2> SUFFICES ASSUME NEW q \in Reqs, NEW t \in Reqs,
                      pc'[q] # "idle", pc'[t] # "idle",
                      call'[t].op \in Opposite(call'[q].op),
                      call'[t].id = call'[q].id
               PROVE  call'[q].contested
    BY DEF Contest
  <2>1. CASE q # r /\ t # r
    BY <1>1, <1>2, <2>1 DEF Contest
  <2>2. CASE q = r /\ t # r
    <3>1. t \in Rivals(r, op, id)
      BY <1>2, <2>2 DEF Rivals
    <3> QED
      BY <1>2, <2>2, <3>1
  <2>3. CASE q # r /\ t = r
    <3>1. call[q].op \in Opposite(op)
      BY <1>2, <2>3, SMT DEF Opposite
    <3>2. q \in Rivals(r, op, id)
      BY <1>2, <2>3, <3>1 DEF Rivals
    <3> QED
      BY <1>2, <2>3, <3>2
  <2>4. CASE q = r /\ t = r
    BY <1>2, <2>4, SMT DEF Opposite
  <2> QED
    BY <2>1, <2>2, <2>3, <2>4
<1> QED
  BY <1>5, <1>6, <1>7 DEF AnswerInv

\* The statement a request of each route starts with.
First(op, cred, s) ==
    \/ op = "ingest" /\ s = "insert"
    \/ op \in Reading /\ s = "track" /\ cred = ApiKey
    \/ op \in {"get", "raw"} /\ s = "row"
    \/ op = "preview" /\ s = "consume" /\ cred # ApiKey
    \/ op = "keep" /\ s = "keep" /\ cred = ApiKey
    \/ op = "keep" /\ s = "checkKeep" /\ cred # ApiKey
    \/ op = "head" /\ s = "exists"
    \/ op = "token" /\ s = "regen"
    \/ op \in {"unkeep", "delete", "deleteMany"} /\ s = op

\* Every route begins a request at its first statement.
Begins(r, op, id, cred, s) ==
    /\ Begin(r, op, id, cred, s)
    /\ First(op, cred, s)
    /\ cred < nextTok
    /\ promised' = IF op = "unkeep" THEN promised \ {id} ELSE promised

LEMMA StartBegins ==
  ASSUME StoreTypeOK, NEW r \in Reqs, Start(r)
  PROVE  \E op \in AllOps, id \in Ids, cred \in Creds, s \in Labels :
           Begins(r, op, id, cred, s)
<1> DEFINE Some == \E op \in AllOps, id \in Ids, cred \in Creds, s \in Labels :
                     Begins(r, op, id, cred, s)
           Others == AllOps \ {"unkeep"}
<1> SUFFICES Some
  OBVIOUS
<1>1. ApiKey < nextTok
  BY BoundsAssumption, SMT DEF StoreTypeOK, ApiKey
<1>2. ASSUME NEW op \in Others, NEW id \in Ids, NEW cred \in Creds,
             NEW s \in Labels, Begin(r, op, id, cred, s), cred < nextTok,
             First(op, cred, s), promised' = promised
      PROVE  Some
  <2>1. op \in AllOps /\ op # "unkeep"
    BY DEF Others
  <2> QED
    BY <1>2, <2>1 DEF Begins
<1>3. /\ {"ingest", "preview", "get", "raw", "head", "keep", "token", "delete",
          "deleteMany"} \subseteq Others
      /\ First("ingest", ApiKey, "insert") /\ First("head", ApiKey, "exists")
      /\ First("token", ApiKey, "regen") /\ First("unkeep", ApiKey, "unkeep")
      /\ First("delete", ApiKey, "delete")
      /\ First("deleteMany", ApiKey, "deleteMany")
      /\ First("get", ApiKey, "track") /\ First("get", ApiKey, "row")
      /\ First("raw", ApiKey, "track") /\ First("raw", ApiKey, "row")
      /\ First("preview", ApiKey, "track") /\ First("keep", ApiKey, "keep")
      /\ \A cred \in Creds \ {ApiKey} : /\ First("preview", cred, "consume")
                                        /\ First("keep", cred, "checkKeep")
  BY SMT DEF AllOps, First, Reading
<1> HIDE DEF Some, Others
\* A link is checked first, the API key needs no check.
<1>4. ASSUME NEW op \in {"preview", "keep"}, NEW id \in Ids, NEW cred \in Creds,
             NEW s \in Labels, NEW t \in Labels, cred < nextTok,
             BeginPlain(r, op, id, cred, IF cred = ApiKey THEN s ELSE t),
             First(op, ApiKey, s), cred # ApiKey => First(op, cred, t)
      PROVE  Some
  <2>1. op \in Others /\ promised' = promised
    BY <1>3, <1>4 DEF BeginPlain
  <2>2. CASE cred = ApiKey
    BY <1>2, <1>4, <2>1, <2>2 DEF BeginPlain
  <2>3. CASE cred # ApiKey
    BY <1>2, <1>4, <2>1, <2>3 DEF BeginPlain
  <2> QED
    BY <2>2, <2>3
<1>5. CASE StartIngest(r)
  BY <1>1, <1>2, <1>3, <1>5, LabelFacts DEF StartIngest
<1>6. CASE StartPreview(r)
  BY <1>3, <1>4, <1>6, LabelFacts DEF StartPreview
<1>7. CASE StartGet(r)
  <2>1. PICK id \in Ids, trackOpen \in BOOLEAN :
          BeginPlain(r, "get", id, ApiKey, IF trackOpen THEN "track" ELSE "row")
    BY <1>7 DEF StartGet
  <2>2. PICK s \in {"track", "row"} : BeginPlain(r, "get", id, ApiKey, s)
    BY <2>1
  <2> QED
    BY <1>1, <1>2, <1>3, <2>2, LabelFacts DEF BeginPlain
<1>8. CASE StartRaw(r)
  <2>1. PICK id \in Ids, trackOpen \in BOOLEAN :
          BeginPlain(r, "raw", id, ApiKey, IF trackOpen THEN "track" ELSE "row")
    BY <1>8 DEF StartRaw
  <2>2. PICK s \in {"track", "row"} : BeginPlain(r, "raw", id, ApiKey, s)
    BY <2>1
  <2> QED
    BY <1>1, <1>2, <1>3, <2>2, LabelFacts DEF BeginPlain
<1>9. CASE StartHead(r)
  BY <1>1, <1>2, <1>3, <1>9, LabelFacts DEF StartHead, BeginPlain
<1>10. CASE StartKeep(r)
  BY <1>3, <1>4, <1>10, LabelFacts DEF StartKeep
<1>11. CASE StartUnkeep(r)
  <2>1. "unkeep" \in AllOps
    BY DEF AllOps
  <2> QED
    BY <1>1, <1>3, <1>11, <2>1, LabelFacts DEF StartUnkeep, Begins, Some
<1>12. CASE StartPreviewToken(r)
  BY <1>1, <1>2, <1>3, <1>12, LabelFacts DEF StartPreviewToken
<1>13. CASE StartDelete(r)
  BY <1>1, <1>2, <1>3, <1>13, LabelFacts DEF StartDelete, BeginPlain
<1>14. CASE StartDeleteMany(r)
  BY <1>1, <1>2, <1>3, <1>14, LabelFacts DEF StartDeleteMany, BeginPlain
<1> QED
  BY <1>5, <1>6, <1>7, <1>8, <1>9, <1>10, <1>11, <1>12, <1>13, <1>14 DEF Start

LEMMA StartAnswers ==
  ASSUME AnswerInv, NEW r \in Reqs, Start(r)
  PROVE  AnswerInv'
<1>1. TypeOK /\ TypeOK' /\ StoreTypeOK /\ ReqType
  BY StartType, TypeParts DEF AnswerInv
<1>2. PICK op \in AllOps, id \in Ids, cred \in Creds, s \in Labels :
        Begins(r, op, id, cred, s)
  BY <1>1, StartBegins
<1>3. Begin(r, op, id, cred, s) /\ First(op, cred, s) /\ cred < nextTok
  BY <1>2 DEF Begins
<1>4. pc'[r] = s /\ call'[r].op = op /\ call'[r].cred = cred
  BY <1>1, <1>3, BeginType
<1>5. Route(r)'
  BY <1>3, <1>4, SMT DEF Route, First, Reading, ByLink
<1>6. /\ s \notin {"notify", "openHook", "attach", "links", "trackSel", "idle",
                   "keepSel", "unkeepSel"}
      /\ s = "row" => op \notin {"keep", "unkeep"}
  BY <1>3, SMT DEF First, Reading
<1> QED
  BY <1>1, <1>3, <1>5, <1>6, BeginOwn

\* A failed statement is answered 500, with the fault on record; the read
\* behind the opened event is skipped.
LEMMA FaultFrame ==
  ASSUME TypeOK, TypeOK', NEW r \in Reqs, Fault(r), Own(r)
  PROVE  Frame(r) /\ Own(r)'
<1>1. StoreTypeOK /\ ReqType
  BY TypeParts
<1>2. /\ call' = [call EXCEPT ![r].fault = TRUE] /\ UNCHANGED storeVars
      /\ \/ pc[r] = "openHook" /\ Goto(r, "row") /\ reply' = reply
         \/ Goto(r, "idle") /\ reply' = [reply EXCEPT ![r].code = 500]
  BY DEF Fault, At
<1>3. /\ call'[r].op = call[r].op /\ call'[r].id = call[r].id
      /\ call'[r].cred = call[r].cred /\ call'[r].existed = call[r].existed
      /\ call'[r].contested = call[r].contested /\ call'[r].fault
      /\ \A q \in Reqs \ {r} : call'[q] = call[q]
  BY <1>1, <1>2, SMT DEF ReqType, Call
<1>4. /\ \A q \in Reqs \ {r} : pc'[q] = pc[q] /\ reply'[q] = reply[q]
      /\ \/ pc[r] = "openHook" /\ pc'[r] = "row"
         \/ pc'[r] = "idle" /\ reply'[r].code = 500
  <2>1. CASE pc[r] = "openHook" /\ Goto(r, "row") /\ reply' = reply
    BY <1>1, <2>1, GotoType, LabelFacts
  <2>2. CASE Goto(r, "idle") /\ reply' = [reply EXCEPT ![r].code = 500]
    <3>1. /\ reply'[r].code = 500
          /\ \A q \in Reqs \ {r} : reply'[q] = reply[q]
      BY <1>1, <2>2, SMT DEF ReqType, Reply
    <3> QED
      BY <1>1, <2>2, <3>1, GotoType, LabelFacts
  <2> QED
    BY <1>2, <2>1, <2>2
<1>5. Evolves /\ FlagMove(r)
  BY <1>1, <1>2, SameRowsEvolve, NoFlagMoves DEF storeVars
<1>6. Frame(r)
  BY <1>3, <1>4, <1>5 DEF Frame, Slot, CallStays
<1>7. Own(r)'
  <2>1. CASE pc[r] = "openHook" /\ pc'[r] = "row"
    <3>1. call[r].op \in Reading /\ Email(r) < nextId
      BY <2>1, SMT DEF Own, Route, Seen, Issued
    <3>2. Route(r)' /\ Flagged(r)'
      BY <1>3, <2>1, <3>1, SMT DEF Route, Flagged, Reading
    <3> QED
      BY <1>3, <1>5, <2>1, <3>1, <3>2, LabelFacts, MoveOwn
  <2>2. CASE pc'[r] = "idle" /\ reply'[r].code = 500
    <3>1. Route(r)' /\ Flagged(r)'
      BY <2>2, SMT DEF Route, Flagged
    <3>2. Seen(r)'
      BY <1>3, <1>5, <2>2, OwnIds, SMT DEF Seen, Issued, Email
    <3>3. Told(r)'
      BY <1>3, <2>2, SMT DEF Told
    <3> QED
      BY <3>1, <3>2, <3>3 DEF Own
  <2> QED
    BY <1>4, <2>1, <2>2
<1> QED
  BY <1>6, <1>7

\* The cleaner and the clock touch no slot and no flag.
LEMMA BackgroundAnswers ==
  ASSUME AnswerInv, TypeOK', UNCHANGED reqVars, Evolves, FlagsStay({})
  PROVE  AnswerInv'
<1>1. Contest'
  BY DEF AnswerInv, Contest, reqVars
<1>2. ASSUME NEW q \in Reqs PROVE Own(q)'
  <2>1. Slot(q)
    BY DEF Slot, reqVars
  <2>2. FlagSafe(q)
    BY DEF FlagSafe, FlagsStay
  <2> QED
    BY <2>1, <2>2, OthersOwn DEF AnswerInv
<1> QED
  BY <1>1, <1>2 DEF AnswerInv

\* A free slot has no next statement.
LEMMA StepBusy ==
  ASSUME NEW r \in Reqs, Step(r) \/ Fault(r)
  PROVE  pc[r] # "idle"
<1> SUFFICES ASSUME pc[r] = "idle" PROVE FALSE
  OBVIOUS
<1>1. \A s \in Statements \cup {"notify"} : ~At(r, s)
  BY SMT DEF At, Statements
<1>2. Statements = {"insert", "consume", "track", "trackSel", "openHook", "row",
                    "attach", "exists", "checkKeep", "keep", "keepSel", "unkeep",
                    "unkeepSel", "regen", "links", "delete", "deleteMany"}
  BY DEF Statements
<1>3. ~Fault(r)
  BY <1>1 DEF Fault, At
<1>4. ~(Insert(r) \/ EmailReceived(r) \/ ConsumePreviewOTK(r) \/ ValidKeepOTK(r))
  BY <1>1, <1>2 DEF Insert, EmailReceived, ConsumePreviewOTK, ValidKeepOTK
<1>5. ~(TrackEmailOpen(r) \/ TrackEmailOpenSelect(r) \/ EmailOpened(r))
  BY <1>1, <1>2 DEF TrackEmailOpen, TrackEmailOpenSelect, EmailOpened
<1>6. ~(GetEmailRow(r) \/ AttachmentsFor(r) \/ EmailExists(r))
  BY <1>1, <1>2 DEF GetEmailRow, AttachmentsFor, EmailExists
<1>7. ~(KeepEmail(r) \/ KeepEmailSelect(r) \/ UnkeepEmail(r) \/ UnkeepEmailSelect(r))
  BY <1>1, <1>2 DEF KeepEmail, KeepEmailSelect, UnkeepEmail, UnkeepEmailSelect
<1>8. ~(RegeneratePreviewOTK(r) \/ GetLinkOTKs(r))
  BY <1>1, <1>2 DEF RegeneratePreviewOTK, GetLinkOTKs
<1>9. ~(DeleteEmail(r) \/ DeleteEmails(r))
  BY <1>1, <1>2 DEF DeleteEmail, DeleteEmails
<1> QED
  BY <1>3, <1>4, <1>5, <1>6, <1>7, <1>8, <1>9, Zenon DEF Step

LEMMA AnswerStep == AnswerInv /\ [Next]_vars => AnswerInv'
<1> SUFFICES ASSUME AnswerInv, [Next]_vars PROVE AnswerInv'
  OBVIOUS
<1>1. TypeOK /\ TypeOK' /\ StoreTypeOK
  BY TypeStep, TypeParts DEF AnswerInv
<1>2. ASSUME NEW r \in Reqs, Step(r) \/ Fault(r)
      PROVE  AnswerInv'
  <2>1. Own(r)
    BY DEF AnswerInv
  <2>2. Frame(r) /\ Own(r)'
    BY <1>1, <1>2, <2>1, StepFrames, StepOwn, FaultFrame
  <2>3. pc[r] # "idle"
    BY <1>2, StepBusy
  <2>4. Contest'
    BY <2>2, <2>3, FrameContest
  <2>5. \A q \in Reqs : Own(q)'
    BY <1>1, <2>2, <2>3, FrameOthers
  <2> QED
    BY <1>1, <2>4, <2>5 DEF AnswerInv
<1>3. ASSUME NEW r \in Reqs, Start(r)
      PROVE  AnswerInv'
  BY <1>3, StartAnswers
<1>4. CASE CleanStart \/ CleanFail
  <2>1. Evolves /\ FlagsStay({}) /\ UNCHANGED reqVars
    BY <1>1, <1>4, SameRowsEvolve DEF CleanStart, CleanFail, storeVars
  <2> QED
    BY <1>1, <2>1, BackgroundAnswers
<1>5. CASE DeleteExpired
  BY <1>1, <1>5, DeleteRowsEvolves, BackgroundAnswers DEF DeleteExpired
<1>6. CASE TimePasses
  BY <1>1, <1>6, SameRowsEvolve, BackgroundAnswers DEF TimePasses, Tick
<1>7. CASE UNCHANGED vars
  BY <1>1, <1>7, SameRowsEvolve, BackgroundAnswers DEF vars, storeVars
<1> QED
  BY <1>2, <1>3, <1>4, <1>5, <1>6, <1>7 DEF Next
LEMMA NextEvolves == TypeOK /\ [Next]_vars => Evolves
<1> SUFFICES ASSUME TypeOK, [Next]_vars PROVE Evolves
  OBVIOUS
<1>1. StoreTypeOK
  BY TypeParts
<1>2. ASSUME UNCHANGED storeVars PROVE Evolves
  BY <1>1, <1>2, SameRowsEvolve DEF storeVars
<1>3. ASSUME NEW r \in Reqs, Start(r) PROVE Evolves
  <2>1. \A op, id, cred, s : Begin(r, op, id, cred, s) => UNCHANGED storeVars
    BY DEF Begin
  <2> QED
    BY <1>2, <1>3, <2>1
    DEF Start, StartIngest, StartPreview, StartGet, StartRaw, StartHead, StartKeep,
        StartUnkeep, StartPreviewToken, StartDelete, StartDeleteMany, BeginPlain
<1>4. ASSUME NEW r \in Reqs, Step(r) \/ Fault(r) PROVE Evolves
  BY <1>2, <1>4, StepFrames DEF Frame, Fault
<1>5. CASE CleanStart \/ DeleteExpired \/ CleanFail
  BY <1>1, <1>2, <1>5, DeleteRowsEvolves DEF CleanStart, DeleteExpired, CleanFail
<1>6. CASE TimePasses
  BY <1>1, <1>6, SameRowsEvolve DEF TimePasses, Tick
<1>7. CASE UNCHANGED vars
  BY <1>2, <1>7 DEF vars
<1> QED
  BY <1>3, <1>4, <1>5, <1>6, <1>7 DEF Next

LEMMA AnswerInvariant == Spec => []AnswerInv
  BY InitAnswers, AnswerStep, PTL DEF Spec
----------------------------------------------------------------------------
(* What the answers mean. *)

(* A preview or keep link refused with 401 is dead, at the answer and for  *)
(* ever after: no statement of any handler brings its token back.          *)
THEOREM RefusedLinksAreDead == Spec => []UnauthorizedMeansDead
<1>1. AnswerInv => UnauthorizedMeansDead
  BY DEF AnswerInv, Own, Told, UnauthorizedMeansDead, At
<1> QED
  BY <1>1, AnswerInvariant, PTL

(* The keep link handed out with a preview token works for as long as the  *)
(* email is there, however many preview tokens are drawn after it.         *)
THEOREM KeepLinksLast == Spec => []KeepLinkLasts
<1>1. AnswerInv => KeepLinkLasts
  BY DEF AnswerInv, Own, Told, KeepLinkLasts, At
<1> QED
  BY <1>1, AnswerInvariant, PTL

(* 404 is never said of an email that was there when the request arrived   *)
(* and is still there, unless a keep and an unkeep of it overlapped.       *)
THEOREM NotFoundIsGone == Spec => []NotFoundMeansGone
<1>1. AnswerInv => NotFoundMeansGone
  BY DEF AnswerInv, Own, Told, NotFoundMeansGone, FalselyNotFound, At
<1> QED
  BY <1>1, AnswerInvariant, PTL

(* 500 means that a statement failed or that the email went away between   *)
(* two statements.                                                         *)
THEOREM InternalErrorIsFault == Spec => []InternalErrorMeansFault
<1>1. AnswerInv => InternalErrorMeansFault
  BY DEF AnswerInv, Own, Told, InternalErrorMeansFault, At
<1> QED
  BY <1>1, AnswerInvariant, PTL

(* The answer to a keep or unkeep nobody contests shows the new flag.      *)
THEOREM AnswersShowTheFlag == Spec => []AnswerShowsFlag
<1>1. AnswerInv => AnswerShowsFlag
  BY DEF AnswerInv, Own, Told, AnswerShowsFlag, At
<1> QED
  BY <1>1, AnswerInvariant, PTL

(* The two reads of GetEmail give the attachments of the row, unless it is *)
(* deleted meanwhile.                                                      *)
THEOREM AttachmentsComplete == Spec => []AttachmentsUnlessDeleted
<1>1. AnswerInv => AttachmentsUnlessDeleted
  BY DEF AnswerInv, Own, Told, AttachmentsUnlessDeleted, At, Reading
<1> QED
  BY <1>1, AnswerInvariant, PTL

(* The time of the first open is never overwritten, by no handler.         *)
THEOREM FirstOpenIsKept == Spec => FirstOpenStays
<1>1. TypeOK /\ [Next]_vars =>
        [\A id \in Live : emails[id].opened # Never /\ id \in Live'
                            => emails'[id].opened = emails[id].opened]_vars
  BY NextEvolves DEF Evolves
<1> QED
  BY <1>1, TypeCorrect, PTL DEF Spec, FirstOpenStays
----------------------------------------------------------------------------
(* The promise: an email a client was told is kept is not deleted by       *)
(* retention.  It is inductive with what keeps it true: the email is not   *)
(* unkept and no unkeep of it is on its way.                               *)

Promised(id) ==
    /\ Issued(id) /\ ~IsUnkept(id) /\ id \notin purged
    /\ \A r \in Reqs : pc[r] # "idle" /\ call[r].op = "unkeep" => Email(r) # id

Confirming(r) ==
    pc[r] \in {"row", "attach"} /\ call[r].op = "keep" /\ ~call[r].contested

PromiseInv ==
    /\ AnswerInv
    /\ \A id \in promised : Promised(id)
    /\ \A id \in purged : Issued(id) /\ id \notin Live
    /\ \A r \in Reqs : Confirming(r) => Email(r) \notin purged

LEMMA InitPromise == Init => PromiseInv
<1> SUFFICES ASSUME Init PROVE PromiseInv
  OBVIOUS
<1>1. promised = {} /\ purged = {} /\ AnswerInv
  BY InitAnswers DEF Init
<1> QED
  BY <1>1 DEF PromiseInv

\* Steps that delete nothing for retention.
LEMMA PromiseFrame ==
  ASSUME PromiseInv, AnswerInv', Evolves, purged' = purged,
         promised' \subseteq promised,
         \A id \in promised' \cap Live \cap Live' :
            emails[id].kept => emails'[id].kept,
         \A q \in Reqs : pc'[q] # "idle" /\ call'[q].op = "unkeep" =>
            \/ call'[q].id \notin promised'
            \/ pc[q] # "idle" /\ call[q].op = "unkeep" /\ call'[q].id = call[q].id,
         \A q \in Reqs : Confirming(q)' =>
            /\ call'[q].id = call[q].id
            /\ Confirming(q) \/ Email(q) \in Live
  PROVE  PromiseInv'
<1>1. TypeOK /\ TypeOK'
  BY DEF PromiseInv, AnswerInv
<1>2. \A id \in Ids : id < nextId => id < nextId' /\ (id \in Live' => id \in Live)
  BY <1>1, IssuedStays DEF Issued
<1>3. promised \subseteq Ids /\ purged \subseteq Ids
  BY <1>1 DEF TypeOK
<1>4. \A id \in promised' : Promised(id)'
  <2> SUFFICES ASSUME NEW id \in promised'
               PROVE  /\ id < nextId' /\ id \notin purged'
                      /\ ~(id \in Live' /\ ~emails'[id].kept)
                      /\ \A r \in Reqs : pc'[r] # "idle" /\ call'[r].op = "unkeep"
                                           => call'[r].id # id
    BY DEF Promised, Issued, IsUnkept, Email
  <2>1. /\ id \in Ids /\ id < nextId /\ id \notin purged
        /\ ~(id \in Live /\ ~emails[id].kept)
        /\ \A r \in Reqs : pc[r] # "idle" /\ call[r].op = "unkeep"
                             => call[r].id # id
    BY <1>3 DEF PromiseInv, Promised, Issued, IsUnkept, Email
  <2>2. id < nextId' /\ id \notin purged'
    BY <1>2, <2>1
  <2>3. ~(id \in Live' /\ ~emails'[id].kept)
    BY <1>2, <2>1, Zenon
  <2>4. ASSUME NEW r \in Reqs, pc'[r] # "idle", call'[r].op = "unkeep"
        PROVE  call'[r].id # id
    BY <2>1, <2>4
  <2> QED
    BY <2>2, <2>3, <2>4
<1>5. \A id \in purged' : Issued(id)' /\ id \notin Live'
  BY <1>2, <1>3 DEF PromiseInv, Issued
<1>6. \A r \in Reqs : Confirming(r)' => Email(r)' \notin purged'
  BY DEF PromiseInv, Email
<1> QED
  BY <1>4, <1>5, <1>6 DEF PromiseInv

\* A keep that goes on to read the email saw its row, or was reading already.
LEMMA KeepReads ==
  ASSUME TypeOK, NEW r \in Reqs, Own(r), Step(r) \/ Fault(r), call[r].op = "keep",
         pc'[r] \in {"row", "attach"}
  PROVE  pc[r] = "row" \/ Email(r) \in Live
<1>1. ReqType /\ Route(r)
  BY TypeParts DEF Own
<1>2. /\ \A s \in Labels : Goto(r, s) => pc'[r] = s
      /\ \A s \in Labels : Continue(r, s) => pc'[r] = s
      /\ \A c \in Codes : Answer(r, c) => pc'[r] = "idle"
  BY <1>1, GotoType, ContinueType, AnswerType
<1>3. "idle" \notin {"row", "attach"}
  OBVIOUS
<1>4. CASE KeepEmail(r)
  <2>1. Email(r) \in Live \/ Continue(r, "keepSel")
    BY <1>4, Zenon DEF KeepEmail, IsUnkept
  <2>2. ~Continue(r, "keepSel")
    BY <1>2, LabelFacts
  <2> QED
    BY <2>1, <2>2
<1>5. CASE KeepEmailSelect(r)
  BY <1>2, <1>5, LabelFacts, SMT DEF KeepEmailSelect, IsKept
<1>6. CASE GetEmailRow(r)
  BY <1>6 DEF GetEmailRow, At
<1>7. CASE ValidKeepOTK(r)
  BY <1>2, <1>7, LabelFacts, SMT DEF ValidKeepOTK
<1>8. CASE AttachmentsFor(r)
  BY <1>2, <1>8, LabelFacts, SMT DEF AttachmentsFor
<1>9. pc[r] \in {"keep", "keepSel", "row", "checkKeep", "attach", "idle"}
  <2>1. pc[r] \in Labels
    BY <1>1 DEF ReqType
  <2> QED
    BY <1>1, <2>1, SMT DEF Route, Labels, Statements, Reading
<1>10. CASE Fault(r)
  <2>1. ~At(r, "openHook")
    BY <1>9, SMT DEF At
  <2>2. pc'[r] = "idle"
    BY <1>2, <1>10, <2>1, LabelFacts DEF Fault
  <2> QED
    BY <2>2
<1>11. CASE Insert(r) \/ EmailReceived(r) \/ ConsumePreviewOTK(r)
            \/ TrackEmailOpen(r) \/ TrackEmailOpenSelect(r) \/ EmailOpened(r)
            \/ EmailExists(r) \/ UnkeepEmail(r) \/ UnkeepEmailSelect(r)
            \/ RegeneratePreviewOTK(r) \/ GetLinkOTKs(r) \/ DeleteEmail(r)
            \/ DeleteEmails(r)
  <2>1. pc[r] \in {"insert", "notify", "consume", "track", "trackSel", "openHook",
                   "exists", "unkeep", "unkeepSel", "regen", "links", "delete",
                   "deleteMany"}
    BY <1>11
    DEF Insert, EmailReceived, ConsumePreviewOTK, TrackEmailOpen,
        TrackEmailOpenSelect, EmailOpened, EmailExists, UnkeepEmail,
        UnkeepEmailSelect, RegeneratePreviewOTK, GetLinkOTKs, DeleteEmail,
        DeleteEmails, At
  <2> QED
    BY <1>9, <2>1, SMT
<1> QED
  BY <1>4, <1>5, <1>6, <1>7, <1>8, <1>10, <1>11 DEF Step
\* What the step of a request does to the histories and to its own reading.
LEMMA StepPromise ==
  ASSUME PromiseInv, AnswerInv', NEW r \in Reqs, Step(r) \/ Fault(r),
         Frame(r), pc[r] # "idle"
  PROVE  PromiseInv'
<1>1. /\ TypeOK /\ TypeOK' /\ Own(r) /\ Evolves /\ CallStays(r) /\ Contest
      /\ Route(r) /\ ReqType
  BY TypeParts DEF PromiseInv, AnswerInv, Frame, Own
<1>2. \A q \in Reqs : /\ pc'[q] # "idle" => pc[q] # "idle"
                      /\ call'[q].op = call[q].op
                      /\ call[q].op \in {"keep", "unkeep"} => call'[q].id = call[q].id
                      /\ call[q].contested => call'[q].contested
  <2> TAKE q \in Reqs
  <2>1. CASE q = r
    <3>1. pc[r] = "insert" => call[r].op = "ingest"
      BY <1>1, SMT DEF Route
    <3> QED
      BY <1>1, <2>1, <3>1, SMT DEF CallStays
  <2>2. CASE q # r
    BY <2>2, SMT DEF Frame, Slot
  <2> QED
    BY <2>1, <2>2
<1>3. \A id \in promised \cap Live \cap Live' : emails[id].kept => emails'[id].kept
  <2> SUFFICES ASSUME NEW id \in promised \cap Live \cap Live',
                      emails[id].kept, ~emails'[id].kept
               PROVE  FALSE
    OBVIOUS
  <2>1. pc[r] = "unkeep" /\ id = Email(r)
    BY Zenon DEF Frame, FlagMove
  <2>2. call[r].op = "unkeep"
    BY <1>1, <2>1, SMT DEF Route
  <2> QED
    BY <2>1, <2>2 DEF PromiseInv, Promised
<1>4. \A q \in Reqs : Confirming(q)' =>
            /\ call'[q].id = call[q].id
            /\ Confirming(q) \/ Email(q) \in Live
  <2> SUFFICES ASSUME NEW q \in Reqs, Confirming(q)'
               PROVE  Confirming(q) \/ Email(q) \in Live
    BY <1>2 DEF Confirming
  <2>1. call[q].op = "keep" /\ ~call[q].contested /\ pc'[q] \in {"row", "attach"}
    BY <1>2 DEF Confirming
  <2>2. CASE q = r
    BY <1>1, <2>1, <2>2, KeepReads DEF Confirming
  <2>3. CASE q # r
    BY <2>1, <2>3 DEF Confirming, Frame, Slot
  <2> QED
    BY <2>2, <2>3
<1>5. \A q \in Reqs : pc'[q] # "idle" /\ call'[q].op = "unkeep" =>
         pc[q] # "idle" /\ call[q].op = "unkeep" /\ call'[q].id = call[q].id
  BY <1>2
<1>6. ASSUME promised' = promised, purged' = purged
      PROVE  PromiseInv'
  BY <1>1, <1>3, <1>4, <1>5, <1>6, PromiseFrame
<1>7. CASE AttachmentsFor(r)
  <2>1. /\ purged' = purged /\ emails' = emails /\ nextId' = nextId /\ Live' = Live
        /\ pc[r] = "attach" /\ Goto(r, "idle") /\ call' = call
        /\ promised' = IF call[r].op = "keep" /\ ~call[r].contested
                         THEN promised \cup {Email(r)}
                         ELSE promised
    BY <1>7 DEF AttachmentsFor, storeVars, At, Live
  <2>2. CASE ~(call[r].op = "keep" /\ ~call[r].contested)
    BY <1>6, <2>1, <2>2
  <2>3. CASE call[r].op = "keep" /\ ~call[r].contested
    <3>1. /\ Issued(Email(r)) /\ ~IsUnkept(Email(r)) /\ Email(r) \notin purged
      BY <1>1, <2>1, <2>3, SMT DEF Own, Seen, Flagged, PromiseInv, Confirming
    <3>2. \A q \in Reqs : pc[q] # "idle" /\ call[q].op = "unkeep"
                            => Email(q) # Email(r)
      BY <1>1, <2>1, <2>3, SMT DEF Contest, Opposite, Email
    <3>3. Promised(Email(r))
      BY <3>1, <3>2 DEF Promised
    <3>4. \A id \in promised' : Promised(id)
      BY <2>1, <2>3, <3>3 DEF PromiseInv
    <3>5. \A id \in promised' : Promised(id)'
      BY <1>2, <2>1, <3>4 DEF Promised, Issued, IsUnkept, Email
    <3>6. \A id \in purged' : Issued(id)' /\ id \notin Live'
      BY <2>1 DEF PromiseInv, Issued
    <3>7. pc'[r] = "idle"
      BY <1>1, <2>1, GotoType, LabelFacts
    <3>8. \A q \in Reqs : Confirming(q)' => Confirming(q)
      BY <2>1, <3>7 DEF Confirming, Frame, Slot
    <3>9. \A q \in Reqs : Confirming(q)' => Email(q)' \notin purged'
      BY <2>1, <3>8 DEF PromiseInv, Email
    <3> QED
      BY <3>5, <3>6, <3>9 DEF PromiseInv
  <2> QED
    BY <2>2, <2>3
<1>8. CASE EmailReceived(r) \/ EmailOpened(r)
  BY <1>6, <1>8 DEF EmailReceived, EmailOpened, history
<1>9. CASE Aside
  BY <1>6, <1>9 DEF Aside, history
<1>10. AttachmentsFor(r) \/ EmailReceived(r) \/ EmailOpened(r) \/ Aside
  BY Zenon
  DEF Step, Fault, Insert, ConsumePreviewOTK, ValidKeepOTK, TrackEmailOpen,
      TrackEmailOpenSelect, GetEmailRow, EmailExists, KeepEmail, KeepEmailSelect,
      UnkeepEmail, UnkeepEmailSelect, RegeneratePreviewOTK, GetLinkOTKs,
      DeleteEmail, DeleteEmails
<1> QED
  BY <1>7, <1>8, <1>9, <1>10

\* A request arrives: it confirms nothing, and an unkeep withdraws the promise.
LEMMA BeginPromise ==
  ASSUME PromiseInv, AnswerInv', NEW r \in Reqs, NEW op \in AllOps, NEW id \in Ids,
         NEW cred \in Creds, NEW s \in Labels, Begin(r, op, id, cred, s),
         s \in {"row", "attach"} => op # "keep",
         promised' \subseteq promised,
         op = "unkeep" => id \notin promised'
  PROVE  PromiseInv'
<1>1. TypeOK /\ StoreTypeOK /\ ReqType
  BY TypeParts DEF PromiseInv, AnswerInv
<1>2. /\ pc'[r] = s /\ \A q \in Reqs \ {r} : pc'[q] = pc[q]
      /\ call'[r].op = op /\ call'[r].id = id
      /\ \A q \in Reqs \ {r} : /\ call'[q].op = call[q].op
                               /\ call'[q].id = call[q].id
                               /\ call[q].contested => call'[q].contested
      /\ purged' = purged
  BY <1>1, BeginType
<1>3. Evolves /\ emails' = emails
  BY <1>1, SameRowsEvolve DEF Begin, storeVars
<1>4. \A q \in Reqs : pc'[q] # "idle" /\ call'[q].op = "unkeep" =>
            \/ call'[q].id \notin promised'
            \/ pc[q] # "idle" /\ call[q].op = "unkeep" /\ call'[q].id = call[q].id
  BY <1>2
<1>5. \A q \in Reqs : Confirming(q)' => call'[q].id = call[q].id /\ Confirming(q)
  BY <1>2 DEF Confirming
<1> QED
  BY <1>2, <1>3, <1>4, <1>5, PromiseFrame
LEMMA PromiseStep == PromiseInv /\ [Next]_vars => PromiseInv'
<1> SUFFICES ASSUME PromiseInv, [Next]_vars PROVE PromiseInv'
  OBVIOUS
<1>1. /\ AnswerInv /\ AnswerInv' /\ TypeOK /\ TypeOK' /\ StoreTypeOK
      /\ promised \subseteq Ids
  BY AnswerStep, TypeParts DEF PromiseInv, AnswerInv, TypeOK
<1>2. ASSUME NEW r \in Reqs, Step(r) \/ Fault(r)
      PROVE  PromiseInv'
  <2>1. Own(r)
    BY <1>1 DEF AnswerInv
  <2>2. Frame(r) /\ pc[r] # "idle"
    BY <1>1, <1>2, <2>1, StepFrames, FaultFrame, StepBusy
  <2> QED
    BY <1>1, <1>2, <2>2, StepPromise
<1>3. ASSUME NEW r \in Reqs, Start(r)
      PROVE  PromiseInv'
  <2>1. PICK op \in AllOps, id \in Ids, cred \in Creds, s \in Labels :
          Begins(r, op, id, cred, s)
    BY <1>1, <1>3, StartBegins
  <2>2. /\ promised' \subseteq promised
        /\ op = "unkeep" => id \notin promised'
        /\ Begin(r, op, id, cred, s)
    BY <2>1 DEF Begins
  <2>3. s \in {"row", "attach"} => op # "keep"
    BY <2>1, SMT DEF Begins, First, Reading
  <2> QED
    BY <1>1, <2>2, <2>3, BeginPromise
<1>4. ASSUME UNCHANGED reqVars, Evolves, FlagsStay({}), purged' = purged,
             promised' = promised
      PROVE  PromiseInv'
  <2>1. \A id \in promised' \cap Live \cap Live' :
          emails[id].kept => emails'[id].kept
    BY <1>4 DEF FlagsStay
  <2>2. \A q \in Reqs : Confirming(q)' => Confirming(q) /\ call'[q].id = call[q].id
    BY <1>4 DEF Confirming, reqVars
  <2> QED
    BY <1>1, <1>4, <2>1, <2>2, PromiseFrame DEF reqVars
<1>5. CASE CleanStart \/ CleanFail
  <2>1. UNCHANGED reqVars /\ purged' = purged /\ promised' = promised
        /\ UNCHANGED <<emails, nextId, nextTok>>
    BY <1>5 DEF CleanStart, CleanFail, storeVars, history
  <2> QED
    BY <1>1, <1>4, <2>1, SameRowsEvolve
<1>6. CASE DeleteExpired
  <2> DEFINE gone == Expired(cutoff)
  <2>1. /\ UNCHANGED reqVars /\ promised' = promised /\ purged' = purged \cup gone
        /\ DeleteRows(gone)
    BY <1>6 DEF DeleteExpired
  <2>2. gone \subseteq Live /\ \A id \in gone : IsUnkept(id)
    BY DEF Expired, IsUnkept
  <2> HIDE DEF gone
  <2>3. /\ Live' = Live \ gone /\ nextId' = nextId
        /\ \A id \in Live' : emails'[id] = emails[id]
    BY <1>1, <2>1, DeleteRowsType DEF DeleteRows
  <2>4. \A id \in promised' : Promised(id)'
    <3> SUFFICES ASSUME NEW id \in promised PROVE Promised(id)'
      BY <2>1
    <3>1. Promised(id)
      BY DEF PromiseInv
    <3>2. id \notin gone
      BY <2>2, <3>1 DEF Promised
    <3>3. ~IsUnkept(id)'
      BY <2>3, <3>1 DEF Promised, IsUnkept
    <3> QED
      BY <2>1, <2>3, <3>1, <3>2, <3>3 DEF Promised, Issued, Email, reqVars
  <2>5. \A id \in purged' : Issued(id)' /\ id \notin Live'
    BY <1>1, <2>1, <2>2, <2>3 DEF PromiseInv, Issued, StoreTypeOK
  <2>6. \A r \in Reqs : Confirming(r)' => Email(r)' \notin purged'
    <3> SUFFICES ASSUME NEW r \in Reqs, Confirming(r)'
                 PROVE  Email(r) \notin purged \cup gone
      BY <2>1 DEF Email, reqVars
    <3>1. Confirming(r)
      BY <2>1 DEF Confirming, reqVars
    <3>2. ~IsUnkept(Email(r))
      BY <1>1, <3>1, SMT DEF AnswerInv, Own, Flagged, Confirming
    <3> QED
      BY <2>2, <3>1, <3>2 DEF PromiseInv
  <2> QED
    BY <1>1, <2>4, <2>5, <2>6 DEF PromiseInv
<1>7. CASE TimePasses
  BY <1>1, <1>4, <1>7, SameRowsEvolve DEF TimePasses, Tick, history
<1>8. CASE UNCHANGED vars
  BY <1>1, <1>4, <1>8, SameRowsEvolve DEF vars, storeVars, history
<1> QED
  BY <1>2, <1>3, <1>5, <1>6, <1>7, <1>8 DEF Next

(* Retention never deletes an email that a client was told is kept and     *)
(* that nobody asked to unkeep since, whatever the cleaner's cutoff and    *)
(* however long its DELETE waits for the connection.                       *)
THEOREM PromiseKept == Spec => []PromiseHonoured
<1>1. PromiseInv => PromiseHonoured
  BY DEF PromiseInv, Promised, PromiseHonoured
<1> QED
  BY <1>1, InitPromise, PromiseStep, PTL DEF Spec
----------------------------------------------------------------------------
(* The webhook events: who is about to report an event is the only one,    *)
(* and nobody has reported it yet.                                         *)

Counted(id) ==
    /\ events[id].received <= 1
    /\ events[id].opened <= 1
    /\ ~Issued(id) \/ Unopened(id) => events[id].opened = 0
    /\ ~Issued(id) => events[id].received = 0

EventInv ==
    /\ AnswerInv
    /\ \A id \in Ids : Counted(id)
    /\ \A r \in Reqs : pc[r] = "notify" => events[Email(r)].received = 0
    /\ \A r \in Reqs : pc[r] = "openHook" => events[Email(r)].opened = 0
    /\ \A r, s \in Reqs : r # s /\ pc[r] = pc[s] /\ pc[r] \in {"notify", "openHook"}
                            => Email(r) # Email(s)

LEMMA InitEvents == Init => EventInv
<1> SUFFICES ASSUME Init PROVE EventInv
  OBVIOUS
<1>1. AnswerInv
  BY InitAnswers
<1>2. \A id \in Ids : events[id].received = 0 /\ events[id].opened = 0
  BY DEF Init
<1>3. \A id \in Ids : Counted(id)
  BY <1>2, SMT DEF Counted
<1>4. \A r \in Reqs : pc[r] # "notify" /\ pc[r] # "openHook"
  BY DEF Init
<1> QED
  BY <1>1, <1>3, <1>4 DEF EventInv

\* A row that is unopened after a step was unopened, or was not there.
LEMMA CountedStays ==
  ASSUME TypeOK, TypeOK', Evolves, NEW id \in Ids, Counted(id),
         events'[id] = events[id]
  PROVE  Counted(id)'
<1>1. ~(id < nextId') => ~(id < nextId)
  BY BoundsAssumption, SMT DEF TypeOK, StoreTypeOK, Evolves, Ids
<1>2. id \in Live' /\ emails'[id].opened = Never
        => ~(id < nextId) \/ (id \in Live /\ emails[id].opened = Never)
  <2>1. id < nextId => ~(id >= nextId)
    BY BoundsAssumption, SMT DEF TypeOK, StoreTypeOK, Ids
  <2> QED
    BY <2>1 DEF Evolves
<1> QED
  BY <1>1, <1>2 DEF Counted, Issued, Unopened

LEMMA EventFrame ==
  ASSUME EventInv, AnswerInv', Evolves, events' = events,
         \A q \in Reqs : pc'[q] \in {"notify", "openHook"} =>
            pc[q] = pc'[q] /\ call'[q].id = call[q].id
  PROVE  EventInv'
<1>1. TypeOK /\ TypeOK'
  BY DEF EventInv, AnswerInv
<1>2. \A id \in Ids : Counted(id)'
  BY <1>1, CountedStays DEF EventInv
<1> QED
  BY <1>2 DEF EventInv, Email

\* Only two statements are followed by an event.
LEMMA HookEntry ==
  ASSUME TypeOK, NEW r \in Reqs, Step(r) \/ Fault(r), pc'[r] \in {"notify", "openHook"}
  PROVE  Insert(r) \/ (TrackEmailOpen(r) /\ Unopened(Email(r)))
<1>1. ReqType
  BY TypeParts
<1>2. /\ \A s \in Labels : Goto(r, s) => pc'[r] = s
      /\ \A s \in Labels : Continue(r, s) => pc'[r] = s
      /\ \A c \in Codes : Answer(r, c) => pc'[r] = "idle"
  BY <1>1, GotoType, ContinueType, AnswerType
<1>3. \A s \in {"idle", "track", "trackSel", "row", "attach", "keep", "keepSel",
                "unkeepSel", "links"} :
        s \notin {"notify", "openHook"} /\ s \in Labels
  BY LabelFacts, SMT
<1>4. \A s \in {"track", "trackSel", "row", "attach", "keep", "keepSel", "unkeepSel",
                "links"} : ~Continue(r, s) /\ ~Goto(r, s)
  BY <1>2, <1>3
<1>5. \A c \in Codes : ~Answer(r, c)
  BY <1>2, <1>3
<1>6. ~Goto(r, "idle")
  BY <1>2, <1>3
<1>7. ~EmailReceived(r) /\ ~EmailExists(r) /\ ~DeleteEmail(r) /\ ~DeleteEmails(r)
  BY <1>5, LabelFacts DEF EmailReceived, EmailExists, DeleteEmail, DeleteEmails
<1>8. ~ConsumePreviewOTK(r) /\ ~ValidKeepOTK(r)
  BY <1>4, <1>5, LabelFacts DEF ConsumePreviewOTK, ValidKeepOTK
<1>9. ~TrackEmailOpenSelect(r) /\ ~EmailOpened(r) /\ ~GetEmailRow(r)
  BY <1>4, <1>5, LabelFacts DEF TrackEmailOpenSelect, EmailOpened, GetEmailRow
<1>10. ~AttachmentsFor(r) /\ ~GetLinkOTKs(r)
  BY <1>6 DEF AttachmentsFor, GetLinkOTKs
<1>11. ~KeepEmail(r) /\ ~KeepEmailSelect(r)
  BY <1>4, <1>5, KeepControl, LabelFacts
<1>12. ~UnkeepEmail(r) /\ ~UnkeepEmailSelect(r)
  BY <1>4, <1>5, KeepControl, LabelFacts
<1>13. ~RegeneratePreviewOTK(r)
  BY <1>4, <1>5, LabelFacts DEF RegeneratePreviewOTK
<1>14. ~Fault(r)
  <2>1. Fault(r) => Goto(r, "row") \/ Goto(r, "idle")
    BY DEF Fault
  <2> QED
    BY <1>4, <1>6, <2>1
<1>15. TrackEmailOpen(r) => Unopened(Email(r))
  BY <1>4, Zenon DEF TrackEmailOpen
<1> QED
  BY <1>7, <1>8, <1>9, <1>10, <1>11, <1>12, <1>13, <1>14, <1>15, Zenon DEF Step

LEMMA StepEvents ==
  ASSUME EventInv, AnswerInv', NEW r \in Reqs, Step(r) \/ Fault(r), Frame(r)
  PROVE  EventInv'
<1>1. /\ TypeOK /\ TypeOK' /\ Own(r) /\ Evolves /\ ReqType /\ StoreTypeOK
      /\ Seen(r) /\ Route(r)
  BY TypeParts DEF EventInv, AnswerInv, Own, Frame
<1>2. \A q \in Reqs \ {r} : pc'[q] = pc[q] /\ call'[q].id = call[q].id
  BY DEF Frame, Slot
<1>3. \A q \in Reqs : Email(q) \in Ids /\ Seen(q)
  BY <1>1, SMT DEF ReqType, Call, Email, EventInv, AnswerInv, Own
<1>4. \A q \in Reqs : /\ pc[q] = "notify" => Email(q) < nextId
                      /\ pc[q] = "openHook" => Email(q) < nextId /\ ~Unopened(Email(q))
  BY <1>3, SMT DEF Seen, Issued
<1>5. CASE Insert(r)
  <2>1. /\ Goto(r, "notify") /\ call' = [call EXCEPT ![r].id = nextId]
        /\ events' = events /\ nextId \in Ids
    BY <1>5 DEF Insert, Aside, InsertRow
  <2>2. pc'[r] = "notify" /\ call'[r].id = nextId
    BY <1>1, <2>1, GotoType, LabelFacts DEF ReqType, Call
  <2>3. ~(nextId < nextId)
    BY <1>1, CountersNat
  <2>4. events[nextId].received = 0
    BY <2>1, <2>3 DEF EventInv, Counted, Issued
  <2>5. \A id \in Ids : Counted(id)'
    BY <1>1, <2>1, CountedStays DEF EventInv
  <2>6. \A q \in Reqs \ {r} : pc[q] = "notify" => Email(q) # nextId
    BY <1>4, <2>3
  <2>7. \A q \in Reqs : pc'[q] = "notify" => events'[call'[q].id].received = 0
    BY <1>2, <2>1, <2>2, <2>4 DEF EventInv, Email
  <2>8. \A q \in Reqs : pc'[q] = "openHook" => events'[call'[q].id].opened = 0
    BY <1>2, <2>1, <2>2 DEF EventInv, Email
  <2>9. \A q, s \in Reqs : q # s /\ pc'[q] = pc'[s] /\ pc'[q] \in {"notify", "openHook"}
                             => call'[q].id # call'[s].id
    BY <1>2, <2>2, <2>6 DEF EventInv, Email
  <2> QED
    BY <2>5, <2>7, <2>8, <2>9 DEF EventInv, Email
<1>6. CASE TrackEmailOpen(r) /\ Unopened(Email(r))
  <2>1. Continue(r, "openHook") /\ events' = events
    BY <1>6, Zenon DEF TrackEmailOpen, Aside
  <2>2. pc'[r] = "openHook" /\ call' = call
    BY <1>1, <2>1, ContinueType, LabelFacts
  <2>3. events[Email(r)].opened = 0
    BY <1>3, <1>6 DEF EventInv, Counted
  <2>4. \A id \in Ids : Counted(id)'
    BY <1>1, <2>1, CountedStays DEF EventInv
  <2>5. \A q \in Reqs \ {r} : pc[q] = "openHook" => Email(q) # Email(r)
    BY <1>4, <1>6
  <2>6. \A q \in Reqs : pc'[q] = "notify" => events'[call'[q].id].received = 0
    BY <1>2, <2>1, <2>2 DEF EventInv, Email
  <2>7. \A q \in Reqs : pc'[q] = "openHook" => events'[call'[q].id].opened = 0
    BY <1>2, <2>1, <2>2, <2>3 DEF EventInv, Email
  <2>8. \A q, s \in Reqs : q # s /\ pc'[q] = pc'[s] /\ pc'[q] \in {"notify", "openHook"}
                             => call'[q].id # call'[s].id
    BY <1>2, <2>2, <2>5 DEF EventInv, Email
  <2> QED
    BY <2>4, <2>6, <2>7, <2>8 DEF EventInv, Email
<1>7. ASSUME pc'[r] \notin {"notify", "openHook"}, events' = events
      PROVE  EventInv'
  <2>1. \A q \in Reqs : pc'[q] \in {"notify", "openHook"} =>
          pc[q] = pc'[q] /\ call'[q].id = call[q].id
    BY <1>2, <1>7
  <2> QED
    BY <1>1, <1>7, <2>1, EventFrame
\* The event is counted for the one request that was to report it.
<1>8. ASSUME pc'[r] \notin {"notify", "openHook"}, call' = call,
             \A id \in Ids \ {Email(r)} : events'[id] = events[id],
             Counted(Email(r))',
             \A q \in Reqs \ {r} : Email(q) = Email(r) =>
                /\ pc[q] = "notify" => events'[Email(r)].received = 0
                /\ pc[q] = "openHook" => events'[Email(r)].opened = 0
      PROVE  EventInv'
  <2>1. \A id \in Ids : Counted(id)'
    <3> SUFFICES ASSUME NEW id \in Ids PROVE Counted(id)'
      OBVIOUS
    <3>1. CASE id = Email(r)
      <4>1. Email(r)' = Email(r)
        BY <1>8 DEF Email
      <4> QED
        BY <1>8, <3>1, <4>1 DEF Counted, Issued, Unopened
    <3>2. CASE id # Email(r)
      BY <1>1, <1>8, <3>2, CountedStays DEF EventInv
    <3> QED
      BY <3>1, <3>2
  <2>2. \A q \in Reqs : pc'[q] = "notify" => events'[call'[q].id].received = 0
    BY <1>2, <1>3, <1>8 DEF EventInv, Email
  <2>3. \A q \in Reqs : pc'[q] = "openHook" => events'[call'[q].id].opened = 0
    BY <1>2, <1>3, <1>8 DEF EventInv, Email
  <2>4. \A q, s \in Reqs : q # s /\ pc'[q] = pc'[s] /\ pc'[q] \in {"notify", "openHook"}
                             => call'[q].id # call'[s].id
    BY <1>2, <1>8 DEF EventInv, Email
  <2> QED
    BY <2>1, <2>2, <2>3, <2>4 DEF EventInv, Email
<1>9. CASE EmailReceived(r)
  <2>1. /\ pc[r] = "notify" /\ Answer(r, 201) /\ UNCHANGED storeVars
        /\ events' = [events EXCEPT ![Email(r)].received = @ + 1]
    BY <1>9 DEF EmailReceived, At
  <2>2. pc'[r] = "idle" /\ call' = call
    BY <1>1, <2>1, AnswerType, LabelFacts
  <2>3. /\ events[Email(r)].received = 0 /\ Email(r) < nextId /\ Counted(Email(r))
        /\ Email(r) \in Ids
    BY <1>3, <1>4, <2>1 DEF EventInv
  <2>4. /\ events'[Email(r)].received = 1
        /\ events'[Email(r)].opened = events[Email(r)].opened
        /\ \A id \in Ids \ {Email(r)} : events'[id] = events[id]
    BY <1>1, <2>1, <2>3, SMT DEF TypeOK
  <2>5. nextId' = nextId /\ emails' = emails /\ Live' = Live
    BY <2>1 DEF storeVars, Live
  <2>6. Counted(Email(r))'
    BY <2>2, <2>3, <2>4, <2>5, SMT DEF Counted, Issued, Unopened, Email
  <2>7. \A q \in Reqs \ {r} : Email(q) = Email(r) =>
                /\ pc[q] = "notify" => events'[Email(r)].received = 0
                /\ pc[q] = "openHook" => events'[Email(r)].opened = 0
    BY <2>1, <2>4 DEF EventInv
  <2> QED
    BY <1>8, <2>2, <2>4, <2>6, <2>7
<1>10. CASE EmailOpened(r)
  <2>1. pc[r] = "openHook" /\ Continue(r, "row") /\ UNCHANGED storeVars
    BY <1>10 DEF EmailOpened, At
  <2>2. pc'[r] = "row" /\ call' = call
    BY <1>1, <2>1, ContinueType, LabelFacts
  <2>3. CASE events' = events
    BY <1>7, <2>2, <2>3
  <2>4. CASE /\ Email(r) \in Live /\ ~Unopened(Email(r))
             /\ events' = [events EXCEPT ![Email(r)].opened = @ + 1]
    <3>1. /\ events[Email(r)].opened = 0 /\ Email(r) < nextId /\ Counted(Email(r))
          /\ Email(r) \in Ids
      BY <1>3, <1>4, <2>1 DEF EventInv
    <3>2. /\ events'[Email(r)].opened = 1
          /\ events'[Email(r)].received = events[Email(r)].received
          /\ \A id \in Ids \ {Email(r)} : events'[id] = events[id]
      BY <1>1, <2>4, <3>1, SMT DEF TypeOK
    <3>3. nextId' = nextId /\ emails' = emails /\ Live' = Live
      BY <2>1 DEF storeVars, Live
    <3>4. Counted(Email(r))'
      BY <2>2, <2>4, <3>1, <3>2, <3>3, SMT DEF Counted, Issued, Unopened, Email
    <3>5. \A q \in Reqs \ {r} : Email(q) = Email(r) =>
                /\ pc[q] = "notify" => events'[Email(r)].received = 0
                /\ pc[q] = "openHook" => events'[Email(r)].opened = 0
      BY <2>1, <3>2 DEF EventInv
    <3> QED
      BY <1>8, <2>2, <3>2, <3>4, <3>5
  <2> QED
    BY <1>10, <2>3, <2>4, Zenon DEF EmailOpened
<1>11. CASE ~EmailReceived(r) /\ ~EmailOpened(r)
  <2>1. events' = events
    BY <1>11, Zenon
    DEF Step, Fault, Aside, Insert, ConsumePreviewOTK, ValidKeepOTK, TrackEmailOpen,
        TrackEmailOpenSelect, GetEmailRow, AttachmentsFor, EmailExists, KeepEmail,
        KeepEmailSelect, UnkeepEmail, UnkeepEmailSelect, RegeneratePreviewOTK,
        GetLinkOTKs, DeleteEmail, DeleteEmails
  <2>2. CASE pc'[r] \in {"notify", "openHook"}
    BY <1>1, <1>5, <1>6, <2>2, HookEntry
  <2>3. CASE pc'[r] \notin {"notify", "openHook"}
    BY <1>7, <2>1, <2>3
  <2> QED
    BY <2>2, <2>3
<1> QED
  BY <1>9, <1>10, <1>11

LEMMA EventStep == EventInv /\ [Next]_vars => EventInv'
<1> SUFFICES ASSUME EventInv, [Next]_vars PROVE EventInv'
  OBVIOUS
<1>1. AnswerInv /\ AnswerInv' /\ TypeOK /\ TypeOK' /\ StoreTypeOK /\ ReqType /\ Evolves
  BY AnswerStep, NextEvolves, TypeParts DEF EventInv, AnswerInv
<1>2. ASSUME NEW r \in Reqs, Step(r) \/ Fault(r)
      PROVE  EventInv'
  <2>1. Own(r)
    BY <1>1 DEF AnswerInv
  <2>2. Frame(r)
    BY <1>1, <1>2, <2>1, StepFrames, FaultFrame
  <2> QED
    BY <1>1, <1>2, <2>2, StepEvents
<1>3. ASSUME NEW r \in Reqs, Start(r)
      PROVE  EventInv'
  <2>1. PICK op \in AllOps, id \in Ids, cred \in Creds, s \in Labels :
          Begins(r, op, id, cred, s)
    BY <1>1, <1>3, StartBegins
  <2>2. /\ pc'[r] = s /\ events' = events
        /\ \A q \in Reqs \ {r} : pc'[q] = pc[q] /\ call'[q].id = call[q].id
    BY <1>1, <2>1, BeginType DEF Begins
  <2>3. s \notin {"notify", "openHook"}
    BY <2>1, SMT DEF Begins, First, Reading
  <2> QED
    BY <1>1, <2>2, <2>3, EventFrame
<1>4. ASSUME UNCHANGED reqVars, events' = events
      PROVE  EventInv'
  BY <1>1, <1>4, EventFrame DEF reqVars
<1>5. CASE CleanStart \/ DeleteExpired \/ CleanFail
  BY <1>4, <1>5 DEF CleanStart, DeleteExpired, CleanFail
<1>6. CASE TimePasses
  BY <1>4, <1>6 DEF TimePasses
<1>7. CASE UNCHANGED vars
  BY <1>4, <1>7 DEF vars
<1> QED
  BY <1>2, <1>3, <1>5, <1>6, <1>7 DEF Next

(* The arrival and the first open of an email are each reported at most    *)
(* once, for any number of requests that open it at the same time.         *)
THEOREM EventsReportedOnce == Spec => []EventsOnce
<1>1. EventInv => EventsOnce
  <2> SUFFICES ASSUME EventInv, NEW id \in Ids
               PROVE  /\ events[id].received <= 1
                      /\ events[id].opened <= 1
                      /\ events[id].opened = 1 => ~Unopened(id)
    BY DEF EventsOnce
  <2>1. Counted(id)
    BY DEF EventInv
  <2> QED
    BY <2>1, SMT DEF Counted
<1> QED
  BY <1>1, InitEvents, EventStep, PTL DEF Spec
----------------------------------------------------------------------------
(* OneTimeLinks: every step moves each preview token along its one way.    *)

\* A request in flight has taken token t.
Taken(t) == \E r \in Reqs : Entitled(r) /\ call[r].cred = t

\* What a step may do to tokens: only new ones enter the table, a claim is
\* taken from the table, and only a claim is shown.
TokenMoves ==
    /\ nextTok' >= nextTok
    /\ \A t \in TableTokens' : t \in TableTokens \/ t >= nextTok
    /\ \A t \in Toks : served'[t] = served[t] \/ (Taken(t) /\ served'[t] > 0)
    /\ \A r \in Reqs : Entitled(r)' =>
         /\ call'[r].cred = call[r].cred
         /\ Entitled(r) \/ call[r].cred \in TableTokens

\* How a handler comes to the statements of a view.
LEMMA ViewEntry ==
  ASSUME TypeOK, NEW r \in Reqs, Step(r) \/ Fault(r), pc'[r] \in ViewSteps
  PROVE  \/ pc[r] \in ViewSteps \cup KeepSteps
         \/ ConsumePreviewOTK(r) /\ HoldsPreview(Email(r), call[r].cred)
<1>1. ReqType
  BY TypeParts
<1>2. /\ \A s \in Labels : Goto(r, s) => pc'[r] = s
      /\ \A s \in Labels : Continue(r, s) => pc'[r] = s
      /\ \A c \in Codes : Answer(r, c) => pc'[r] = "idle"
  BY <1>1, GotoType, ContinueType, AnswerType
<1>3. "idle" \notin ViewSteps /\ "notify" \notin ViewSteps /\ "links" \notin ViewSteps
  BY SMT DEF ViewSteps
<1>4. /\ ~Goto(r, "idle") /\ ~Goto(r, "notify") /\ ~Continue(r, "links")
      /\ \A c \in Codes : ~Answer(r, c)
  BY <1>2, <1>3, LabelFacts
<1>5. ~Insert(r)
  BY <1>4 DEF Insert
<1>6. ~EmailReceived(r) /\ ~EmailExists(r) /\ ~DeleteEmail(r) /\ ~DeleteEmails(r)
  BY <1>4, LabelFacts DEF EmailReceived, EmailExists, DeleteEmail, DeleteEmails
<1>7. ~RegeneratePreviewOTK(r) /\ ~GetLinkOTKs(r)
  BY <1>4, LabelFacts DEF RegeneratePreviewOTK, GetLinkOTKs
<1>8. ConsumePreviewOTK(r) => HoldsPreview(Email(r), call[r].cred)
  BY <1>4, LabelFacts DEF ConsumePreviewOTK
<1>9. Fault(r) => pc[r] = "openHook"
  <2>1. Fault(r) => At(r, "openHook") \/ Goto(r, "idle")
    BY DEF Fault
  <2> QED
    BY <1>4, <2>1 DEF At
<1>10. /\ ViewSteps = {"track", "trackSel", "openHook", "row", "attach"}
       /\ KeepSteps = {"checkKeep", "keep", "keepSel", "unkeep", "unkeepSel"}
  BY DEF ViewSteps, KeepSteps
<1>11. CASE Fault(r)
  BY <1>9, <1>10, <1>11
<1>12. CASE TrackEmailOpen(r) \/ TrackEmailOpenSelect(r) \/ EmailOpened(r)
            \/ GetEmailRow(r) \/ AttachmentsFor(r)
  BY <1>10, <1>12
  DEF TrackEmailOpen, TrackEmailOpenSelect, EmailOpened, GetEmailRow,
      AttachmentsFor, At
<1>13. CASE ValidKeepOTK(r) \/ KeepEmail(r) \/ KeepEmailSelect(r)
            \/ UnkeepEmail(r) \/ UnkeepEmailSelect(r)
  BY <1>10, <1>13
  DEF ValidKeepOTK, KeepEmail, KeepEmailSelect, UnkeepEmail, UnkeepEmailSelect, At
<1> QED
  BY <1>5, <1>6, <1>7, <1>8, <1>11, <1>12, <1>13, Zenon DEF Step

LEMMA StepMoves ==
  ASSUME TokenInv, NEW r \in Reqs, Step(r) \/ Fault(r), Frame(r)
  PROVE  /\ \A t \in Toks : served'[t] = served[t] \/ (Taken(t) /\ served'[t] > 0)
         /\ \A q \in Reqs : Entitled(q)' =>
              /\ call'[q].cred = call[q].cred
              /\ Entitled(q) \/ call[q].cred \in TableTokens
<1>1. TypeOK /\ CallStays(r)
  BY DEF TokenInv, Frame
<1>2. ASSUME NEW q \in Reqs, Entitled(q)'
      PROVE  /\ call'[q].cred = call[q].cred
             /\ Entitled(q) \/ call[q].cred \in TableTokens
  <2>1. CASE q # r
    BY <1>2, <2>1 DEF Frame, Slot, Entitled, ByLink
  <2>2. CASE q = r
    <3>1. /\ call[r].op = "preview" /\ ByLink(r) /\ pc'[r] \in ViewSteps
          /\ call'[r].cred = call[r].cred
      BY <1>1, <1>2, <2>2 DEF CallStays, Entitled, ByLink, ViewSteps
    <3>2. CASE pc[r] \in ViewSteps \cup KeepSteps
      <4>1. pc[r] \in ViewSteps
        BY <3>1, <3>2 DEF TokenInv, KeepRoute
      <4> QED
        BY <2>2, <3>1, <4>1 DEF Entitled, ViewSteps
    <3>3. CASE HoldsPreview(Email(r), call[r].cred)
      <4>1. call[r].cred # Null
        BY <3>1 DEF ByLink, ApiKey, Null
      <4> QED
        BY <2>2, <3>1, <3>3, <4>1 DEF HoldsPreview, TableTokens
    <3> QED
      BY <1>1, <3>1, <3>2, <3>3, ViewEntry
  <2> QED
    BY <2>1, <2>2
<1>3. ASSUME NEW t \in Toks
      PROVE  served'[t] = served[t] \/ (Taken(t) /\ served'[t] > 0)
  <2>1. CASE AttachmentsFor(r) /\ call[r].op = "preview" /\ ByLink(r)
    <3> DEFINE tok == call[r].cred
    <3>1. tok \in Toks
      BY <1>1, <2>1, TokenTypes DEF ByLink
    <3>2. served' = [served EXCEPT ![tok] = @ + 1]
      BY <2>1 DEF AttachmentsFor
    <3>3. Taken(tok)
      <4>1. pc[r] = "attach"
        BY <2>1 DEF AttachmentsFor, At
      <4> QED
        BY <2>1, <4>1, SMT DEF Taken, Entitled
    <3> HIDE DEF tok
    <3>4. served'[tok] > 0 /\ \A u \in Toks \ {tok} : served'[u] = served[u]
      BY <1>1, <3>1, <3>2, TokenTypes, SMT
    <3> QED
      BY <3>3, <3>4
  <2>2. CASE ~(AttachmentsFor(r) /\ call[r].op = "preview" /\ ByLink(r))
    <3>1. served' = served
      BY <2>2, Zenon
      DEF Step, Fault, Aside, history, Insert, EmailReceived, ConsumePreviewOTK,
          ValidKeepOTK, TrackEmailOpen, TrackEmailOpenSelect, EmailOpened,
          GetEmailRow, AttachmentsFor, EmailExists, KeepEmail, KeepEmailSelect,
          UnkeepEmail, UnkeepEmailSelect, RegeneratePreviewOTK, GetLinkOTKs,
          DeleteEmail, DeleteEmails
    <3> QED
      BY <3>1
  <2> QED
    BY <2>1, <2>2
<1> QED
  BY <1>2, <1>3

LEMMA NextMoves == TokenInv /\ [Next]_vars => TokenMoves
<1> SUFFICES ASSUME TokenInv, [Next]_vars PROVE TokenMoves
  OBVIOUS
<1>1. TypeOK /\ StoreTypeOK /\ ReqType /\ Evolves
  BY NextEvolves, TypeParts DEF TokenInv
<1>2. \A t \in TableTokens' : t \in TableTokens \/ t >= nextTok
  <2> SUFFICES ASSUME NEW id \in Live', emails'[id].preview # Null
               PROVE  emails'[id].preview \in TableTokens
                        \/ emails'[id].preview >= nextTok
    BY DEF TableTokens
  <2>1. CASE id \in Live
    BY <1>1, <2>1 DEF Evolves, TableTokens
  <2>2. CASE id \notin Live
    BY <1>1, <2>2 DEF Evolves
  <2> QED
    BY <2>1, <2>2
<1>3. ASSUME \A t \in Toks : served'[t] = served[t] \/ (Taken(t) /\ served'[t] > 0),
             \A q \in Reqs : Entitled(q)' =>
               /\ call'[q].cred = call[q].cred
               /\ Entitled(q) \/ call[q].cred \in TableTokens
      PROVE  TokenMoves
  BY <1>1, <1>2, <1>3 DEF TokenMoves, Evolves
<1>4. ASSUME NEW r \in Reqs, Step(r) PROVE TokenMoves
  BY <1>1, <1>3, <1>4, StepFrames, StepMoves
<1>5. ASSUME NEW r \in Reqs, Fault(r) PROVE TokenMoves
  <2>1. /\ call' = [call EXCEPT ![r].fault = TRUE] /\ served' = served
        /\ \/ pc[r] = "openHook" /\ Goto(r, "row")
           \/ Goto(r, "idle")
    BY <1>5 DEF Fault, At, Aside, history
  <2>2. \A q \in Reqs : call'[q].op = call[q].op /\ call'[q].cred = call[q].cred
    BY <1>1, <2>1 DEF ReqType
  <2>3. \A q \in Reqs : Entitled(q)' => Entitled(q)
    <3>1. /\ \A q \in Reqs \ {r} : pc'[q] = pc[q]
          /\ pc'[r] = "idle" \/ (pc[r] = "openHook" /\ pc'[r] = "row")
      BY <1>1, <2>1, GotoType, LabelFacts
    <3> QED
      BY <2>2, <3>1, SMT DEF Entitled, ByLink
  <2> QED
    BY <1>3, <2>1, <2>2, <2>3
<1>6. ASSUME NEW r \in Reqs, Start(r) PROVE TokenMoves
  <2>1. PICK op \in AllOps, id \in Ids, cred \in Creds, s \in Labels :
          Begins(r, op, id, cred, s)
    BY <1>1, <1>6, StartBegins
  <2>2. /\ pc'[r] = s /\ served' = served
        /\ call'[r].op = op /\ call'[r].cred = cred
        /\ \A q \in Reqs \ {r} : /\ pc'[q] = pc[q] /\ call'[q].op = call[q].op
                                 /\ call'[q].cred = call[q].cred
    BY <1>1, <2>1, BeginType DEF Begins
  <2>3. ~Entitled(r)'
    BY <2>1, <2>2, SMT DEF Begins, First, Reading, Entitled, ByLink
  <2>4. \A q \in Reqs : Entitled(q)' => Entitled(q) /\ call'[q].cred = call[q].cred
    BY <2>2, <2>3 DEF Entitled, ByLink
  <2> QED
    BY <1>3, <2>2, <2>4
<1>7. ASSUME UNCHANGED reqVars, served' = served PROVE TokenMoves
  BY <1>3, <1>7 DEF Entitled, ByLink, reqVars
<1>8. CASE CleanStart \/ DeleteExpired \/ CleanFail
  BY <1>7, <1>8 DEF CleanStart, DeleteExpired, CleanFail, history
<1>9. CASE TimePasses
  BY <1>7, <1>9 DEF TimePasses, history
<1>10. CASE UNCHANGED vars
  BY <1>7, <1>10 DEF vars, history
<1> QED
  BY <1>4, <1>5, <1>6, <1>8, <1>9, <1>10 DEF Next

\* The five stages exclude each other.
LEMMA StageCases ==
  ASSUME TokenInv, NEW t \in Toks
  PROVE  /\ t >= nextTok => t \notin TableTokens /\ served[t] = 0 /\ ~Taken(t)
         /\ t \in TableTokens => served[t] = 0 /\ ~Taken(t)
         /\ Taken(t) => served[t] = 0
<1>1. TypeOK
  BY DEF TokenInv
<1>2. t >= nextTok => ~(t < nextTok)
  BY <1>1, TokenTypes, SMT
<1>3. Taken(t) => t < nextTok /\ t \notin TableTokens /\ served[t] = 0
  BY DEF Taken, TokenInv, TokenInOnePlace
<1>4. t \in TableTokens => t < nextTok
  BY DEF TableTokens, TokenInv, TokenInOnePlace
<1>5. t \in TableTokens \/ t >= nextTok => served[t] = 0
  BY DEF TokenInv, TokenInOnePlace
<1> QED
  BY <1>2, <1>3, <1>4, <1>5

LEMMA StageValue ==
  ASSUME TokenInv, NEW t \in Toks
  PROVE  /\ t >= nextTok => Stage(t) = "unborn"
         /\ t \in TableTokens => Stage(t) = "good"
         /\ served[t] > 0 => Stage(t) = "shown"
         /\ Taken(t) => Stage(t) = "taken"
         /\ ~(t >= nextTok) /\ t \notin TableTokens /\ ~(served[t] > 0) /\ ~Taken(t)
              => Stage(t) = "void"
<1>1. served[t] = 0 => ~(served[t] > 0)
  BY SMT
<1> QED
  BY <1>1, StageCases DEF Stage, Taken

\* The stages as facts about the state, which hold before and after a step.
StagesKnown ==
    TokenInv =>
      \A t \in Toks :
        /\ t >= nextTok => /\ Stage(t) = "unborn" /\ t \notin TableTokens
                           /\ ~Taken(t) /\ served[t] = 0
        /\ t \in TableTokens => Stage(t) = "good"
        /\ served[t] > 0 => Stage(t) = "shown"
        /\ Taken(t) => Stage(t) = "taken" /\ t \notin TableTokens /\ ~(served[t] > 0)
        /\ ~(t >= nextTok) /\ t \notin TableTokens /\ ~(served[t] > 0) /\ ~Taken(t)
             => Stage(t) = "void"

LEMMA StagesAreKnown == StagesKnown
<1> SUFFICES ASSUME TokenInv, NEW t \in Toks
             PROVE  /\ t >= nextTok => /\ Stage(t) = "unborn" /\ t \notin TableTokens
                                       /\ ~Taken(t) /\ served[t] = 0
                    /\ t \in TableTokens => Stage(t) = "good"
                    /\ served[t] > 0 => Stage(t) = "shown"
                    /\ Taken(t) => /\ Stage(t) = "taken" /\ t \notin TableTokens
                                   /\ ~(served[t] > 0)
                    /\ ~(t >= nextTok) /\ t \notin TableTokens /\ ~(served[t] > 0)
                         /\ ~Taken(t) => Stage(t) = "void"
  BY DEF StagesKnown
<1>1. served[t] = 0 => ~(served[t] > 0)
  BY SMT
<1> QED
  BY <1>1, StageCases, StageValue

LEMMA StagesMove == TokenInv /\ TokenInv' /\ TokenMoves => [Links!Next]_stage
<1> SUFFICES ASSUME TokenInv, TokenInv', TokenMoves PROVE Links!Next
  OBVIOUS
<1> DEFINE Known(t) ==
      /\ t >= nextTok => /\ Stage(t) = "unborn" /\ t \notin TableTokens
                         /\ ~Taken(t) /\ served[t] = 0
      /\ t \in TableTokens => Stage(t) = "good"
      /\ served[t] > 0 => Stage(t) = "shown"
      /\ Taken(t) => Stage(t) = "taken" /\ t \notin TableTokens /\ ~(served[t] > 0)
      /\ ~(t >= nextTok) /\ t \notin TableTokens /\ ~(served[t] > 0) /\ ~Taken(t)
           => Stage(t) = "void"
<1>0. nextTok \in Nat /\ nextTok' \in Nat /\ Toks \subseteq Nat
  BY BoundsAssumption, SMT DEF TokenInv, TypeOK, StoreTypeOK, Toks
<1>1. \A t \in Toks : Known(t)
  BY StagesAreKnown DEF StagesKnown
<1>2. StagesKnown'
  BY StagesAreKnown, PTL
<1>3. \A t \in Toks : Known(t)'
  BY <1>2 DEF StagesKnown
<1>4. stage = [t \in Toks |-> Stage(t)] /\ stage' = [t \in Toks |-> Stage(t)']
  BY DEF stage
<1>5. ASSUME NEW t \in Toks
      PROVE  /\ Stage(t)' \in {"unborn", "good", "taken", "shown", "void"}
             /\ Stage(t)' # Stage(t) => <<Stage(t), Stage(t)'>> \in Links!Moves
  <2>1. Known(t) /\ Known(t)'
    BY <1>1, <1>3
  <2>2. t >= nextTok' => t >= nextTok
    BY <1>0, SMT DEF TokenMoves
  <2>3. t \in TableTokens' => t \in TableTokens \/ t >= nextTok
    BY DEF TokenMoves
  <2>4. served'[t] > 0 => served[t] > 0 \/ Taken(t)
    BY DEF TokenMoves
  <2>5. served[t] > 0 => served'[t] > 0
    BY DEF TokenMoves
  <2>6. Taken(t)' => Taken(t) \/ t \in TableTokens
    BY DEF TokenMoves, Taken
  <2>7. Stage(t)' \in {"unborn", "good", "taken", "shown", "void"}
    BY <2>1
  <2>8. Links!Moves = {<<"unborn", "good">>, <<"unborn", "void">>,
                       <<"good", "taken">>,  <<"good", "void">>,
                       <<"taken", "shown">>, <<"taken", "void">>}
    BY DEF Links!Moves
  <2>9. CASE t >= nextTok
    <3>1. ~(served'[t] > 0) /\ ~Taken(t)'
      BY <2>1, <2>4, <2>6, <2>9, SMT
    <3> QED
      BY <2>1, <2>7, <2>8, <2>9, <3>1
  <2>10. CASE t \in TableTokens
    <3>1. (~(t >= nextTok) /\ ~(served'[t] > 0)) \/ Stage(t)' = "taken" \/ Taken(t)
      BY <2>1, <2>4, <2>10
    <3>2. ~(t >= nextTok) /\ ~Taken(t) /\ ~(served[t] > 0)
      BY <2>1, <2>10, StageCases, SMT
    <3> QED
      BY <2>1, <2>2, <2>4, <2>7, <2>8, <2>10, <3>2
  <2>11. CASE served[t] > 0
    BY <2>1, <2>5, <2>7, <2>11
  <2>12. CASE Taken(t)
    <3>1. ~(t >= nextTok') /\ t \notin TableTokens'
      BY <2>1, <2>2, <2>3, <2>12, StageCases
    <3> QED
      BY <2>1, <2>7, <2>8, <2>12, <3>1
  <2>13. CASE ~(t >= nextTok) /\ t \notin TableTokens /\ ~(served[t] > 0) /\ ~Taken(t)
    BY <2>1, <2>2, <2>3, <2>4, <2>6, <2>7, <2>13
  <2> QED
    BY <2>9, <2>10, <2>11, <2>12, <2>13
<1> HIDE DEF Known
<1>6. stage' \in [Toks -> {"unborn", "good", "taken", "shown", "void"}]
  BY <1>4, <1>5
<1>7. \A t \in Toks : stage'[t] # stage[t] => <<stage[t], stage'[t]>> \in Links!Moves
  BY <1>4, <1>5
<1> QED
  BY <1>6, <1>7 DEF Links!Next

LEMMA InitStages == Init => Links!Init
<1> SUFFICES ASSUME Init, NEW t \in Toks PROVE Stage(t) = "unborn"
  BY DEF Links!Init, stage
<1>1. t >= nextTok
  BY BoundsAssumption, SMT DEF Init, StoreInit, Toks
<1> QED
  BY <1>1, InitTokens, StageValue

(* The statements of all handlers together implement OneTimeLinks: however *)
(* requests, replacements and deletions race, a preview token goes from    *)
(* good to taken to shown, is never good again once a request took it, and *)
(* is shown at most once.                                                  *)
THEOREM PreviewLinksOneTime == Spec => PreviewsOneTime
<1>1. Init => TokenInv /\ Links!Init
  BY InitTokens, InitStages
<1>2. TokenInv /\ [Next]_vars => TokenInv'
  BY TokenStep
<1>3. TokenInv /\ TokenInv' /\ [Next]_vars => [Links!Next]_stage
  BY NextMoves, StagesMove
<1> QED
  BY <1>1, <1>2, <1>3, PTL DEF Spec, PreviewsOneTime, Links!Spec
============================================================================
