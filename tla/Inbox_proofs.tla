--------------------------- MODULE Inbox_proofs ---------------------------
(***************************************************************************)
(* At most one wait loop runs, and it hears only of emails the list does   *)
(* not show, whatever the numbers of emails, clicks, requests in flight    *)
(* and failures.                                                           *)
(***************************************************************************)
EXTENDS Inbox, WellFoundedInduction, TLAPS

Whole(r) == "at" \in DOMAIN r /\ "aborted" \in DOMAIN r

\* loop is a function on Loops, and its values have the fields that count.
LoopShape ==
    /\ loop = [l \in Loops |-> loop[l]]
    /\ \A l \in Loops : Whole(loop[l])

LoopInv == LoopShape /\ OneLoop

Live(r) == r.at # "off" /\ ~r.aborted

\* What EXCEPT does to the fields of a whole record.
LEMMA ExceptAt ==
    ASSUME NEW r, Whole(r), NEW x
    PROVE  Whole([r EXCEPT !.at = x]) /\ [r EXCEPT !.at = x].aborted = r.aborted
BY Zenon DEF Whole

LEMMA ExceptAtGot ==
    ASSUME NEW r, Whole(r), NEW x, NEW y
    PROVE  /\ Whole([r EXCEPT !.at = x, !.got = y])
           /\ [r EXCEPT !.at = x, !.got = y].aborted = r.aborted
BY Zenon DEF Whole

LEMMA ExceptAborted ==
    ASSUME NEW r, Whole(r)
    PROVE  Whole([r EXCEPT !.aborted = TRUE]) /\ [r EXCEPT !.aborted = TRUE].aborted
BY Zenon DEF Whole

LEMMA AskWhole == \A list : Whole(Ask(list)) /\ ~Ask(list).aborted
<1> SUFFICES ASSUME NEW list PROVE Whole(Ask(list)) /\ ~Ask(list).aborted
    OBVIOUS
<1>1. Whole(NoLoop) /\ ~NoLoop.aborted
      BY Zenon DEF Whole, NoLoop
<1>2. \A r, x, y : Whole(r) => /\ Whole([r EXCEPT !.at = x, !.since = y])
                              /\ [r EXCEPT !.at = x, !.since = y].aborted = r.aborted
      BY Zenon DEF Whole
<1>. QED  BY <1>1, <1>2, Zenon DEF Ask

\* A loop that is replaced by a whole record that lives only if it lived.
LEMMA SlotStep ==
    ASSUME LoopInv, NEW l \in Loops, NEW r, Whole(r),
           loop' = [loop EXCEPT ![l] = r],
           Live(r) => Live(loop[l]),
           UNCHANGED <<waitAbort, autoWait>>
    PROVE  LoopInv'
<1>1. \A m \in Loops : loop'[m] = IF m = l THEN r ELSE loop[m]
      BY DEF LoopInv, LoopShape
<1>2. LoopShape'
      BY <1>1, Zenon DEF LoopInv, LoopShape
<1>3. OneLoop'
      BY <1>1, Zenon DEF LoopInv, OneLoop, Running, Live
<1>. QED  BY <1>2, <1>3 DEF LoopInv

\* stopWait leaves no loop that runs.
LEMMA StoppedStops ==
    ASSUME LoopInv
    PROVE  /\ Stopped = [l \in Loops |-> Stopped[l]]
           /\ \A l \in Loops : Whole(Stopped[l]) /\ ~Live(Stopped[l])
<1> SUFFICES ASSUME NEW l \in Loops
             PROVE  Whole(Stopped[l]) /\ ~Live(Stopped[l])
    BY Zenon DEF Stopped
<1>1. CASE l = waitAbort
  <2>1. Stopped[l] = [loop[l] EXCEPT !.aborted = TRUE]
        BY <1>1, Zenon DEF Stopped
  <2>. QED  BY <2>1, ExceptAborted, Zenon DEF LoopInv, LoopShape, Live
<1>2. CASE l # waitAbort
  <2>1. Stopped[l] = loop[l]
        BY <1>2, Zenon DEF Stopped
  <2>. QED  BY <1>2, <2>1, Zenon DEF LoopInv, LoopShape, OneLoop, Running, Live
<1>. QED  BY <1>1, <1>2

\* maybeStartWait leaves the new loop, or none.
LEMMA StartStep ==
    ASSUME LoopInv, NEW list, MaybeStartWait(autoWait', list)
    PROVE  LoopInv'
<1>1. CASE autoWait'
  <2>1. PICK l \in Loops : loop' = [Stopped EXCEPT ![l] = Ask(list)] /\ waitAbort' = l
        BY <1>1, Zenon DEF MaybeStartWait
  <2>2. \A m \in Loops : loop'[m] = IF m = l THEN Ask(list) ELSE Stopped[m]
        BY <2>1, StoppedStops, Zenon
  <2>3. loop' = [m \in Loops |-> loop'[m]]
        BY <2>1, StoppedStops, Zenon
  <2>4. LoopShape'
        BY <2>2, <2>3, StoppedStops, AskWhole, Zenon DEF LoopShape
  <2>5. OneLoop'
        BY <1>1, <2>1, <2>2, StoppedStops, Zenon DEF OneLoop, Running, Live
  <2>. QED  BY <2>4, <2>5 DEF LoopInv
<1>2. CASE ~autoWait'
  <2>1. loop' = Stopped
        BY <1>2, Zenon DEF MaybeStartWait
  <2>. QED  BY <2>1, StoppedStops, Zenon DEF LoopInv, LoopShape, OneLoop, Running, Live
<1>. QED  BY <1>1, <1>2

LEMMA LoopInitInv == Init => LoopInv
<1> SUFFICES ASSUME Init PROVE LoopInv
    OBVIOUS
<1>1. loop = [l \in Loops |-> NoLoop]
      BY DEF Init
<1>2. Whole(NoLoop) /\ NoLoop.at = "off"
      BY Zenon DEF Whole, NoLoop
<1>. QED  BY <1>1, <1>2, Zenon DEF LoopInv, LoopShape, OneLoop, Running

LEMMA LoopNextInv == LoopInv /\ [Next]_vars => LoopInv'
<1> SUFFICES ASSUME LoopInv, [Next]_vars
             PROVE  LoopInv'
    OBVIOUS
<1>0. ASSUME UNCHANGED <<loop, waitAbort, autoWait>>
      PROVE  LoopInv'
      BY <1>0, Zenon DEF LoopInv, LoopShape, OneLoop, Running
<1>1. Whole(NoLoop) /\ ~Live(NoLoop)
      BY Zenon DEF Whole, NoLoop, Live
<1>2. CASE Table
      BY <1>0, <1>2, Zenon DEF Table, Tick, InsertEmail, DeleteElsewhere,
         pageVars, callVars
<1>3. ASSUME NEW l \in Loops, Wait(l) \/ WaitFails(l)
      PROVE  LoopInv'
  <2>0. Whole(loop[l])
        BY DEF LoopInv, LoopShape
  <2>1. CASE WaitFinds(l)
    <3>1. PICK x : loop' = [loop EXCEPT ![l].at = "answered", ![l].got = x]
          BY <2>1, Zenon DEF WaitFinds
    <3>2. loop' = [loop EXCEPT ![l] = [loop[l] EXCEPT !.at = "answered", !.got = x]]
          BY <3>1, Zenon DEF LoopInv, LoopShape
    <3>3. loop[l].at = "asked" /\ UNCHANGED <<waitAbort, autoWait>>
          BY <2>1, Zenon DEF WaitFinds, pageVars
    <3>4. /\ Whole([loop[l] EXCEPT !.at = "answered", !.got = x])
          /\ [loop[l] EXCEPT !.at = "answered", !.got = x].aborted = loop[l].aborted
          BY <2>0, ExceptAtGot
    <3>5. Live([loop[l] EXCEPT !.at = "answered", !.got = x]) => Live(loop[l])
          BY <3>3, <3>4, Zenon DEF Live
    <3>. QED  BY <3>2, <3>3, <3>4, <3>5, SlotStep, Zenon
  <2>2. CASE WaitTimesOut(l)
    <3>1. loop' = [loop EXCEPT ![l] = [loop[l] EXCEPT !.at = "timed out"]]
          BY <2>2, Zenon DEF WaitTimesOut
    <3>2. loop[l].at = "asked" /\ UNCHANGED <<waitAbort, autoWait>>
          BY <2>2, Zenon DEF WaitTimesOut, pageVars
    <3>3. /\ Whole([loop[l] EXCEPT !.at = "timed out"])
          /\ [loop[l] EXCEPT !.at = "timed out"].aborted = loop[l].aborted
          BY <2>0, ExceptAt
    <3>4. Live([loop[l] EXCEPT !.at = "timed out"]) => Live(loop[l])
          BY <3>2, <3>3, Zenon DEF Live
    <3>. QED  BY <3>1, <3>2, <3>3, <3>4, SlotStep, Zenon
  <2>3. CASE WaitFails(l)
    <3>1. loop' = [loop EXCEPT ![l] = [loop[l] EXCEPT !.at = "failed"]]
          BY <2>3, Zenon DEF WaitFails
    <3>2. loop[l].at = "asked" /\ UNCHANGED <<waitAbort, autoWait>>
          BY <2>3, Zenon DEF WaitFails, pageVars
    <3>3. /\ Whole([loop[l] EXCEPT !.at = "failed"])
          /\ [loop[l] EXCEPT !.at = "failed"].aborted = loop[l].aborted
          BY <2>0, ExceptAt
    <3>4. Live([loop[l] EXCEPT !.at = "failed"]) => Live(loop[l])
          BY <3>2, <3>3, Zenon DEF Live
    <3>. QED  BY <3>1, <3>2, <3>3, <3>4, SlotStep, Zenon
  <2>4. CASE HearMail(l)
    <3>1. PICK list : loop' = [loop EXCEPT ![l] = IF loop[l].aborted THEN NoLoop ELSE Ask(list)]
          BY <2>4, Zenon DEF HearMail
    <3>2. loop[l].at # "off"
          BY <2>4, Zenon DEF HearMail
    <3>. QED  BY <1>1, <2>4, <3>1, <3>2, AskWhole, SlotStep, Zenon DEF HearMail, Live
  <2>5. CASE HearTimeout(l)
    <3>2. loop[l].at # "off"
          BY <2>5, Zenon DEF HearTimeout
    <3>. QED  BY <1>1, <2>5, <3>2, AskWhole, SlotStep, Zenon DEF HearTimeout, pageVars, Live
  <2>6. CASE HearFailure(l)
        BY <1>1, <2>6, SlotStep, Zenon DEF HearFailure, pageVars
  <2>. QED  BY <1>3, <2>1, <2>2, <2>3, <2>4, <2>5, <2>6 DEF Wait
<1>4. ASSUME NEW p \in Loads, List(p) \/ ListFails(p) \/ Refresh(p)
      PROVE  LoopInv'
  <2>1. CASE LoadInbox(p)
        BY <2>1, StartStep, Zenon DEF LoadInbox
  <2>2. CASE ~LoadInbox(p)
        BY <1>0, <1>4, <2>2, Zenon DEF List, ListAnswers, LoadInboxFails, ListFails, Refresh,
           pageVars
  <2>. QED  BY <2>1, <2>2
<1>5. ASSUME NEW i \in Ids, Delete(i) \/ DeleteFails(i) \/ AskDelete(i)
      PROVE  LoopInv'
  <2>1. CASE DeleteEmail(i)
        BY <2>1, StartStep, Zenon DEF DeleteEmail
  <2>2. CASE ~DeleteEmail(i)
        BY <1>0, <1>5, <2>2, Zenon DEF Delete, DeleteAnswers, DeleteEmailFails, DeleteFails,
           AskDelete, pageVars
  <2>. QED  BY <2>1, <2>2
<1>6. CASE ToggleAutoWait
      BY <1>6, StartStep, Zenon DEF ToggleAutoWait
<1>7. CASE UNCHANGED vars
      BY <1>0, <1>7, Zenon DEF vars, pageVars, callVars
<1>. QED  BY <1>2, <1>3, <1>4, <1>5, <1>6, <1>7, Zenon DEF Next

(* However loads, deletes, clicks and late answers follow each other, at   *)
(* most one wait loop runs: the one the page can abort, while its box is   *)
(* checked.                                                                *)
THEOREM OneLoopRuns == Spec => []OneLoop
<1>1. LoopInv => OneLoop
      BY DEF LoopInv
<1>. QED  BY <1>1, LoopInitInv, LoopNextInv, PTL DEF Spec

----------------------------------------------------------------------------
(* Types, and what a running loop waits for.                               *)

\* A loop in flight asks after the highest id of the list, and an answer is higher.
AsksAfter == \A l \in Loops :
    /\ loop[l].at = "answered" => loop[l].since < loop[l].got
    /\ Running(l) /\ loop[l].at \in {"asked", "answered"} => \A i \in emails : i <= loop[l].since

WaitInv == TypeOK /\ AsksAfter

LEMMA Greatest ==
    ASSUME NEW n \in Nat, NEW S \in SUBSET (1 .. n), S # {}
    PROVE  \E i \in S : \A j \in S : j <= i
<1>. DEFINE T == {n - i : i \in S}
<1>0. \A i \in S : i \in Nat /\ n - i \in Nat
      OBVIOUS
<1>1. T \subseteq Nat /\ T # {}
      BY <1>0
<1>2. PICK x \in T : \A y \in T : ~ (<<y, x>> \in OpToRel(<, Nat))
      BY <1>1, NatLessThanWellFounded, WFMin
<1>3. \A y \in T : ~ (y < x)
      BY <1>1, <1>2 DEF OpToRel
<1>4. PICK i \in S : x = n - i
      BY <1>2
<1>5. \A j \in S : j <= i
  <2> SUFFICES ASSUME NEW j \in S PROVE j <= i
      OBVIOUS
  <2>1. ~ (n - j < n - i)
        BY <1>3, <1>4
  <2>. QED  BY <2>1
<1>. QED  BY <1>5

\* newestId is the highest id of the list, 0 for none.
LEMMA NewestIsHighest ==
    ASSUME NEW n \in Nat, NEW list \in SUBSET (1 .. n)
    PROVE  NewestId(list) \in 0 .. n /\ \A i \in list : i <= NewestId(list)
<1>1. CASE list = {}
      BY <1>1 DEF NewestId
<1>2. CASE list # {}
  <2>1. \E i \in list : \A j \in list : j <= i
        BY <1>2, Greatest
  <2>0. NewestId(list) = CHOOSE i \in list : \A j \in list : j <= i
        BY <1>2, Zenon DEF NewestId
  <2>2. NewestId(list) \in list /\ \A j \in list : j <= NewestId(list)
        BY <2>0, <2>1, Zenon
  <2>3. list \subseteq 0 .. n
        OBVIOUS
  <2>. QED  BY <2>2, <2>3, Zenon
<1>. QED  BY <1>1, <1>2

LoopStates == {"off", "asked", "answered", "timed out", "failed"}

LoopOf(n) == [at : LoopStates, since : 0 .. n - 1, got : 0 .. n - 1, aborted : BOOLEAN]

\* A slot that keeps the invariant while the list holds these ids.
Sound(r, list) ==
    /\ r.at = "answered" => r.since < r.got
    /\ Live(r) /\ r.at \in {"asked", "answered"} => \A i \in list : i <= r.since

LEMMA AskSound ==
    ASSUME NEW n \in Nat \ {0}, NEW list \in SUBSET (1 .. n - 1)
    PROVE  Ask(list) \in LoopOf(n) /\ Sound(Ask(list), list)
<1>1. NewestId(list) \in 0 .. n - 1 /\ \A i \in list : i <= NewestId(list)
      BY NewestIsHighest
<1>0. NoLoop \in LoopOf(n)
      BY DEF NoLoop, LoopOf, LoopStates, None
<1>2. /\ Ask(list) \in LoopOf(n)
      /\ Ask(list).at = "asked" /\ Ask(list).since = NewestId(list)
      BY <1>0, <1>1 DEF Ask, LoopOf, LoopStates
<1>. QED  BY <1>1, <1>2, Zenon DEF Sound

LEMMA OffSound ==
    ASSUME NEW n \in Nat \ {0}, NEW list
    PROVE  NoLoop \in LoopOf(n) /\ Sound(NoLoop, list)
BY DEF NoLoop, LoopOf, LoopStates, Sound, Live, None

\* The parts of TypeOK.
TableTypes ==
    /\ now \in Time
    /\ nextId \in 1 .. MaxMail + 1
    /\ live \subseteq 1 .. nextId - 1
    /\ created \in [Ids -> Time]

PageTypes ==
    /\ emails \subseteq 1 .. nextId - 1
    /\ autoWait \in BOOLEAN
    /\ busy \in BOOLEAN
    /\ waitAbort \in Loops \cup {None}

LoadOf(n) == [at : {"off", "asked", "answered", "failed"}, rows : SUBSET (1 .. n - 1)]

RequestTypes ==
    /\ load \in [Loads -> LoadOf(nextId)]
    /\ deleting \in [Ids -> {"no", "asked", "answered", "failed"}]

BoundTypes ==
    /\ clicks \in 0 .. MaxClicks
    /\ faults \in 0 .. MaxFaults

LoopsSound ==
    /\ loop \in [Loops -> LoopOf(nextId)]
    /\ \A l \in Loops : Sound(loop[l], emails)

LEMMA WaitInvParts ==
    WaitInv <=> TableTypes /\ PageTypes /\ RequestTypes /\ BoundTypes /\ LoopsSound
BY Zenon DEF WaitInv, TypeOK, AsksAfter, TableTypes, PageTypes, LoadOf, RequestTypes,
   BoundTypes, LoopsSound, LoopOf, LoopStates, Sound, Running, Live

----------------------------------------------------------------------------
(* The table: ids are drawn upwards, and every row has one. *)

LEMMA TableStep ==
    ASSUME TableTypes, [Next]_vars
    PROVE  TableTypes' /\ nextId <= nextId'
<1>0. nextId \in Nat
      BY DEF TableTypes
<1>1. ASSUME UNCHANGED <<now, created, nextId>>, live' \subseteq live
      PROVE  TableTypes' /\ nextId <= nextId'
      BY <1>0, <1>1 DEF TableTypes
<1>2. CASE Tick
  <2>1. now' \in Time
        BY <1>2, InboxAssumption DEF Tick, Time, TableTypes
  <2>. QED  BY <1>0, <1>2, <2>1 DEF Tick, TableTypes
<1>3. ASSUME NEW t \in Time, InsertEmail(t)
      PROVE  TableTypes' /\ nextId <= nextId'
  <2>1. nextId \in Ids /\ nextId' = nextId + 1
        BY <1>3, Zenon DEF InsertEmail
  <2>2. nextId' \in 1 .. MaxMail + 1 /\ nextId <= nextId'
        BY <2>1, InboxAssumption DEF Ids
  <2>3. live' \subseteq 1 .. nextId' - 1
        BY <1>0, <1>3, <2>1 DEF InsertEmail, TableTypes
  <2>4. created' \in [Ids -> Time] /\ now' \in Time
        BY <1>3, <2>1, Zenon DEF InsertEmail, TableTypes
  <2>. QED  BY <2>2, <2>3, <2>4 DEF TableTypes
<1>4. ASSUME NEW i \in Ids, DeleteElsewhere(i)
      PROVE  TableTypes' /\ nextId <= nextId'
      BY <1>1, <1>4, Zenon DEF DeleteElsewhere
<1>5. ASSUME NEW i \in Ids, DeleteAnswers(i) \/ DeleteFails(i)
      PROVE  TableTypes' /\ nextId <= nextId'
  <2>1. live \ {i} \subseteq live /\ live \subseteq live
        OBVIOUS
  <2>. QED  BY <1>1, <1>5, <2>1, Zenon DEF DeleteAnswers, DeleteFails
<1>6. ASSUME UNCHANGED tableVars
      PROVE  TableTypes' /\ nextId <= nextId'
      BY <1>1, <1>6, Zenon DEF tableVars
<1>7. ASSUME NEW l \in Loops, Wait(l) \/ WaitFails(l)
      PROVE  UNCHANGED tableVars
      BY <1>7, Zenon DEF Wait, WaitFinds, WaitTimesOut, WaitFails, HearMail, HearTimeout,
         HearFailure
<1>8. ASSUME NEW p \in Loads, List(p) \/ ListFails(p) \/ Refresh(p)
      PROVE  UNCHANGED tableVars
      BY <1>8, Zenon DEF List, ListAnswers, LoadInbox, LoadInboxFails, ListFails, Refresh
<1>9. ASSUME NEW i \in Ids, DeleteEmail(i) \/ DeleteEmailFails(i) \/ AskDelete(i)
      PROVE  UNCHANGED tableVars
      BY <1>9, Zenon DEF DeleteEmail, DeleteEmailFails, AskDelete
<1>10. CASE ToggleAutoWait \/ UNCHANGED vars
      BY <1>6, <1>10, Zenon DEF ToggleAutoWait, vars
<1>. QED  BY <1>2, <1>3, <1>4, <1>5, <1>6, <1>7, <1>8, <1>9, <1>10, Zenon
          DEF Next, Table, Delete

(* The bounds. *)
LEMMA BoundStep ==
    ASSUME BoundTypes, [Next]_vars
    PROVE  BoundTypes'
<1>1. ASSUME UNCHANGED bounds
      PROVE  BoundTypes'
      BY <1>1, Zenon DEF BoundTypes, bounds
<1>2. ASSUME Fault, UNCHANGED clicks
      PROVE  BoundTypes'
      BY <1>2, InboxAssumption DEF BoundTypes, Fault
<1>3. ASSUME Click, UNCHANGED faults
      PROVE  BoundTypes'
      BY <1>3, InboxAssumption DEF BoundTypes, Click
<1>4. CASE Table
      BY <1>1, <1>4, Zenon DEF Table, Tick, InsertEmail, DeleteElsewhere
<1>5. ASSUME NEW l \in Loops, Wait(l) \/ WaitFails(l)
      PROVE  BoundTypes'
      BY <1>1, <1>2, <1>5, Zenon DEF Wait, WaitFinds, WaitTimesOut, WaitFails, HearMail,
         HearTimeout, HearFailure
<1>6. ASSUME NEW p \in Loads, List(p) \/ ListFails(p) \/ Refresh(p)
      PROVE  BoundTypes'
      BY <1>1, <1>2, <1>3, <1>6, Zenon DEF List, ListAnswers, LoadInbox, LoadInboxFails,
         ListFails, Refresh
<1>7. ASSUME NEW i \in Ids, Delete(i) \/ DeleteFails(i) \/ AskDelete(i)
      PROVE  BoundTypes'
      BY <1>1, <1>2, <1>3, <1>7, Zenon DEF Delete, DeleteAnswers, DeleteEmail,
         DeleteEmailFails, DeleteFails, AskDelete
<1>8. CASE ToggleAutoWait
      BY <1>3, <1>8, Zenon DEF ToggleAutoWait
<1>9. CASE UNCHANGED vars
      BY <1>1, <1>9, Zenon DEF vars
<1>. QED  BY <1>4, <1>5, <1>6, <1>7, <1>8, <1>9, Zenon DEF Next

----------------------------------------------------------------------------
(* The requests. *)

\* Old answers stay good when ids are drawn.
LEMMA Grows ==
    ASSUME NEW m \in Nat, NEW n \in Nat, m <= n
    PROVE  /\ SUBSET (1 .. m - 1) \subseteq SUBSET (1 .. n - 1)
           /\ 0 .. m - 1 \subseteq 0 .. n - 1
           /\ LoadOf(m) \subseteq LoadOf(n)
           /\ LoopOf(m) \subseteq LoopOf(n)
<1>1. 1 .. m - 1 \subseteq 1 .. n - 1 /\ 0 .. m - 1 \subseteq 0 .. n - 1
      OBVIOUS
<1>. QED  BY <1>1 DEF LoadOf, LoopOf, LoopStates

LEMMA ListIsOfRows == \A S, n : \A T \in ListEmails(S, n) : T \subseteq S
BY Zenon DEF ListEmails

LEMMA RequestStep ==
    ASSUME TableTypes, RequestTypes, [Next]_vars
    PROVE  RequestTypes'
<1>0. nextId \in Nat /\ nextId' \in Nat /\ nextId <= nextId'
      BY TableStep, InboxAssumption DEF TableTypes
<1>1. /\ load \in [Loads -> LoadOf(nextId')]
      /\ live \in SUBSET (1 .. nextId' - 1)
      /\ LoadOf(nextId) \subseteq LoadOf(nextId')
  <2>1. live \in SUBSET (1 .. nextId - 1)
        BY DEF TableTypes
  <2>. QED  BY <1>0, <2>1, Grows, Zenon DEF RequestTypes
<1>2. ASSUME UNCHANGED <<load, deleting>>
      PROVE  RequestTypes'
      BY <1>1, <1>2, Zenon DEF RequestTypes
<1>3. ASSUME NEW p \in Loads, NEW r \in LoadOf(nextId'), load' = [load EXCEPT ![p] = r],
             UNCHANGED deleting
      PROVE  RequestTypes'
      BY <1>1, <1>3, Zenon DEF RequestTypes
<1>4. ASSUME NEW i \in Ids, NEW d \in {"no", "asked", "answered", "failed"},
             deleting' = [deleting EXCEPT ![i] = d], UNCHANGED load
      PROVE  RequestTypes'
      BY <1>1, <1>4, Zenon DEF RequestTypes
<1>5. NoLoad \in LoadOf(nextId') /\ [NoLoad EXCEPT !.at = "asked"] \in LoadOf(nextId')
      BY DEF NoLoad, LoadOf
<1>6. CASE Table
      BY <1>2, <1>6, Zenon DEF Table, Tick, InsertEmail, DeleteElsewhere, callVars
<1>7. ASSUME NEW l \in Loops, Wait(l) \/ WaitFails(l)
      PROVE  RequestTypes'
      BY <1>2, <1>7, Zenon DEF Wait, WaitFinds, WaitTimesOut, WaitFails, HearMail,
         HearTimeout, HearFailure
<1>8. ASSUME NEW p \in Loads, List(p) \/ ListFails(p) \/ Refresh(p)
      PROVE  RequestTypes'
  <2>1. CASE ListAnswers(p)
    <3>1. PICK T \in ListEmails(live, PageSize) :
             load' = [load EXCEPT ![p] = [at |-> "answered", rows |-> T]]
          BY <2>1, Zenon DEF ListAnswers
    <3>2. T \in SUBSET (1 .. nextId' - 1)
          BY <1>1, ListIsOfRows, Zenon
    <3>3. [at |-> "answered", rows |-> T] \in LoadOf(nextId')
          BY <3>2 DEF LoadOf
    <3>. QED  BY <1>3, <2>1, <3>1, <3>3, Zenon DEF ListAnswers
  <2>2. CASE ListFails(p)
    <3>1. load[p] \in LoadOf(nextId')
          BY <1>1, Zenon
    <3>2. [load[p] EXCEPT !.at = "failed"] \in LoadOf(nextId')
          BY <3>1 DEF LoadOf
    <3>3. load' = [load EXCEPT ![p] = [load[p] EXCEPT !.at = "failed"]]
          BY <2>2, Zenon DEF ListFails
    <3>. QED  BY <1>3, <2>2, <3>2, <3>3, Zenon DEF ListFails
  <2>3. CASE Refresh(p)
        BY <1>3, <1>5, <2>3, Zenon DEF Refresh
  <2>4. CASE LoadInbox(p)
        BY <1>3, <1>5, <2>4, Zenon DEF LoadInbox
  <2>5. CASE LoadInboxFails(p)
        BY <1>3, <1>5, <2>5, Zenon DEF LoadInboxFails
  <2>. QED  BY <1>8, <2>1, <2>2, <2>3, <2>4, <2>5, Zenon DEF List
<1>9. ASSUME NEW i \in Ids, Delete(i) \/ DeleteFails(i) \/ AskDelete(i)
      PROVE  RequestTypes'
  <2>1. CASE DeleteAnswers(i)
    <3>1. (IF i \in live THEN "answered" ELSE "failed") \in {"no", "asked", "answered", "failed"}
          OBVIOUS
    <3>. QED  BY <1>4, <2>1, <3>1, Zenon DEF DeleteAnswers
  <2>2. CASE DeleteEmail(i)
        BY <1>4, <2>2, Zenon DEF DeleteEmail
  <2>3. CASE DeleteEmailFails(i)
        BY <1>4, <2>3, Zenon DEF DeleteEmailFails
  <2>4. CASE AskDelete(i)
        BY <1>4, <2>4, Zenon DEF AskDelete
  <2>5. CASE DeleteFails(i)
        BY <1>4, <2>5, Zenon DEF DeleteFails
  <2>. QED  BY <1>9, <2>1, <2>2, <2>3, <2>4, <2>5, Zenon DEF Delete
<1>10. CASE ToggleAutoWait \/ UNCHANGED vars
       BY <1>2, <1>10, Zenon DEF ToggleAutoWait, vars, callVars
<1>. QED  BY <1>6, <1>7, <1>8, <1>9, <1>10, Zenon DEF Next

----------------------------------------------------------------------------
(* The list and the loops. *)

\* One slot changes; if the list does, the others may hold it too.
LEMMA SlotSound ==
    ASSUME LoopsSound, NEW l \in Loops, NEW r \in LoopOf(nextId), UNCHANGED nextId,
           loop' = [loop EXCEPT ![l] = r], Sound(r, emails'),
           \A m \in Loops \ {l} : Sound(loop[m], emails')
    PROVE  LoopsSound'
<1>1. loop' \in [Loops -> LoopOf(nextId')]
      BY Zenon DEF LoopsSound
<1>2. \A m \in Loops : loop'[m] = IF m = l THEN r ELSE loop[m]
      BY Zenon DEF LoopsSound
<1>3. \A m \in Loops : Sound(loop'[m], emails')
      BY <1>2, Zenon
<1>. QED  BY <1>1, <1>3, Zenon DEF LoopsSound

\* A loop that does not run may meet any list.
LEMMA StoppedIsSound ==
    ASSUME LoopInv, LoopsSound, nextId \in Nat
    PROVE  /\ Stopped \in [Loops -> LoopOf(nextId)]
           /\ \A l \in Loops : \A list : Sound(Stopped[l], list)
<1>1. \A l \in Loops : [loop[l] EXCEPT !.aborted = TRUE] \in LoopOf(nextId)
      BY DEF LoopsSound, LoopOf
<1>2. Stopped \in [Loops -> LoopOf(nextId)]
      BY <1>1, Zenon DEF Stopped, LoopsSound
<1>3. ASSUME NEW l \in Loops
      PROVE  Stopped[l].at = loop[l].at /\ Stopped[l].since = loop[l].since
             /\ Stopped[l].got = loop[l].got
  <2>1. loop[l] \in LoopOf(nextId)
        BY Zenon DEF LoopsSound
  <2>2. \/ Stopped[l] = loop[l]
        \/ Stopped[l] = [loop[l] EXCEPT !.aborted = TRUE]
        BY Zenon DEF Stopped
  <2>. QED  BY <2>1, <2>2 DEF LoopOf
<1>. QED  BY <1>2, <1>3, StoppedStops, Zenon DEF Sound, LoopsSound

\* maybeStartWait after the list became this one.
LEMMA StartSound ==
    ASSUME LoopInv, LoopsSound, nextId \in Nat \ {0}, UNCHANGED nextId,
           NEW list \in SUBSET (1 .. nextId - 1), emails' = list,
           MaybeStartWait(autoWait', list)
    PROVE  LoopsSound' /\ waitAbort' \in Loops \cup {None}
<1>0. Stopped \in [Loops -> LoopOf(nextId)] /\ \A l \in Loops : Sound(Stopped[l], list)
      BY StoppedIsSound, Zenon
<1>1. CASE autoWait'
  <2>1. PICK l \in Loops : loop' = [Stopped EXCEPT ![l] = Ask(list)] /\ waitAbort' = l
        BY <1>1, Zenon DEF MaybeStartWait
  <2>2. Ask(list) \in LoopOf(nextId) /\ Sound(Ask(list), list)
        BY AskSound
  <2>3. loop' \in [Loops -> LoopOf(nextId')]
        BY <1>0, <2>1, <2>2, Zenon
  <2>4. \A m \in Loops : loop'[m] = IF m = l THEN Ask(list) ELSE Stopped[m]
        BY <1>0, <2>1, Zenon
  <2>5. \A m \in Loops : Sound(loop'[m], emails')
        BY <1>0, <2>2, <2>4, Zenon
  <2>. QED  BY <2>1, <2>3, <2>5, Zenon DEF LoopsSound
<1>2. CASE ~autoWait'
  <2>1. loop' = Stopped /\ waitAbort' = None
        BY <1>2, Zenon DEF MaybeStartWait
  <2>. QED  BY <1>0, <2>1, Zenon DEF LoopsSound
<1>. QED  BY <1>1, <1>2

LEMMA PageStep ==
    ASSUME TableTypes, PageTypes, RequestTypes, LoopInv, LoopsSound, [Next]_vars
    PROVE  PageTypes' /\ LoopsSound'
<1>0. nextId \in Nat \ {0} /\ nextId' \in Nat /\ nextId <= nextId'
      BY TableStep, InboxAssumption DEF TableTypes
<1>1. emails \in SUBSET (1 .. nextId - 1) /\ emails \in SUBSET (1 .. nextId' - 1)
  <2>1. emails \in SUBSET (1 .. nextId - 1)
        BY DEF PageTypes
  <2>. QED  BY <1>0, <2>1, Grows, Zenon
<1>2. LoopOf(nextId) \subseteq LoopOf(nextId')
      BY <1>0, Grows
<1>3. ASSUME UNCHANGED <<emails, waitAbort, loop>>, busy' \in BOOLEAN, autoWait' \in BOOLEAN
      PROVE  PageTypes' /\ LoopsSound'
  <2>1. PageTypes'
        BY <1>1, <1>3, Zenon DEF PageTypes
  <2>2. loop' \in [Loops -> LoopOf(nextId')]
        BY <1>2, <1>3, Zenon DEF LoopsSound
  <2>3. \A m \in Loops : Sound(loop'[m], emails')
        BY <1>3, Zenon DEF LoopsSound
  <2>. QED  BY <2>1, <2>2, <2>3, Zenon DEF LoopsSound
<1>4. busy \in BOOLEAN /\ autoWait \in BOOLEAN /\ TRUE \in BOOLEAN /\ FALSE \in BOOLEAN
      BY Zenon DEF PageTypes
<1>5. CASE Table
      BY <1>3, <1>4, <1>5, Zenon DEF Table, Tick, InsertEmail, DeleteElsewhere, pageVars,
         callVars
<1>6. ASSUME NEW list \in SUBSET (1 .. nextId - 1), emails' = list, UNCHANGED nextId,
             MaybeStartWait(autoWait', list), busy' \in BOOLEAN, autoWait' \in BOOLEAN
      PROVE  PageTypes' /\ LoopsSound'
  <2>1. LoopsSound' /\ waitAbort' \in Loops \cup {None}
        BY <1>0, <1>6, StartSound, Zenon
  <2>. QED  BY <1>6, <2>1, Zenon DEF PageTypes
<1>7. ASSUME NEW p \in Loads, List(p) \/ ListFails(p) \/ Refresh(p)
      PROVE  PageTypes' /\ LoopsSound'
  <2>1. CASE LoadInbox(p)
    <3>1. load[p].rows \in SUBSET (1 .. nextId - 1)
          BY DEF RequestTypes, LoadOf
    <3>2. /\ emails' = load[p].rows /\ UNCHANGED nextId /\ UNCHANGED autoWait
          /\ MaybeStartWait(autoWait, load[p].rows) /\ busy' = FALSE
          BY <2>1, Zenon DEF LoadInbox, tableVars
    <3>. QED  BY <1>4, <1>6, <3>1, <3>2, Zenon
  <2>2. CASE ~LoadInbox(p)
        BY <1>3, <1>4, <1>7, <2>2, Zenon DEF List, ListAnswers, LoadInboxFails, ListFails,
           Refresh, pageVars
  <2>. QED  BY <2>1, <2>2
<1>8. ASSUME NEW i \in Ids, Delete(i) \/ DeleteFails(i) \/ AskDelete(i)
      PROVE  PageTypes' /\ LoopsSound'
  <2>1. CASE DeleteEmail(i)
    <3>1. emails \ {i} \in SUBSET (1 .. nextId - 1)
          BY <1>1, Zenon
    <3>2. /\ emails' = emails \ {i} /\ UNCHANGED nextId /\ UNCHANGED autoWait
          /\ MaybeStartWait(autoWait, emails \ {i}) /\ busy' = FALSE
          BY <2>1, Zenon DEF DeleteEmail, tableVars
    <3>. QED  BY <1>4, <1>6, <3>1, <3>2, Zenon
  <2>2. CASE ~DeleteEmail(i)
        BY <1>3, <1>4, <1>8, <2>2, Zenon DEF Delete, DeleteAnswers, DeleteEmailFails,
           DeleteFails, AskDelete, pageVars
  <2>. QED  BY <2>1, <2>2
<1>9. CASE ToggleAutoWait
  <2>1. /\ UNCHANGED <<emails, nextId, busy>> /\ autoWait' = ~autoWait
        /\ MaybeStartWait(~autoWait, emails)
        BY <1>9, Zenon DEF ToggleAutoWait, tableVars
  <2>2. autoWait' \in BOOLEAN
        BY <1>4, <2>1
  <2>. QED  BY <1>1, <1>4, <1>6, <2>1, <2>2, Zenon
<1>10. CASE UNCHANGED vars
       BY <1>3, <1>4, <1>10, Zenon DEF vars, pageVars, callVars
<1>11. ASSUME NEW l \in Loops, Wait(l) \/ WaitFails(l)
       PROVE  PageTypes' /\ LoopsSound'
  <2>0. loop[l] \in LoopOf(nextId) /\ Sound(loop[l], emails) /\ UNCHANGED nextId
    <3>1. UNCHANGED tableVars
          BY <1>11, Zenon DEF Wait, WaitFinds, WaitTimesOut, WaitFails, HearMail, HearTimeout,
             HearFailure
    <3>. QED  BY <3>1, Zenon DEF LoopsSound, tableVars
  <2>1. ASSUME NEW r \in LoopOf(nextId), loop' = [loop EXCEPT ![l] = r], Sound(r, emails),
               UNCHANGED pageVars
        PROVE  PageTypes' /\ LoopsSound'
    <3>1. UNCHANGED <<emails, waitAbort, busy, autoWait>>
          BY <2>1, Zenon DEF pageVars
    <3>2. PageTypes'
          BY <1>1, <1>4, <3>1, Zenon DEF PageTypes
    <3>3. LoopsSound'
          BY <2>0, <2>1, <3>1, SlotSound, Zenon DEF LoopsSound
    <3>. QED  BY <3>2, <3>3
  <2>2. CASE WaitFinds(l)
    <3>1. PICK i \in Newest(Since(loop[l].since)) :
             loop' = [loop EXCEPT ![l].at = "answered", ![l].got = i]
          BY <2>2, Zenon DEF WaitFinds
    <3>2. i \in live /\ i > loop[l].since
          BY <3>1, Zenon DEF Newest, Since
    <3>3. i \in 0 .. nextId - 1
          BY <1>0, <3>2 DEF TableTypes
    <3>. DEFINE r == [loop[l] EXCEPT !.at = "answered", !.got = i]
    <3>4. loop' = [loop EXCEPT ![l] = r]
          BY <2>0, <3>1, Zenon DEF LoopsSound
    <3>5. r \in LoopOf(nextId)
          BY <2>0, <3>3 DEF LoopOf, LoopStates
    <3>6. r.since = loop[l].since /\ r.got = i /\ r.aborted = loop[l].aborted
          BY <2>0 DEF LoopOf
    <3>7. loop[l].at = "asked"
          BY <2>2, Zenon DEF WaitFinds
    <3>8. r.since < r.got
          BY <3>2, <3>6
    <3>9. Sound(r, emails)
          BY <2>0, <3>6, <3>7, <3>8, Zenon DEF Sound, Live
    <3>. QED  BY <2>1, <2>2, <3>4, <3>5, <3>9, Zenon DEF WaitFinds
  <2>3. ASSUME NEW a \in {"timed out", "failed"},
               loop' = [loop EXCEPT ![l] = [loop[l] EXCEPT !.at = a]], UNCHANGED pageVars
        PROVE  PageTypes' /\ LoopsSound'
    <3>1. [loop[l] EXCEPT !.at = a] \in LoopOf(nextId)
          BY <2>0 DEF LoopOf, LoopStates
    <3>2. [loop[l] EXCEPT !.at = a].at = a
          BY <2>0 DEF LoopOf
    <3>3. Sound([loop[l] EXCEPT !.at = a], emails)
          BY <3>2 DEF Sound
    <3>. QED  BY <2>1, <2>3, <3>1, <3>3, Zenon
  <2>4. CASE WaitTimesOut(l)
        BY <2>3, <2>4, Zenon DEF WaitTimesOut
  <2>5. CASE WaitFails(l)
        BY <2>3, <2>5, Zenon DEF WaitFails
  <2>6. NoLoop \in LoopOf(nextId) /\ Sound(NoLoop, emails)
        BY <1>0, OffSound
  <2>7. Ask(emails) \in LoopOf(nextId) /\ Sound(Ask(emails), emails)
        BY <1>0, <1>1, AskSound
  <2>8. CASE HearTimeout(l)
        BY <2>1, <2>6, <2>7, <2>8, Zenon DEF HearTimeout
  <2>9. CASE HearFailure(l)
        BY <2>1, <2>6, <2>9, Zenon DEF HearFailure
  <2>10. CASE HearMail(l) /\ loop[l].aborted
    <3>1. loop' = [loop EXCEPT ![l] = NoLoop] /\ UNCHANGED pageVars
          BY <2>10, Zenon DEF HearMail, pageVars
    <3>. QED  BY <2>1, <2>6, <3>1
  <2>11. CASE HearMail(l) /\ ~loop[l].aborted
    <3>. DEFINE list == emails \cup {loop[l].got}
    <3>1. /\ emails' = list /\ loop' = [loop EXCEPT ![l] = Ask(list)]
          /\ loop[l].at = "answered" /\ UNCHANGED <<autoWait, busy, waitAbort>>
          BY <2>11, Zenon DEF HearMail
    <3>2. loop[l].got \in 1 .. nextId - 1
          BY <1>0, <2>0, <3>1 DEF Sound, LoopOf
    <3>3. list \in SUBSET (1 .. nextId - 1)
          BY <1>1, <3>2, Zenon
    <3>4. Ask(list) \in LoopOf(nextId) /\ Sound(Ask(list), list)
          BY <1>0, <3>3, AskSound
    <3>5. l = waitAbort
          BY <2>11, <3>1, Zenon DEF LoopInv, OneLoop, Running
    <3>6. ASSUME NEW m \in Loops \ {l}
          PROVE  Sound(loop[m], list)
      <4>1. ~Live(loop[m])
            BY <3>5, Zenon DEF LoopInv, OneLoop, Running, Live
      <4>. QED  BY <4>1, Zenon DEF Sound, LoopsSound
    <3>7. LoopsSound'
          BY <2>0, <3>1, <3>4, <3>6, SlotSound, Zenon
    <3>8. PageTypes'
          BY <1>4, <2>0, <3>1, <3>3, Zenon DEF PageTypes
    <3>. QED  BY <3>7, <3>8
  <2>. QED  BY <1>11, <2>2, <2>4, <2>5, <2>8, <2>9, <2>10, <2>11, Zenon DEF Wait
<1>. QED  BY <1>5, <1>7, <1>8, <1>9, <1>10, <1>11, Zenon DEF Next

LEMMA WaitInit == Init => WaitInv
<1> SUFFICES ASSUME Init PROVE WaitInv
    OBVIOUS
<1>1. TableTypes
      BY InboxAssumption DEF Init, TableTypes, Time, Ids
<1>2. PageTypes
      BY DEF Init, PageTypes, None
<1>3. RequestTypes
  <2>1. nextId = 1
        BY DEF Init
  <2>2. NoLoad \in LoadOf(1) /\ [NoLoad EXCEPT !.at = "asked"] \in LoadOf(1)
        BY DEF NoLoad, LoadOf
  <2>3. load \in [Loads -> LoadOf(1)]
    <3>1. PICK p \in Loads : load = [q \in Loads |-> IF q = p
                                      THEN [NoLoad EXCEPT !.at = "asked"] ELSE NoLoad]
          BY Zenon DEF Init
    <3>. QED  BY <2>2, <3>1, Zenon
  <2>. QED  BY <2>1, <2>3 DEF Init, RequestTypes
<1>4. BoundTypes
      BY InboxAssumption DEF Init, BoundTypes
<1>5. LoopsSound
  <2>1. nextId = 1 /\ loop = [l \in Loops |-> NoLoop]
        BY Zenon DEF Init
  <2>2. NoLoop \in LoopOf(1) /\ Sound(NoLoop, emails)
        BY OffSound
  <2>. QED  BY <2>1, <2>2, Zenon DEF LoopsSound
<1>. QED  BY <1>1, <1>2, <1>3, <1>4, <1>5, WaitInvParts

LEMMA WaitNext == LoopInv /\ WaitInv /\ [Next]_vars => WaitInv'
<1> SUFFICES ASSUME LoopInv, WaitInv, [Next]_vars PROVE WaitInv'
    OBVIOUS
<1>1. TableTypes /\ PageTypes /\ RequestTypes /\ BoundTypes /\ LoopsSound
      BY WaitInvParts
<1>2. TableTypes' /\ PageTypes' /\ RequestTypes' /\ BoundTypes' /\ LoopsSound'
      BY <1>1, TableStep, PageStep, RequestStep, BoundStep
<1>3. (TableTypes /\ PageTypes /\ RequestTypes /\ BoundTypes /\ LoopsSound => WaitInv)'
      BY WaitInvParts, PTL
<1>. QED  BY <1>2, <1>3

LEMMA WaitAlways == Spec => [](LoopInv /\ WaitInv)
BY LoopInitInv, LoopNextInv, WaitInit, WaitNext, PTL DEF Spec

(* The table, the page and the requests in flight keep their types; ids    *)
(* the page knows, of its list or in answers, have been drawn.             *)
THEOREM InboxTypeCorrect == Spec => []TypeOK
<1>1. WaitInv => TypeOK
      BY DEF WaitInv
<1>. QED  BY <1>1, WaitAlways, PTL

(* What a running loop hears is not in the list: however the order by      *)
(* created_at and the order of the ids differ, and whatever is reloaded or *)
(* deleted while the answer travels.                                       *)
THEOREM WaitHearsNew == Spec => []WaitBringsNew
<1>1. ASSUME WaitInv PROVE WaitBringsNew
  <2>1. SUFFICES ASSUME NEW l \in Loops, Running(l), loop[l].at = "answered",
                        loop[l].got \in emails
                 PROVE  FALSE
        BY Zenon DEF WaitBringsNew
  <2>2. loop[l].since < loop[l].got /\ \A i \in emails : i <= loop[l].since
        BY <1>1, <2>1, Zenon DEF WaitInv, AsksAfter
  <2>3. loop[l].since \in Int /\ loop[l].got \in Int
    <3>1. loop[l] \in LoopOf(nextId) /\ nextId \in Int
          BY <1>1, WaitInvParts, InboxAssumption DEF LoopsSound, TableTypes
    <3>. QED  BY <3>1 DEF LoopOf
  <2>. QED  BY <2>1, <2>2, <2>3
<1>2. WaitInv => WaitBringsNew
      BY <1>1
<1>. QED  BY <1>2, WaitAlways, PTL
============================================================================
