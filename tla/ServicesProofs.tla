---------------------------- MODULE ServicesProofs ----------------------------
(***************************************************************************)
(* Proofs about the parts of the server that stand alone, for any number   *)
(* of processes, patterns, requests, reports, sessions and terminals, and  *)
(* every field of a unit.                                                  *)
(*                                                                         *)
(* ProcessMonitor: known processes are the linked ones, links go to        *)
(* patterns that exist and match, but for the processes that raced with a  *)
(* pattern.  Secrets: requests of one kind, and requests one after the     *)
(* other, leave a row and a secret that agree.  AgentReports: what is not  *)
(* yet told of is in a report that is being handled; the loop over the     *)
(* image updates tells of new keys only.  UnitFields: what a unit asks of  *)
(* Podman is within the installed version and within the cached one.       *)
(* IdMap: the entries of a container tile its ids.  Sessions: credentials  *)
(* stay with their session, the reaper takes no session that is in use,    *)
(* and terminals have their slots and end in time.                         *)
(***************************************************************************)
EXTENDS ProcessMonitor, Secrets, AgentReports, UnitFields, IdMap, Sessions,
        FiniteSetTheorems, WellFoundedInduction, TLAPS

(***************************************************************************)
(* ProcessMonitor.                                                         *)
(***************************************************************************)

Rows == {NoRow} \cup [link : Nat, known : BOOLEAN]
Report == [op : {"report"}, p : PmProcesses, match : Nat, raced : BOOLEAN]

\* The types the argument needs, and that ids are never given twice.
Shape ==
    /\ pmMade \in Nat
    /\ PmPatterns \subseteq 1 .. pmMade
    /\ pmRow \in [PmProcesses -> Rows]
    /\ DOMAIN pmPending = PmActors

\* What a report has read is still so, unless a pattern was written since.
Current(r) ==
    /\ r.match # NoLink => r.match \in PmPatterns /\ r.p \in pmRegex[r.match]
    /\ r.match = NoLink => \A i \in PmPatterns : r.p \notin pmRegex[i]
Reports ==
    \A a \in PmActors :
       pmPending[a].op = "report" =>
          /\ pmPending[a] \in Report
          /\ pmPending[a].raced \/ Current(pmPending[a])

\* ProcessLinks, one process at a time.
Fine(p) ==
    pmRow[p] # NoRow =>
       /\ pmRow[p].known = (pmRow[p].link # NoLink)
       /\ pmRow[p].link \in PmPatterns \cup {NoLink}
       /\ p \notin pmRaced /\ pmRow[p].link # NoLink => p \in pmRegex[pmRow[p].link]
       /\ p \notin pmRaced \cup pmFreed /\ pmRow[p].link = NoLink =>
             \A i \in PmPatterns : p \notin pmRegex[i]

PInv == Shape /\ Reports /\ \A p \in PmProcesses : Fine(p)

-----------------------------------------------------------------------------
LEMMA RowFacts ==
    /\ Freed \in Rows /\ Freed # NoRow /\ Freed.link = NoLink /\ Freed.known = FALSE
    /\ \A id \in Nat : /\ To(id) \in Rows /\ To(id) # NoRow /\ To(id).link = id /\ To(id).known = TRUE
                       /\ id # NoLink => To(id) # Freed
  BY DEF Freed, To, NoRow, NoLink, Rows

LEMMA FineIsLinks == (\A p \in PmProcesses : Fine(p)) => ProcessLinks
  BY DEF Fine, ProcessLinks, KnownIffLinked, LinkedMatches, UnlinkedUnmatched, Linked, Unlinked

\* Some pattern is the oldest of those that match.
LEMMA Oldest ==
    ASSUME NEW T, T \subseteq Nat, T # {}
    PROVE  \E x \in T : \A y \in T : x <= y
<1> DEFINE R == OpToRel(<, Nat)
<1>1. R = {ss \in Nat \X Nat : ss[1] < ss[2]}
  BY DEF OpToRel
<1>2. PICK x \in T : \A y \in T : ~ (<<y, x>> \in R)
  <2>1. IsWellFoundedOn(R, Nat)
    BY NatLessThanWellFounded
  <2> HIDE DEF R
  <2> QED  BY <2>1, WFMin, Zenon
<1>3. \A y \in T : y \in Nat /\ x \in Nat /\ ~(y < x)
  BY <1>1, <1>2
<1> QED  BY <1>3

LEMMA MatchIsCurrent ==
    ASSUME Shape, NEW p
    PROVE  /\ Match(p) \in Nat
           /\ Match(p) # NoLink => Match(p) \in PmPatterns /\ p \in pmRegex[Match(p)]
           /\ Match(p) = NoLink => \A i \in PmPatterns : p \notin pmRegex[i]
<1> DEFINE fits == {id \in PmPatterns : p \in pmRegex[id]}
<1>1. CASE fits = {}
  BY <1>1 DEF Match, NoLink
<1>2. CASE fits # {}
  <2>1. fits \subseteq Nat /\ 0 \notin fits
    <3>1. PmPatterns \subseteq 1 .. pmMade /\ pmMade \in Nat
      BY DEF Shape
    <3>2. \A n \in Nat : \A i \in 1 .. n : i \in Nat /\ i # 0
      OBVIOUS
    <3>3. \A i \in PmPatterns : i \in Nat /\ i # 0
      BY <3>1, <3>2
    <3> QED BY <3>3
  <2>2. \E id \in fits : \A i \in fits : id <= i
    BY <1>2, <2>1, Oldest
  <2>3. Match(p) = CHOOSE id \in fits : \A i \in fits : id <= i
    BY <1>2 DEF Match
  <2>4. Match(p) \in fits
    <3> HIDE DEF fits
    <3> QED  BY <2>2, <2>3
  <2> QED  BY <2>1, <2>4 DEF NoLink
<1> QED  BY <1>1, <1>2

\* The conditions under which new rows are fine, one process at a time: an
\* untouched row must stand the new patterns, and a touched one be freed or be
\* linked to a pattern that matches.
Steady(p) ==
    pmRow[p] # NoRow =>
       /\ pmRow[p].link \in PmPatterns \cup {NoLink} => pmRow[p].link \in PmPatterns' \cup {NoLink}
       /\ pmRow[p].link \in PmPatterns /\ p \in pmRegex[pmRow[p].link] => p \in pmRegex'[pmRow[p].link]
       /\ pmRow[p].link = NoLink /\ (\A i \in PmPatterns : p \notin pmRegex[i]) =>
             \A i \in PmPatterns' : p \notin pmRegex'[i]
Moved(row, p) ==
    \/ row = Freed
    \/ \E id \in PmPatterns' : id \in Nat \ {0} /\ row = To(id) /\ p \in pmRegex'[id]

LEMMA TrackFine ==
    ASSUME NEW rows, Track(rows), NEW p \in PmProcesses, Fine(p),
           rows[p] = pmRow[p] => Steady(p),
           rows[p] # pmRow[p] => Moved(rows[p], p)
    PROVE  Fine(p)'
<1>1. pmRow' = rows
  BY DEF Track
<1>2. CASE rows[p] = pmRow[p]
  <2>1. (p \in pmRaced' <=> p \in pmRaced) /\ (p \in pmFreed' <=> p \in pmFreed)
    BY <1>2 DEF Track
  <2> QED  BY <1>1, <1>2, <2>1 DEF Fine, Steady
<1>3. CASE rows[p] = Freed /\ rows[p] # pmRow[p]
  <2>1. p \in pmFreed'
    BY <1>3 DEF Track
  <2> QED  BY <1>1, <1>3, <2>1, RowFacts DEF Fine
<1>4. CASE rows[p] # Freed /\ rows[p] # pmRow[p]
  <2>1. PICK id \in PmPatterns' : id \in Nat \ {0} /\ rows[p] = To(id) /\ p \in pmRegex'[id]
    BY <1>4 DEF Moved
  <2>2. id # NoLink
    BY <2>1 DEF NoLink
  <2> QED  BY <1>1, <2>1, <2>2, RowFacts DEF Fine
<1> QED  BY <1>2, <1>3, <1>4

\* What a session that rests or writes a pattern leaves of the other reports.
LEMMA PatternsChangeReports ==
    ASSUME Shape, Reports, NEW a \in PmActors, PatternsChange(a)
    PROVE  Reports' /\ DOMAIN pmPending' = PmActors
<1>1. PmNothing.op # "report"
  BY DEF PmNothing
<1>2. ASSUME NEW b \in PmActors, pmPending'[b].op = "report"
      PROVE  pmPending'[b] \in Report /\ pmPending'[b].raced
  <2>1. b # a
    BY <1>1, <1>2 DEF PatternsChange
  <2>2. CASE pmPending[b].op = "report"
    <3>1. pmPending[b] # PmNothing /\ pmPending[b] \in Report
      BY <1>1, <2>2 DEF Reports
    <3>2. pmPending'[b] = [pmPending[b] EXCEPT !.raced = TRUE]
      BY <2>1, <2>2, <3>1 DEF PatternsChange
    <3> QED  BY <3>1, <3>2 DEF Report
  <2>3. CASE pmPending[b].op # "report"
    BY <1>2, <2>1, <2>3 DEF PatternsChange
  <2> QED  BY <2>2, <2>3
<1>3. DOMAIN pmPending' = PmActors
  BY DEF PatternsChange
<1> QED  BY <1>2, <1>3 DEF Reports

LEMMA AnsweredReports ==
    ASSUME Shape, Reports, NEW a \in PmActors, NEW w, pmPending' = [pmPending EXCEPT ![a] = w],
           UNCHANGED pmRegex, w.op = "report" => w \in Report /\ Current(w)
    PROVE  Reports' /\ DOMAIN pmPending' = PmActors
<1>1. DOMAIN pmPending = PmActors
  BY DEF Shape
<1>2. ASSUME NEW b \in PmActors, pmPending'[b].op = "report"
      PROVE  pmPending'[b] \in Report /\ (pmPending'[b].raced \/ Current(pmPending[b])')
  <2>1. CASE b = a
    <3>1. pmPending'[b] = w
      BY <1>1, <2>1
    <3>2. w \in Report /\ Current(w)
      BY <1>2, <3>1
    <3>3. Current(pmPending[b])'
      BY <3>1, <3>2 DEF Current, PmPatterns
    <3> QED  BY <3>1, <3>2, <3>3
  <2>2. CASE b # a
    <3>1. pmPending'[b] = pmPending[b]
      BY <1>1, <2>2
    <3>2. pmPending[b] \in Report /\ (pmPending[b].raced \/ Current(pmPending[b]))
      BY <1>2, <3>1 DEF Reports
    <3>3. Current(pmPending[b]) => Current(pmPending[b])'
      BY <3>1 DEF Current, PmPatterns
    <3> QED  BY <3>1, <3>2, <3>3
  <2> QED  BY <2>1, <2>2
<1> QED  BY <1>1, <1>2 DEF Reports

\* Rows stay as they are if neither they nor the patterns change.
LEMMA FineUnchanged ==
    ASSUME NEW p \in PmProcesses, Fine(p), UNCHANGED pmRegex, pmRow'[p] = pmRow[p],
           p \in pmRaced => p \in pmRaced', p \in pmFreed => p \in pmFreed'
    PROVE  Fine(p)'
BY DEF Fine, PmPatterns

-----------------------------------------------------------------------------
LEMMA InitInv == PmInit => PInv
  BY DEF PmInit, PInv, Shape, Reports, Fine, Rows, PmPatterns, PmNothing

LEMMA ReportReadStep ==
    ASSUME PInv, NEW a \in PmActors, ReportRead(a)
    PROVE  PInv'
<1>1. PICK p \in PmProcesses : pmPending' = [pmPending EXCEPT ![a] =
                        [op |-> "report", p |-> p, match |-> Match(p), raced |-> FALSE]]
  BY DEF ReportRead
<1>2. PICK w : w = [op |-> "report", p |-> p, match |-> Match(p), raced |-> FALSE]
  OBVIOUS
<1>3. w \in Report /\ Current(w)
  BY <1>2, MatchIsCurrent DEF Report, Current, PInv
<1>4. Reports' /\ DOMAIN pmPending' = PmActors
  BY <1>1, <1>2, <1>3, AnsweredReports DEF PInv, ReportRead
<1>5. Shape'
  BY <1>4 DEF PInv, Shape, ReportRead, PmPatterns
<1>6. \A q \in PmProcesses : Fine(q)'
  BY FineUnchanged DEF PInv, ReportRead
<1> QED  BY <1>4, <1>5, <1>6 DEF PInv

LEMMA ReportWriteStep ==
    ASSUME PInv, NEW a \in PmActors, ReportWrite(a)
    PROVE  PInv'
<1> DEFINE r == pmPending[a]
<1>1. r \in Report /\ (r.raced \/ Current(r))
  BY DEF ReportWrite, PInv, Reports
<1>2. Reports' /\ DOMAIN pmPending' = PmActors
  BY AnsweredReports DEF PInv, ReportWrite, Answered, PmNothing
<1>3. CASE pmRow[r.p] = NoRow /\ r.match \in PmPatterns \cup {NoLink}
  <2> DEFINE new == IF r.match = NoLink THEN Freed ELSE To(r.match)
  <2>1. /\ pmRow' = [pmRow EXCEPT ![r.p] = new]
        /\ pmRaced' = IF r.raced THEN pmRaced \cup {r.p} ELSE pmRaced \ {r.p}
        /\ pmFreed' = pmFreed \ {r.p}
        /\ UNCHANGED <<pmRegex, pmMade>>
    BY <1>3 DEF ReportWrite
  <2>2. r.p \in PmProcesses /\ r.match \in Nat /\ new \in Rows
    BY <1>1, RowFacts DEF Report
  <2>3. Shape'
    BY <1>2, <2>1, <2>2 DEF PInv, Shape, PmPatterns
  <2>4. ASSUME NEW q \in PmProcesses
        PROVE  Fine(q)'
    <3>1. CASE q # r.p
      BY <2>1, <2>2, <3>1, FineUnchanged DEF PInv, Shape
    <3>2. CASE q = r.p
      <4>1. pmRow'[q] = new /\ (r.raced => q \in pmRaced')
        BY <2>1, <2>2, <3>2 DEF PInv, Shape
      <4>2. CASE r.match = NoLink
        <5>1. new = Freed
          BY <4>2
        <5>2. r.raced \/ \A i \in PmPatterns : q \notin pmRegex[i]
          BY <1>1, <3>2, <4>2 DEF Current
        <5>3. PmPatterns' = PmPatterns
          BY <2>1 DEF PmPatterns
        <5>4. pmRow'[q].link = NoLink /\ pmRow'[q].known = FALSE
          BY <4>1, <5>1, RowFacts
        <5>5. q \notin pmRaced' => \A i \in PmPatterns' : q \notin pmRegex'[i]
          BY <2>1, <4>1, <5>2, <5>3
        <5> QED  BY <5>4, <5>5 DEF Fine
      <4>3. CASE r.match # NoLink
        <5>1. new = To(r.match) /\ r.match \in PmPatterns
          BY <1>3, <4>3
        <5>2. r.raced \/ q \in pmRegex[r.match]
          BY <1>1, <3>2, <4>3 DEF Current
        <5> QED  BY <2>1, <2>2, <4>1, <4>3, <5>1, <5>2, RowFacts DEF Fine, PmPatterns
      <4> QED  BY <4>2, <4>3
    <3> QED  BY <3>1, <3>2
  <2> QED  BY <1>2, <2>3, <2>4 DEF PInv
<1>4. CASE ~(pmRow[r.p] = NoRow /\ r.match \in PmPatterns \cup {NoLink})
  <2>1. UNCHANGED <<pmRow, pmRaced, pmFreed, pmRegex, pmMade>>
    BY <1>4 DEF ReportWrite
  <2>2. Shape'
    BY <1>2, <2>1 DEF PInv, Shape, PmPatterns
  <2>3. \A q \in PmProcesses : Fine(q)'
    BY <2>1, FineUnchanged DEF PInv
  <2> QED  BY <1>2, <2>2, <2>3 DEF PInv
<1> QED  BY <1>3, <1>4

\* A session that reads for a creation or an update, or whose write fails.
LEMMA QuietStep ==
    ASSUME PInv, NEW a \in PmActors, CreateCheck(a) \/ UpdateCheck(a) \/ WriteFails(a)
    PROVE  PInv'
<1>1. UNCHANGED <<pmRegex, pmMade, pmRow, pmRaced, pmFreed>>
  BY DEF CreateCheck, UpdateCheck, WriteFails
<1>2. PICK w : pmPending' = [pmPending EXCEPT ![a] = w] /\ w.op # "report"
  <2>1. CASE CreateCheck(a)
    <3>1. PICK regex : pmPending' = [pmPending EXCEPT ![a] = [op |-> "create", regex |-> regex]]
      BY <2>1 DEF CreateCheck
    <3>2. [op |-> "create", regex |-> regex].op # "report"
      OBVIOUS
    <3> QED  BY <3>1, <3>2
  <2>2. CASE UpdateCheck(a)
    <3>1. PICK id, regex : pmPending' = [pmPending EXCEPT ![a] =
                                            [op |-> "update", id |-> id, regex |-> regex]]
      BY <2>2 DEF UpdateCheck
    <3>2. [op |-> "update", id |-> id, regex |-> regex].op # "report"
      OBVIOUS
    <3> QED  BY <3>1, <3>2
  <2>3. CASE WriteFails(a)
    <3>1. pmPending' = [pmPending EXCEPT ![a] = PmNothing]
      BY <2>3 DEF WriteFails, Answered
    <3>2. PmNothing.op # "report"
      BY DEF PmNothing
    <3> QED  BY <3>1, <3>2
  <2> QED  BY <2>1, <2>2, <2>3
<1>3. Reports' /\ DOMAIN pmPending' = PmActors
  BY <1>1, <1>2, AnsweredReports DEF PInv
<1>4. Shape'
  BY <1>1, <1>3 DEF PInv, Shape, PmPatterns
<1>5. \A q \in PmProcesses : Fine(q)'
  BY <1>1, FineUnchanged DEF PInv
<1> QED  BY <1>3, <1>4, <1>5 DEF PInv

LEMMA CreateWriteStep ==
    ASSUME PInv, NEW a \in PmActors, CreateWrite(a)
    PROVE  PInv'
<1>1. PICK regex, id : /\ id = pmMade + 1 /\ pmMade' = id
                       /\ pmRegex' = [i \in PmPatterns \cup {id} |->
                                          IF i = id THEN regex ELSE pmRegex[i]]
                       /\ Track([p \in PmProcesses |->
                                    IF p \in regex /\ Unlinked(p) THEN To(id) ELSE pmRow[p]])
  BY DEF CreateWrite
<1>2. PICK rows : rows = [p \in PmProcesses |->
                             IF p \in regex /\ Unlinked(p) THEN To(id) ELSE pmRow[p]]
  OBVIOUS
<1>3. PmPatterns' = PmPatterns \cup {id} /\ id \notin PmPatterns /\ id \in Nat \ {0}
  BY <1>1 DEF PInv, Shape, PmPatterns
<1>4. Reports' /\ DOMAIN pmPending' = PmActors
  BY PatternsChangeReports DEF PInv, CreateWrite
<1>5. pmRow' = rows
  BY <1>1, <1>2 DEF Track
<1>6. Shape'
  <2>1. rows \in [PmProcesses -> Rows]
    BY <1>2, <1>3, RowFacts DEF PInv, Shape
  <2>2. pmMade \in Nat /\ PmPatterns \subseteq 1 .. pmMade
    BY DEF PInv, Shape
  <2>3. pmMade' = pmMade + 1 /\ id = pmMade + 1
    BY <1>1
  <2>4. 1 .. pmMade \cup {pmMade + 1} \subseteq 1 .. (pmMade + 1) /\ pmMade + 1 \in Nat
    BY <2>2
  <2>5. PmPatterns' \subseteq 1 .. pmMade \cup {pmMade + 1}
    BY <2>2, <2>3, <1>3, Zenon
  <2>6. pmMade' \in Nat /\ PmPatterns' \subseteq 1 .. pmMade'
    BY <2>3, <2>4, <2>5, Zenon
  <2> QED  BY <1>4, <1>5, <2>1, <2>6 DEF Shape
<1>7. ASSUME NEW p \in PmProcesses
      PROVE  Fine(p)'
  <2>1. rows[p] = pmRow[p] => Steady(p)
    <3>1. rows[p] = pmRow[p] /\ pmRow[p] # NoRow /\ pmRow[p].link = NoLink => p \notin regex
      BY <1>2, <1>3, RowFacts DEF Unlinked, NoLink
    <3> QED  BY <1>1, <1>3, <3>1 DEF Steady
  <2>2. rows[p] # pmRow[p] => Moved(rows[p], p)
    BY <1>1, <1>2, <1>3 DEF Moved
  <2> QED  BY <1>1, <1>2, <2>1, <2>2, TrackFine DEF PInv
<1> QED  BY <1>4, <1>6, <1>7 DEF PInv

LEMMA UpdateWriteStep ==
    ASSUME PInv, NEW a \in PmActors, UpdateWrite(a)
    PROVE  PInv'
<1>1. PICK id, regex : /\ id \in PmPatterns
                       /\ pmRegex' = [pmRegex EXCEPT ![id] = regex]
                       /\ Track(Relinked(id, regex))
  BY DEF UpdateWrite
<1>2. PICK rows : rows = Relinked(id, regex)
  OBVIOUS
<1>3. PmPatterns' = PmPatterns /\ id \in Nat \ {0}
  BY <1>1 DEF PInv, Shape, PmPatterns
<1>4. Reports' /\ DOMAIN pmPending' = PmActors
  BY PatternsChangeReports DEF PInv, UpdateWrite
<1>5. pmRow' = rows
  BY <1>1, <1>2 DEF Track
<1>6. Shape'
  <2>1. rows \in [PmProcesses -> Rows]
    BY <1>2, <1>3, RowFacts DEF PInv, Shape, Relinked
  <2>2. pmMade' = pmMade
    BY DEF UpdateWrite
  <2> QED  BY <1>1, <1>3, <1>4, <1>5, <2>1, <2>2 DEF PInv, Shape
<1>7. ASSUME NEW p \in PmProcesses
      PROVE  Fine(p)'
  <2>1. rows[p] = pmRow[p] => Steady(p)
    <3>1. rows[p] = pmRow[p] /\ pmRow[p] # NoRow =>
             /\ pmRow[p].link = NoLink => p \notin regex
             /\ pmRow[p].link = id => p \in regex
      BY <1>2, <1>3, RowFacts DEF Relinked, Unlinked, Linked, NoLink
    <3> QED  BY <1>1, <1>3, <3>1 DEF Steady, PmPatterns
  <2>2. rows[p] # pmRow[p] => Moved(rows[p], p)
    BY <1>1, <1>2, <1>3 DEF Moved, Relinked, PmPatterns
  <2> QED  BY <1>1, <1>2, <2>1, <2>2, TrackFine DEF PInv
<1> QED  BY <1>4, <1>6, <1>7 DEF PInv

LEMMA DeletePatternStep ==
    ASSUME PInv, NEW a \in PmActors, DeletePattern(a)
    PROVE  PInv'
<1>1. PICK id \in PmPatterns :
         /\ pmRegex' = [i \in PmPatterns \ {id} |-> pmRegex[i]]
         /\ Track([p \in PmProcesses |->
                      IF Linked(p) /\ pmRow[p].link = id THEN Freed ELSE pmRow[p]])
  BY DEF DeletePattern
<1>2. PICK rows : rows = [p \in PmProcesses |->
                             IF Linked(p) /\ pmRow[p].link = id THEN Freed ELSE pmRow[p]]
  OBVIOUS
<1>3. PmPatterns' = PmPatterns \ {id} /\ id \in Nat \ {0}
  BY <1>1 DEF PInv, Shape, PmPatterns
<1>4. Reports' /\ DOMAIN pmPending' = PmActors
  BY PatternsChangeReports DEF PInv, DeletePattern
<1>5. pmRow' = rows
  BY <1>1, <1>2 DEF Track
<1>6. Shape'
  <2>1. rows \in [PmProcesses -> Rows]
    BY <1>2, RowFacts DEF PInv, Shape
  <2>2. pmMade' = pmMade
    BY DEF DeletePattern
  <2> QED  BY <1>3, <1>4, <1>5, <2>1, <2>2 DEF PInv, Shape
<1>7. ASSUME NEW p \in PmProcesses
      PROVE  Fine(p)'
  <2>1. rows[p] = pmRow[p] => Steady(p)
    <3>1. rows[p] = pmRow[p] /\ pmRow[p] # NoRow => pmRow[p].link # id
      BY <1>2, <1>3, RowFacts DEF Linked, NoLink
    <3> QED  BY <1>1, <1>3, <3>1 DEF Steady
  <2>2. rows[p] # pmRow[p] => Moved(rows[p], p)
    BY <1>2 DEF Moved
  <2> QED  BY <1>1, <1>2, <2>1, <2>2, TrackFine DEF PInv
<1> QED  BY <1>4, <1>6, <1>7 DEF PInv

LEMMA MarkUnknownStep ==
    ASSUME PInv, MarkUnknown
    PROVE  PInv'
<1>1. PICK q \in PmProcesses : Track([pmRow EXCEPT ![q] = Freed])
  BY DEF MarkUnknown
<1>2. PICK rows : rows = [pmRow EXCEPT ![q] = Freed]
  OBVIOUS
<1>3. UNCHANGED <<pmRegex, pmMade, pmPending>>
  BY DEF MarkUnknown
<1>4. pmRow' = rows
  BY <1>1, <1>2 DEF Track
<1>5. Shape' /\ Reports'
  BY <1>2, <1>3, <1>4, RowFacts DEF PInv, Shape, Reports, Current, PmPatterns
<1>6. ASSUME NEW p \in PmProcesses
      PROVE  Fine(p)'
  <2>1. Steady(p)
    BY <1>3 DEF Steady, PmPatterns
  <2>2. rows[p] # pmRow[p] => Moved(rows[p], p)
    BY <1>2 DEF Moved, PInv, Shape
  <2> QED  BY <1>1, <1>2, <2>1, <2>2, TrackFine DEF PInv
<1> QED  BY <1>5, <1>6 DEF PInv

LEMMA DeleteProcessStep ==
    ASSUME PInv, DeleteProcess
    PROVE  PInv'
<1>1. PICK q \in PmProcesses : /\ pmRow' = [pmRow EXCEPT ![q] = NoRow]
                               /\ pmRaced' = pmRaced \ {q} /\ pmFreed' = pmFreed \ {q}
  BY DEF DeleteProcess
<1>2. UNCHANGED <<pmRegex, pmMade, pmPending>>
  BY DEF DeleteProcess
<1>3. Shape' /\ Reports'
  BY <1>1, <1>2 DEF PInv, Shape, Reports, Current, PmPatterns, Rows
<1>4. ASSUME NEW p \in PmProcesses
      PROVE  Fine(p)'
  <2>1. CASE p = q
    BY <1>1, <2>1 DEF PInv, Shape, Fine
  <2>2. CASE p # q
    BY <1>1, <1>2, <2>2, FineUnchanged DEF PInv, Shape
  <2> QED  BY <2>1, <2>2
<1> QED  BY <1>3, <1>4 DEF PInv

\* The invariant, from which the processes' links follow: no operation of the
\* process monitor leaves it.
THEOREM PmInvariance == PmSpec => []PInv
<1>1. PInv /\ [PmNext]_pmVars => PInv'
  <2> SUFFICES ASSUME PInv, [PmNext]_pmVars
               PROVE  PInv'
    OBVIOUS
  <2>1. CASE UNCHANGED pmVars
    <3>1. Shape' /\ Reports'
      BY <2>1 DEF pmVars, PInv, Shape, Reports, Current, PmPatterns
    <3> QED  BY <2>1, <3>1, FineUnchanged DEF pmVars, PInv
  <2>2. ASSUME NEW a \in PmActors,
               \/ ReportRead(a) \/ ReportWrite(a) \/ CreateCheck(a) \/ CreateWrite(a)
               \/ UpdateCheck(a) \/ UpdateWrite(a) \/ WriteFails(a) \/ DeletePattern(a)
        PROVE  PInv'
    BY <2>2, ReportReadStep, ReportWriteStep, QuietStep, CreateWriteStep, UpdateWriteStep,
       DeletePatternStep
  <2>3. CASE MarkUnknown \/ DeleteProcess
    BY <2>3, MarkUnknownStep, DeleteProcessStep
  <2> QED  BY <2>1, <2>2, <2>3 DEF PmNext
<1> QED  BY InitInv, <1>1, PTL DEF PmSpec

\* Processes and patterns agree whatever reports and requests come between one
\* another's reads and writes (upsert_process, set_process_known, the
\* operations on patterns).
THEOREM LinksAgree == PmSpec => []ProcessLinks
<1>1. PInv => ProcessLinks
  BY FineIsLinks DEF PInv
<1> QED  BY PmInvariance, <1>1, PTL

-----------------------------------------------------------------------------
\* Types: a row, a request or a pattern takes another's place.
LEMMA WorkTyped ==
    ASSUME PmTypeOK, NEW a \in PmActors, NEW w \in PmWork
    PROVE  [pmPending EXCEPT ![a] = w] \in [PmActors -> PmWork]
  BY DEF PmTypeOK

LEMMA NothingTyped == PmNothing \in PmWork
  BY DEF PmWork

\* A session that is overtaken remains what it is.
LEMMA ChangeTyped ==
    ASSUME PmTypeOK, NEW a \in PmActors, PatternsChange(a)
    PROVE  pmPending' \in [PmActors -> PmWork]
<1> DEFINE late(b) == [pmPending[b] EXCEPT !.raced = TRUE]
           now(b) == IF b = a THEN PmNothing
                     ELSE IF pmPending[b] # PmNothing /\ pmPending[b].op = "report"
                          THEN late(b) ELSE pmPending[b]
<1>1. pmPending' = [b \in PmActors |-> now(b)]
  BY DEF PatternsChange
<1>2. ASSUME NEW b \in PmActors, pmPending[b] # PmNothing, pmPending[b].op = "report"
      PROVE  late(b) \in PmWork
  <2>1. pmPending[b] \in [op : {"report"}, p : PmProcesses, match : PmIds \cup {NoLink},
                          raced : BOOLEAN]
    BY <1>2 DEF PmTypeOK, PmWork
  <2> QED BY <2>1 DEF PmWork
<1>3. ASSUME NEW b \in PmActors PROVE now(b) \in PmWork
  <2>1. pmPending[b] \in PmWork
    BY DEF PmTypeOK
  <2> HIDE DEF late
  <2> QED BY <2>1, <1>2, NothingTyped
<1> HIDE DEF now
<1> QED BY <1>1, <1>3

\* Rows that are linked to a pattern with an id that was given, or freed.
LEMMA TrackTyped ==
    ASSUME PmTypeOK, NEW rows \in [PmProcesses -> PmRows], Track(rows)
    PROVE  /\ pmRow' \in [PmProcesses -> PmRows]
           /\ pmRaced' \subseteq PmProcesses /\ pmFreed' \subseteq PmProcesses
  BY DEF Track, PmTypeOK

LEMMA RowsTyped ==
    /\ Freed \in PmRows /\ NoRow \in PmRows
    /\ \A id \in PmIds : To(id) \in PmRows
  BY DEF Freed, To, NoLink, PmRows

\* An id that was given.
LEMMA GivenIds ==
    ASSUME PmTypeOK
    PROVE  PmPatterns \subseteq PmIds
  BY ProcessMonitorAssumption DEF PmTypeOK, PmIds

\* Reads, and writes that fail, change what a session is about to do.
LEMMA PendingTyped ==
    ASSUME PmTypeOK, NEW a \in PmActors, NEW w \in PmWork,
           pmPending' = [pmPending EXCEPT ![a] = w],
           UNCHANGED <<pmRegex, pmMade, pmRow, pmRaced, pmFreed>>
    PROVE  PmTypeOK'
<1>1. pmPending' \in [PmActors -> PmWork]
  BY WorkTyped
<1> QED BY <1>1 DEF PmTypeOK, PmPatterns

LEMMA ReadsTyped ==
    ASSUME PInv, PmTypeOK, NEW a \in PmActors,
           ReportRead(a) \/ CreateCheck(a) \/ UpdateCheck(a) \/ WriteFails(a)
    PROVE  PmTypeOK'
<1>1. CASE ReportRead(a)
  <2>1. PICK p \in PmProcesses : pmPending' = [pmPending EXCEPT ![a] =
                        [op |-> "report", p |-> p, match |-> Match(p), raced |-> FALSE]]
    BY <1>1 DEF ReportRead
  <2>2. Match(p) \in PmIds \cup {NoLink}
    BY MatchIsCurrent, GivenIds DEF PInv
  <2>3. [op |-> "report", p |-> p, match |-> Match(p), raced |-> FALSE] \in PmWork
    BY <2>2 DEF PmWork
  <2> QED BY <1>1, <2>1, <2>3, PendingTyped DEF ReportRead
<1>2. CASE CreateCheck(a)
  <2>1. PICK regex \in PmRegexes \cup {{p} : p \in {q \in PmProcesses : Unlinked(q)}} :
            pmPending' = [pmPending EXCEPT ![a] = [op |-> "create", regex |-> regex]]
    BY <1>2 DEF CreateCheck
  <2>2. regex \in SUBSET PmProcesses
    BY ProcessMonitorAssumption
  <2>3. [op |-> "create", regex |-> regex] \in PmWork
    BY <2>2 DEF PmWork
  <2> QED BY <1>2, <2>1, <2>3, PendingTyped DEF CreateCheck
<1>3. CASE UpdateCheck(a)
  <2>1. PICK id \in PmPatterns, regex \in PmRegexes :
            pmPending' = [pmPending EXCEPT ![a] = [op |-> "update", id |-> id, regex |-> regex]]
    BY <1>3 DEF UpdateCheck
  <2>2. [op |-> "update", id |-> id, regex |-> regex] \in PmWork
    BY GivenIds DEF PmWork
  <2> QED BY <1>3, <2>1, <2>2, PendingTyped DEF UpdateCheck
<1>4. CASE WriteFails(a)
  BY <1>4, NothingTyped, PendingTyped DEF WriteFails, Answered
<1> QED BY <1>1, <1>2, <1>3, <1>4

LEMMA ReportTyped ==
    ASSUME PmTypeOK, NEW a \in PmActors, ReportWrite(a)
    PROVE  PmTypeOK'
<1> DEFINE r == pmPending[a]
           row == IF r.match = NoLink THEN Freed ELSE To(r.match)
<1>1. pmPending' \in [PmActors -> PmWork]
  BY NothingTyped, WorkTyped DEF ReportWrite, Answered
<1>2. CASE pmRow' = [pmRow EXCEPT ![r.p] = row] /\ r.match \in PmPatterns \cup {NoLink}
           /\ pmRaced' = (IF r.raced THEN pmRaced \cup {r.p} ELSE pmRaced \ {r.p})
           /\ pmFreed' = pmFreed \ {r.p}
  <2>1. r \in [op : {"report"}, p : PmProcesses, match : PmIds \cup {NoLink}, raced : BOOLEAN]
    BY DEF PmTypeOK, PmWork, ReportWrite, Rests, PmNothing
  <2>2. row \in PmRows
    BY <1>2, GivenIds, RowsTyped
  <2> HIDE DEF row
  <2>3. pmRow' \in [PmProcesses -> PmRows]
    BY <1>2, <2>2 DEF PmTypeOK
  <2>4. pmRaced' \subseteq PmProcesses /\ pmFreed' \subseteq PmProcesses
    BY <1>2, <2>1 DEF PmTypeOK
  <2> QED BY <1>1, <2>3, <2>4 DEF PmTypeOK, PmPatterns, ReportWrite
<1>3. CASE UNCHANGED <<pmRow, pmRaced, pmFreed>>
  BY <1>1, <1>3 DEF PmTypeOK, PmPatterns, ReportWrite
<1> QED BY <1>2, <1>3 DEF ReportWrite

LEMMA CreateTyped ==
    ASSUME PmTypeOK, NEW a \in PmActors, CreateWrite(a)
    PROVE  PmTypeOK'
<1> DEFINE regex == pmPending[a].regex
           id == pmMade + 1
           rows == [p \in PmProcesses |-> IF p \in regex /\ Unlinked(p) THEN To(id) ELSE pmRow[p]]
<1>1. /\ pmRegex' = [i \in PmPatterns \cup {id} |-> IF i = id THEN regex ELSE pmRegex[i]]
      /\ pmMade' = id /\ Track(rows)
  BY DEF CreateWrite
<1>2. regex \in SUBSET PmProcesses
  BY DEF PmTypeOK, PmWork, CreateWrite, Rests, PmNothing
<1>3. pmMade \in Nat /\ id \in PmIds /\ id \in 0 .. PmMaxPatterns
  <2>1. pmMade \in 0 .. PmMaxPatterns /\ pmMade < PmMaxPatterns
    BY DEF PmTypeOK, CreateWrite
  <2> QED BY <2>1, ProcessMonitorAssumption DEF PmIds
<1>4. pmPending' \in [PmActors -> PmWork]
  BY ChangeTyped DEF CreateWrite
<1>5. PmPatterns' = PmPatterns \cup {id} /\ PmPatterns \cup {id} \subseteq 1 .. id
  BY <1>1, <1>3 DEF PmPatterns, PmTypeOK
<1> HIDE DEF id
<1>6. rows \in [PmProcesses -> PmRows]
  BY <1>3, RowsTyped DEF PmTypeOK
<1> HIDE DEF rows, regex
<1>7. \A i \in PmPatterns' : pmRegex'[i] \in SUBSET PmProcesses
  BY <1>1, <1>2, <1>5 DEF PmTypeOK
<1>8. /\ pmRow' \in [PmProcesses -> PmRows]
      /\ pmRaced' \subseteq PmProcesses /\ pmFreed' \subseteq PmProcesses
  BY <1>1, <1>6, TrackTyped
<1> QED BY <1>1, <1>3, <1>4, <1>5, <1>7, <1>8 DEF PmTypeOK

LEMMA UpdateTyped ==
    ASSUME PmTypeOK, NEW a \in PmActors, UpdateWrite(a)
    PROVE  PmTypeOK'
<1> DEFINE u == pmPending[a]
<1>1. u \in [op : {"update"}, id : PmIds, regex : PmRegexes]
  BY DEF PmTypeOK, PmWork, UpdateWrite, Rests, PmNothing
<1>2. /\ pmRegex' = [pmRegex EXCEPT ![u.id] = u.regex] /\ pmMade' = pmMade
      /\ Track(Relinked(u.id, u.regex))
  BY DEF UpdateWrite
<1>3. u.regex \in SUBSET PmProcesses
  BY <1>1, ProcessMonitorAssumption
<1>4. pmPending' \in [PmActors -> PmWork]
  BY ChangeTyped DEF UpdateWrite
<1>5. Relinked(u.id, u.regex) \in [PmProcesses -> PmRows]
  BY <1>1, RowsTyped DEF Relinked, PmTypeOK
<1>6. /\ pmRow' \in [PmProcesses -> PmRows]
      /\ pmRaced' \subseteq PmProcesses /\ pmFreed' \subseteq PmProcesses
  BY <1>2, <1>5, TrackTyped
<1>7. PmPatterns' = PmPatterns /\ \A i \in PmPatterns : pmRegex'[i] \in SUBSET PmProcesses
  BY <1>2, <1>3 DEF PmPatterns, PmTypeOK
<1> QED BY <1>2, <1>4, <1>6, <1>7 DEF PmTypeOK

LEMMA DeletesTyped ==
    ASSUME PmTypeOK, (\E a \in PmActors : DeletePattern(a)) \/ MarkUnknown \/ DeleteProcess
    PROVE  PmTypeOK'
<1>1. ASSUME NEW a \in PmActors, DeletePattern(a) PROVE PmTypeOK'
  <2>1. PICK id \in PmPatterns :
          /\ pmRegex' = [i \in PmPatterns \ {id} |-> pmRegex[i]]
          /\ Track([p \in PmProcesses |->
                       IF Linked(p) /\ pmRow[p].link = id THEN Freed ELSE pmRow[p]])
    BY <1>1 DEF DeletePattern
  <2> DEFINE rows == [p \in PmProcesses |->
                         IF Linked(p) /\ pmRow[p].link = id THEN Freed ELSE pmRow[p]]
  <2>2. rows \in [PmProcesses -> PmRows]
    BY RowsTyped DEF PmTypeOK
  <2>3. Track(rows)
    BY <2>1
  <2> HIDE DEF rows
  <2>4. /\ pmRow' \in [PmProcesses -> PmRows]
        /\ pmRaced' \subseteq PmProcesses /\ pmFreed' \subseteq PmProcesses
    BY <2>2, <2>3, TrackTyped
  <2>5. pmPending' \in [PmActors -> PmWork]
    BY <1>1, ChangeTyped DEF DeletePattern
  <2>6. PmPatterns' \subseteq PmPatterns /\ \A i \in PmPatterns' : pmRegex'[i] = pmRegex[i]
    BY <2>1 DEF PmPatterns
  <2> QED BY <1>1, <2>4, <2>5, <2>6 DEF PmTypeOK, DeletePattern
<1>2. CASE MarkUnknown
  <2>1. PICK p \in PmProcesses : Track([pmRow EXCEPT ![p] = Freed])
    BY <1>2 DEF MarkUnknown
  <2>2. [pmRow EXCEPT ![p] = Freed] \in [PmProcesses -> PmRows]
    BY RowsTyped DEF PmTypeOK
  <2>3. /\ pmRow' \in [PmProcesses -> PmRows]
        /\ pmRaced' \subseteq PmProcesses /\ pmFreed' \subseteq PmProcesses
    BY <2>1, <2>2, TrackTyped
  <2> QED BY <1>2, <2>3 DEF MarkUnknown, PmTypeOK, PmPatterns
<1>3. CASE DeleteProcess
  <2>1. PICK p \in PmProcesses : /\ pmRow' = [pmRow EXCEPT ![p] = NoRow]
                                 /\ pmRaced' = pmRaced \ {p} /\ pmFreed' = pmFreed \ {p}
    BY <1>3 DEF DeleteProcess
  <2>2. pmRow' \in [PmProcesses -> PmRows]
    BY <2>1, RowsTyped DEF PmTypeOK
  <2> QED BY <1>3, <2>1, <2>2 DEF DeleteProcess, PmTypeOK, PmPatterns
<1> QED BY <1>1, <1>2, <1>3

\* Ids are given up to the bound and stay what they are: every variable of the
\* process monitor keeps its type.
THEOREM ProcessesTyped == PmSpec => []PmTypeOK
<1>1. PmInit => PmTypeOK
  <2> SUFFICES ASSUME PmInit PROVE PmTypeOK
    OBVIOUS
  <2>1. PmPatterns = {} /\ pmMade \in 0 .. PmMaxPatterns
    BY ProcessMonitorAssumption DEF PmInit, PmPatterns
  <2>2. pmRow \in [PmProcesses -> PmRows] /\ pmPending \in [PmActors -> PmWork]
    BY RowsTyped, NothingTyped DEF PmInit
  <2> QED BY <2>1, <2>2 DEF PmInit, PmTypeOK
<1>2. PInv /\ PmTypeOK /\ [PmNext]_pmVars => PmTypeOK'
  <2> SUFFICES ASSUME PInv, PmTypeOK, [PmNext]_pmVars PROVE PmTypeOK'
    OBVIOUS
  <2>1. CASE UNCHANGED pmVars
    BY <2>1 DEF pmVars, PmTypeOK, PmPatterns
  <2>2. ASSUME NEW a \in PmActors,
               \/ ReportRead(a) \/ ReportWrite(a) \/ CreateCheck(a) \/ CreateWrite(a)
               \/ UpdateCheck(a) \/ UpdateWrite(a) \/ WriteFails(a) \/ DeletePattern(a)
        PROVE  PmTypeOK'
    BY <2>2, ReadsTyped, ReportTyped, CreateTyped, UpdateTyped, DeletesTyped
  <2>3. CASE MarkUnknown \/ DeleteProcess
    BY <2>3, DeletesTyped
  <2> QED BY <2>1, <2>2, <2>3 DEF PmNext
<1> QED BY PmInvariance, <1>1, <1>2, PTL DEF PmSpec

(***************************************************************************)
(* Secrets.                                                                *)
(***************************************************************************)

Requests == [kind : {"none", "create", "overwrite", "delete"},
             at : {"none", "store", "row", "exists", "rm", "create"},
             id : 0 .. ScMaxRows, value : ScValues \cup {NoValue}]

\* Requests in progress are of one kind, and know what they begin from: a deletion is
\* alone and has the row that is there, an overwrite finds one too.
Kept ==
    \A a \in ScActors :
       /\ scReq[a].kind = "none" => scReq[a] = NoRequest
       /\ \A b \in ScActors : scReq[a].kind # "none" /\ scReq[b].kind # "none"
             => scReq[a].kind = scReq[b].kind /\ (scReq[a].kind = "delete" => a = b)
       /\ scReq[a].kind = "delete" => scReq[a].id = scRow
       /\ scReq[a].kind \in {"overwrite", "delete"} => scRow # NoId

\* Who is at its last step: a creation that has stored its value, the only one; an
\* overwrite that will store one; a deletion that has removed it.
Stored(a)   == Stands(a, "create", "row") /\ scReq[a].value = scStore
Removing(a) == Stands(a, "overwrite", "create") \/ Stands(a, "delete", "row")
Between ==
    /\ \A a \in ScActors :
          /\ Stands(a, "create", "row") => scRow = NoId /\ Stored(a) /\ scStore # NoValue
          /\ Stands(a, "delete", "rm") => scStore # NoValue
          /\ Stands(a, "delete", "row") => scStore = NoValue
          /\ Stands(a, "create", "store") => scReq[a].value \in ScValues
          /\ Stands(a, "overwrite", "create") => scReq[a].value \in ScValues
          /\ scReq[a].kind = "overwrite" => scReq[a].value \in ScValues
    /\ \A a, b \in ScActors :
          Stands(a, "create", "row") /\ Stands(b, "create", "row") => a = b
    /\ scRow = NoId => scStore = NoValue \/ \E a \in ScActors : Stands(a, "create", "row")
    /\ scRow # NoId => \/ scStore # NoValue /\ scStore = scTold
                       \/ scStore = NoValue /\ \E a \in ScActors : Removing(a)

Smooth == scFaults = 0 /\ ~scMet
SInv == ScTypeOK /\ (Smooth => Kept /\ Between)

-----------------------------------------------------------------------------
\* A request that goes on or ends leaves the others alone.
LEMMA ReqFacts ==
    ASSUME ScTypeOK, NEW a \in ScActors, NEW r \in Requests, scReq' = [scReq EXCEPT ![a] = r]
    PROVE  /\ scReq' \in [ScActors -> Requests] /\ scReq'[a] = r
           /\ \A b \in ScActors : b # a => scReq'[b] = scReq[b]
  BY DEF ScTypeOK, Requests

LEMMA NoRequestFacts == NoRequest \in Requests
  BY SecretsAssumption DEF NoRequest, Requests, NoId, NoValue

\* The request of an actor in progress, at another step.
LEMMA GoesToFacts ==
    ASSUME ScTypeOK, NEW a \in ScActors,
           NEW step \in {"none", "store", "row", "exists", "rm", "create"}, GoesTo(a, step)
    PROVE  /\ scReq' \in [ScActors -> Requests]
           /\ scReq'[a].kind = scReq[a].kind /\ scReq'[a].id = scReq[a].id
           /\ scReq'[a].value = scReq[a].value /\ scReq'[a].at = step
           /\ \A b \in ScActors : b # a => scReq'[b] = scReq[b]
  BY DEF ScTypeOK, Requests, GoesTo

\* Types are kept.
LEMMA TypeKeeps ==
    ASSUME ScTypeOK, ScNext
    PROVE  ScTypeOK'
  <1>0. \A a \in ScActors : scReq[a] \in Requests
    BY DEF ScTypeOK, Requests
  <1>1. ASSUME NEW a \in ScActors, BeginCreate(a) \/ BeginOverwrite(a) \/ BeginDelete(a)
        PROVE  ScTypeOK'
    <2>1. PICK k \in {"create", "overwrite", "delete"}, s \in {"store", "exists", "rm"},
               i \in 0 .. ScMaxRows, v \in ScValues \cup {NoValue} : Begins(a, k, s, i, v)
      <3>1. NoId \in 0 .. ScMaxRows /\ scRow \in 0 .. ScMaxRows
        BY SecretsAssumption DEF ScTypeOK, NoId
      <3>2. CASE BeginCreate(a)
        <4>1. PICK v \in ScValues : Begins(a, "create", "store", NoId, v)
          BY <3>2 DEF BeginCreate
        <4>. QED
          BY <3>1, <4>1
      <3>3. CASE BeginOverwrite(a)
        <4>1. PICK v \in ScValues : Begins(a, "overwrite", "exists", scRow, v)
          BY <3>3 DEF BeginOverwrite
        <4>. QED
          BY <3>1, <4>1
      <3>4. CASE BeginDelete(a)
        BY <3>1, <3>4 DEF BeginDelete
      <3>. QED
        BY <1>1, <3>2, <3>3, <3>4
    <2>. DEFINE r == [kind |-> k, at |-> s, id |-> i, value |-> v]
    <2>2. r \in Requests
      BY DEF Requests
    <2>3. scReq' \in [ScActors -> Requests]
      BY <2>1, <2>2, ReqFacts DEF Begins
    <2>. QED
      BY <1>1, <2>1, <2>3 DEF ScTypeOK, Requests, BeginCreate, BeginOverwrite, BeginDelete, Begins
  <1>2. ASSUME NEW a \in ScActors, NEW step \in {"row", "rm", "create"}, GoesTo(a, step),
               UNCHANGED <<scRow, scMade, scMet, scTold>>, scStore' \in ScValues \cup {NoValue},
               scFaults' \in 0 .. ScMaxFaults
        PROVE  ScTypeOK'
    <2>1. scReq' \in [ScActors -> Requests]
      BY <1>2, GoesToFacts
    <2>. QED
      BY <1>2, <2>1 DEF ScTypeOK, Requests
  <1>3. ASSUME NEW a \in ScActors, Finished(a), UNCHANGED scMet, scRow' \in 0 .. scMade',
               scMade' \in 0 .. ScMaxRows,
               {scStore', scTold'} \subseteq ScValues \cup {NoValue}, scFaults' \in 0 .. ScMaxFaults
        PROVE  ScTypeOK'
    <2>1. scReq' \in [ScActors -> Requests]
      BY <1>3, ReqFacts, NoRequestFacts DEF Finished
    <2>. QED
      BY <1>3, <2>1 DEF ScTypeOK, Requests
  <1>4. ASSUME NEW a \in ScActors,
               \/ CreateStored(a) \/ OverwriteExists(a) \/ OverwriteRm(a) \/ DeleteRm(a)
        PROVE  ScTypeOK'
    <2>1. scReq[a].value \in ScValues \cup {NoValue}
      BY <1>0 DEF Requests
    <2>2. CASE Finished(a)
      BY <1>4, <2>2, <1>3 DEF CreateStored, OverwriteExists, OverwriteRm, DeleteRm, ScTypeOK
    <2>3. CASE \E step \in {"row", "rm", "create"} : GoesTo(a, step)
      BY <1>4, <2>1, <2>3, <1>2 DEF CreateStored, OverwriteExists, OverwriteRm, DeleteRm, ScTypeOK
    <2>. QED
      BY <1>4, <2>2, <2>3 DEF CreateStored, OverwriteExists, OverwriteRm, DeleteRm
  <1>5. ASSUME NEW a \in ScActors, CreateRow(a) \/ OverwriteCreate(a) \/ DeleteRow(a)
        PROVE  ScTypeOK'
    <2>1. scReq[a].value \in ScValues \cup {NoValue}
      BY <1>0 DEF Requests
    <2>2. scRow' \in 0 .. scMade' /\ scMade' \in 0 .. ScMaxRows
      BY <1>5, SecretsAssumption DEF CreateRow, OverwriteCreate, DeleteRow, ScTypeOK, NoId
    <2>3. {scStore', scTold'} \subseteq ScValues \cup {NoValue}
      BY <1>5, <2>1 DEF CreateRow, OverwriteCreate, DeleteRow, ScTypeOK
    <2>. QED
      BY <1>5, <2>2, <2>3, <1>3 DEF CreateRow, OverwriteCreate, DeleteRow, ScTypeOK
  <1>6. ASSUME NEW a \in ScActors, StepGoesWrong(a) PROVE ScTypeOK'
    <2>1. scFaults' \in 0 .. ScMaxFaults
      BY <1>6, SecretsAssumption DEF StepGoesWrong, ScTypeOK
    <2>2. CASE Finished(a)
      BY <1>6, <2>1, <2>2, <1>3 DEF StepGoesWrong, ScTypeOK
    <2>3. CASE GoesTo(a, "create") \/ GoesTo(a, "row")
      BY <1>6, <2>1, <2>3, <1>2 DEF StepGoesWrong, ScTypeOK
    <2>. QED
      BY <1>6, <2>2, <2>3 DEF StepGoesWrong
  <1>7. CASE ServerDies
    <2>1. scReq' \in [ScActors -> Requests]
      BY <1>7, NoRequestFacts DEF ServerDies
    <2>2. scFaults' \in 0 .. ScMaxFaults
      BY <1>7, SecretsAssumption DEF ServerDies, ScTypeOK
    <2>. QED
      BY <1>7, <2>1, <2>2 DEF ServerDies, ScTypeOK, Requests
  <1>. QED
    BY <1>1, <1>4, <1>5, <1>6, <1>7 DEF ScNext

-----------------------------------------------------------------------------
(* What is kept as long as nothing fails and no kinds meet.                *)

\* A request begins.
LEMMA BeginKeeps ==
    ASSUME SInv, NEW a \in ScActors, BeginCreate(a) \/ BeginOverwrite(a) \/ BeginDelete(a),
           Smooth'
    PROVE  Kept' /\ Between'
  <1>1. PICK k \in {"create", "overwrite", "delete"}, s \in {"store", "exists", "rm"},
             i \in 0 .. ScMaxRows, v \in ScValues \cup {NoValue} :
               /\ Begins(a, k, s, i, v)
               /\ k = "create" => s = "store" /\ v \in ScValues
               /\ k = "overwrite" => s = "exists" /\ v \in ScValues /\ scRow # NoId
               /\ k = "delete" => /\ s = "rm" /\ i = scRow /\ scRow # NoId
                                  /\ \A b \in ScActors : scReq[b].kind # "delete"
    <2>1. NoId \in 0 .. ScMaxRows /\ scRow \in 0 .. ScMaxRows
      BY SecretsAssumption DEF SInv, ScTypeOK, NoId
    <2>2. CASE BeginCreate(a)
      <3>1. PICK v \in ScValues : Begins(a, "create", "store", NoId, v)
        BY <2>2 DEF BeginCreate
      <3>. QED
        BY <2>1, <3>1
    <2>3. CASE BeginOverwrite(a)
      <3>1. PICK v \in ScValues : Begins(a, "overwrite", "exists", scRow, v)
        BY <2>3 DEF BeginOverwrite
      <3>. QED
        BY <2>1, <2>3, <3>1 DEF BeginOverwrite
    <2>4. CASE BeginDelete(a)
      BY <2>1, <2>4 DEF BeginDelete
    <2>. QED
      BY <2>2, <2>3, <2>4
  <1>. DEFINE r == [kind |-> k, at |-> s, id |-> i, value |-> v]
  <1>2. r \in Requests
    BY DEF Requests
  <1>3. /\ scReq'[a] = r
        /\ \A b \in ScActors : b # a => scReq'[b] = scReq[b]
    BY <1>1, <1>2, ReqFacts DEF Begins, SInv
  <1>4. /\ UNCHANGED <<scStore, scRow, scTold, scFaults>>
        /\ scReq[a] = NoRequest
    BY <1>1 DEF BeginCreate, BeginOverwrite, BeginDelete, Begins
  <1>5. Smooth /\ \A b \in ScActors : scReq[b].kind \in {"none", k}
    BY <1>1, <1>4 DEF Smooth, Begins, SInv, ScTypeOK
  <1>6. Kept /\ Between
    BY <1>5 DEF SInv
  <1>7. r.kind = k /\ r.at = s /\ r.id = i /\ r.value = v
    OBVIOUS
  <1>. HIDE DEF r
  <1>8. Kept'
    BY <1>1, <1>3, <1>4, <1>5, <1>6, <1>7 DEF Kept
  <1>9. \A b, c \in ScActors :
            Stands(b, "create", "row")' /\ Stands(c, "create", "row")' => b = c
    BY <1>1, <1>3, <1>6, <1>7 DEF Between, Stands
  <1>10. \A b \in ScActors :
            /\ Stands(b, "create", "row")' <=> Stands(b, "create", "row")
            /\ Removing(b)' <=> Removing(b)
    BY <1>1, <1>3, <1>4, <1>7 DEF Stands, NoRequest, Removing
  <1>11. ASSUME NEW b \in ScActors
         PROVE  /\ Stands(b, "create", "row")' => scRow' = NoId /\ Stored(b)' /\ scStore' # NoValue
                /\ Stands(b, "delete", "rm")' => scStore' # NoValue
                /\ Stands(b, "delete", "row")' => scStore' = NoValue
                /\ Stands(b, "create", "store")' => scReq'[b].value \in ScValues
                /\ Stands(b, "overwrite", "create")' => scReq'[b].value \in ScValues
                /\ scReq'[b].kind = "overwrite" => scReq'[b].value \in ScValues
    <2>1. CASE b # a
      BY <1>3, <1>4, <1>6, <2>1 DEF Between, Stands, Stored
    <2>2. CASE b = a
      <3>1. ~Stands(b, "create", "row")'
        BY <1>1, <1>3, <1>7, <2>2 DEF Stands
      <3>2. k = "delete" => scStore # NoValue
        <4>1. k = "delete" => \A d \in ScActors : scReq[d].kind = "none"
          BY <1>1, <1>5
        <4>2. k = "delete" => \A d \in ScActors : ~Removing(d)
          BY <4>1 DEF Removing, Stands
        <4>. QED
          BY <1>1, <1>6, <4>2 DEF Between
      <3>. QED
        BY <1>1, <1>3, <1>4, <1>7, <2>2, <3>1, <3>2 DEF Stands
    <2>. QED
      BY <2>1, <2>2
  <1>12. /\ scRow' = NoId => scStore' = NoValue \/ \E b \in ScActors : Stands(b, "create", "row")'
         /\ scRow' # NoId => \/ scStore' # NoValue /\ scStore' = scTold'
                             \/ scStore' = NoValue /\ \E b \in ScActors : Removing(b)'
    BY <1>4, <1>6, <1>10 DEF Between
  <1>. QED
    BY <1>8, <1>9, <1>11, <1>12 DEF Between, Stands, Stored, Removing

\* A creation stores its value, if the name is free, or ends; then it inserts the row.
LEMMA CreateKeeps ==
    ASSUME SInv, NEW a \in ScActors, CreateStored(a) \/ CreateRow(a), Smooth'
    PROVE  Kept' /\ Between'
  <1>1. Smooth /\ Kept /\ Between /\ ScTypeOK
    BY DEF CreateStored, CreateRow, Smooth, SInv
  <1>2. scReq[a] \in Requests /\ scReq[a].kind = "create" /\ scReq[a] # NoRequest
    BY <1>1 DEF CreateStored, CreateRow, Stands, ScTypeOK, Requests, NoRequest
  <1>3. \A b \in ScActors : scReq[b].kind \in {"none", "create"}
    BY <1>1, <1>2 DEF Kept, ScTypeOK, Requests
  <1>4. \A b \in ScActors : ~Removing(b)
    BY <1>3 DEF Removing, Stands
  <1>5. CASE Finished(a)
    <2>1. /\ scReq'[a] = NoRequest /\ NoRequest.kind = "none"
          /\ \A b \in ScActors : b # a => scReq'[b] = scReq[b]
      BY <1>1, <1>5, ReqFacts, NoRequestFacts DEF Finished, NoRequest
    <2>2. \A b \in ScActors : scReq'[b].kind \in {"none", "create"}
      BY <1>3, <2>1
    <2>3. Kept'
      BY <1>1, <2>1, <2>2 DEF Kept
    <2>4. CASE CreateStored(a)
      <3>1. scStore # NoValue /\ UNCHANGED <<scStore, scRow, scTold>> /\ ~Stands(a, "create", "row")
        <4>1. scStore = NoValue => GoesTo(a, "row")
          BY <2>4 DEF CreateStored
        <4>2. ~GoesTo(a, "row")
          BY <1>1, <1>2, <2>1, GoesToFacts
        <4>. QED
          BY <2>4, <4>1, <4>2 DEF CreateStored, Stands
      <3>2. \A b \in ScActors : Stands(b, "create", "row")' <=> Stands(b, "create", "row")
        BY <2>1, <3>1 DEF Stands
      <3>. QED
        BY <1>1, <1>4, <2>1, <2>2, <2>3, <3>1, <3>2 DEF Between, Stands, Stored, Removing
    <2>5. CASE CreateRow(a)
      <3>1. Stands(a, "create", "row") /\ scRow = NoId /\ scReq[a].value = scStore /\ scStore # NoValue
        BY <1>1, <2>5 DEF CreateRow, Between, Stored
      <3>2. scStore' = scStore /\ scTold' = scStore /\ scRow' = scMade + 1
        BY <2>5, <3>1 DEF CreateRow
      <3>3. scRow' # NoId
        BY <1>1, <3>2, SecretsAssumption DEF ScTypeOK, NoId
      <3>4. \A b \in ScActors : ~Stands(b, "create", "row")'
        BY <1>1, <2>1, <3>1 DEF Between, Stands
      <3>. QED
        BY <1>1, <2>1, <2>2, <2>3, <3>1, <3>2, <3>3, <3>4 DEF Between, Stands, Stored, Removing
    <2>. QED
      BY <2>4, <2>5
  <1>6. CASE ~Finished(a)
    <2>1. CreateStored(a) /\ scStore = NoValue /\ scStore' = scReq[a].value /\ GoesTo(a, "row")
      BY <1>6 DEF CreateStored, CreateRow
    <2>2. UNCHANGED <<scRow, scTold>>
      BY <2>1 DEF CreateStored
    <2>3. /\ scReq'[a].kind = "create" /\ scReq'[a].at = "row" /\ scReq'[a].value = scReq[a].value
          /\ \A b \in ScActors : b # a => scReq'[b] = scReq[b]
      BY <1>1, <1>2, <2>1, GoesToFacts
    <2>4. scReq[a].value \in ScValues
      BY <1>1, <2>1 DEF CreateStored, Between
    <2>5. scStore' # NoValue
      BY <2>1, <2>4, SecretsAssumption DEF NoValue
    <2>6. \A b \in ScActors : ~Stands(b, "create", "row")
      BY <1>1, <2>1 DEF Between
    <2>7. scRow = NoId
      BY <1>1, <1>4, <2>1 DEF Between
    <2>8. \A b \in ScActors : scReq'[b].kind \in {"none", "create"}
      BY <1>3, <2>3
    <2>9. Kept'
      BY <1>1, <2>3, <2>8 DEF Kept
    <2>. QED
      BY <1>1, <2>1, <2>2, <2>3, <2>5, <2>6, <2>7, <2>8, <2>9 DEF Between, Stands, Stored, Removing
  <1>. QED
    BY <1>5, <1>6

\* Overwrites: none of them is told that it succeeded unless its value is in the store,
\* and one that has removed the secret, or found none, is there to store one.
LEMMA OverwriteKeeps ==
    ASSUME SInv, NEW a \in ScActors,
           OverwriteExists(a) \/ OverwriteRm(a) \/ OverwriteCreate(a), Smooth'
    PROVE  Kept' /\ Between'
  <1>1. Smooth /\ Kept /\ Between /\ ScTypeOK
    BY DEF OverwriteExists, OverwriteRm, OverwriteCreate, Smooth, SInv
  <1>2. scReq[a] \in Requests /\ scReq[a].kind = "overwrite"
    BY <1>1 DEF OverwriteExists, OverwriteRm, OverwriteCreate, Stands, ScTypeOK, Requests
  <1>3. \A b \in ScActors : scReq[b].kind \in {"none", "overwrite"}
    BY <1>1, <1>2 DEF Kept, ScTypeOK, Requests
  <1>4. scRow # NoId /\ scRow' = scRow /\ scReq[a].value \in ScValues
    BY <1>1, <1>2 DEF Kept, Between, OverwriteExists, OverwriteRm, OverwriteCreate
  <1>5. CASE OverwriteCreate(a)
    <2>1. /\ scReq'[a] = NoRequest /\ NoRequest.kind = "none"
          /\ \A b \in ScActors : b # a => scReq'[b] = scReq[b]
      BY <1>1, <1>5, ReqFacts, NoRequestFacts DEF OverwriteCreate, Finished, NoRequest
    <2>2. \A b \in ScActors : scReq'[b].kind \in {"none", "overwrite"}
      BY <1>3, <2>1
    <2>3. Kept'
      BY <1>1, <1>4, <2>1, <2>2 DEF Kept
    <2>4. scStore' # NoValue /\ scStore' = scTold'
      <3>1. CASE scStore = NoValue
        BY <1>4, <1>5, <3>1, SecretsAssumption DEF OverwriteCreate, NoValue
      <3>2. CASE scStore # NoValue
        BY <1>1, <1>4, <1>5, <3>2 DEF OverwriteCreate, Between
      <3>. QED
        BY <3>1, <3>2
    <2>. QED
      BY <1>1, <1>4, <2>1, <2>2, <2>3, <2>4 DEF Between, Stands, Stored, Removing
  <1>6. CASE OverwriteExists(a) \/ OverwriteRm(a)
    <2>1. PICK step \in {"create", "rm"} :
             /\ GoesTo(a, step)
             /\ step = "rm" => scStore # NoValue /\ scStore' = scStore
             /\ step = "create" => scStore' = NoValue
      BY <1>6 DEF OverwriteExists, OverwriteRm
    <2>2. /\ scReq'[a].kind = "overwrite" /\ scReq'[a].at = step /\ scReq'[a].value = scReq[a].value
          /\ \A b \in ScActors : b # a => scReq'[b] = scReq[b]
      BY <1>1, <1>2, <2>1, GoesToFacts
    <2>3. \A b \in ScActors : scReq'[b].kind \in {"none", "overwrite"}
      BY <1>3, <2>2
    <2>4. Kept'
      BY <1>1, <1>4, <2>2, <2>3 DEF Kept
    <2>5. scTold' = scTold
      BY <1>6 DEF OverwriteExists, OverwriteRm
    <2>6. \/ scStore' # NoValue /\ scStore' = scTold'
          \/ scStore' = NoValue /\ Removing(a)'
      BY <1>1, <1>4, <2>1, <2>2, <2>5 DEF Between, Removing, Stands
    <2>7. /\ \A b, c \in ScActors :
                 Stands(b, "create", "row")' /\ Stands(c, "create", "row")' => b = c
          /\ \A b \in ScActors : scReq'[b].kind = "overwrite" => scReq'[b].value \in ScValues
      BY <1>1, <1>4, <2>2, <2>3 DEF Between, Stands
    <2>. QED
      BY <1>4, <2>3, <2>4, <2>6, <2>7 DEF Between, Stands, Stored, Removing
  <1>. QED
    BY <1>5, <1>6

\* A deletion is alone: it removes the secret, then the row it read.
LEMMA DeleteKeeps ==
    ASSUME SInv, NEW a \in ScActors, DeleteRm(a) \/ DeleteRow(a), Smooth'
    PROVE  Kept' /\ Between'
  <1>1. Smooth /\ Kept /\ Between /\ ScTypeOK
    BY DEF DeleteRm, DeleteRow, Smooth, SInv
  <1>2. scReq[a] \in Requests /\ scReq[a].kind = "delete"
    BY <1>1 DEF DeleteRm, DeleteRow, Stands, ScTypeOK, Requests
  <1>3. \A b \in ScActors : b # a => scReq[b].kind = "none"
    BY <1>1, <1>2 DEF Kept, ScTypeOK, Requests
  <1>4. scReq[a].id = scRow /\ scRow # NoId
    BY <1>1, <1>2 DEF Kept
  <1>5. CASE DeleteRm(a)
    <2>1. /\ scReq'[a].kind = "delete" /\ scReq'[a].at = "row" /\ scReq'[a].id = scReq[a].id
          /\ \A b \in ScActors : b # a => scReq'[b] = scReq[b]
      BY <1>1, <1>2, <1>5, GoesToFacts DEF DeleteRm
    <2>2. scStore' = NoValue /\ scRow' = scRow
      BY <1>5 DEF DeleteRm
    <2>3. \A b \in ScActors : scReq'[b].kind \in {"none", "delete"}
      BY <1>3, <2>1
    <2>4. Kept'
      BY <1>1, <1>3, <1>4, <2>1, <2>2 DEF Kept
    <2>5. Removing(a)'
      BY <2>1 DEF Removing, Stands
    <2>6. \A b \in ScActors : ~Stands(b, "create", "row")' /\ ~Stands(b, "delete", "rm")'
      BY <1>3, <2>1 DEF Stands
    <2>. QED
      BY <1>4, <2>2, <2>3, <2>4, <2>5, <2>6 DEF Between, Stands, Stored, Removing
  <1>6. CASE DeleteRow(a)
    <2>1. /\ scReq'[a] = NoRequest /\ NoRequest.kind = "none"
          /\ \A b \in ScActors : b # a => scReq'[b] = scReq[b]
      BY <1>1, <1>6, ReqFacts, NoRequestFacts DEF DeleteRow, Finished, NoRequest
    <2>2. \A b \in ScActors : scReq'[b].kind = "none"
      BY <1>3, <2>1
    <2>3. scRow' = NoId /\ scStore' = scStore
      BY <1>4, <1>6 DEF DeleteRow
    <2>4. scStore = NoValue
      <3>1. Stands(a, "delete", "row")
        BY <1>6 DEF DeleteRow
      <3>. QED
        BY <1>1, <1>4, <3>1 DEF Between, Stands
    <2>5. Kept'
      BY <1>1, <2>1, <2>2 DEF Kept
    <2>. QED
      BY <2>2, <2>3, <2>4, <2>5 DEF Between, Stands, Stored, Removing
  <1>. QED
    BY <1>5, <1>6

-----------------------------------------------------------------------------
LEMMA SInvInit ==
    ASSUME ScInit
    PROVE  SInv
  <1>1. NoRequest \in Requests
    BY NoRequestFacts
  <1>2. ScTypeOK
    <2>1. scReq \in [ScActors -> Requests]
      BY <1>1 DEF ScInit
    <2>2. scRow \in 0 .. scMade /\ scMade \in 0 .. ScMaxRows /\ scFaults \in 0 .. ScMaxFaults
      BY SecretsAssumption DEF ScInit, NoId
    <2>3. scMet \in BOOLEAN /\ scStore = NoValue /\ scTold = NoValue
      BY DEF ScInit
    <2>. QED
      BY <2>1, <2>2, <2>3 DEF ScTypeOK, Requests
  <1>3. \A a \in ScActors : scReq[a] = NoRequest /\ scReq[a].kind = "none"
    BY DEF ScInit, NoRequest
  <1>4. Kept /\ Between
    BY <1>3 DEF ScInit, Kept, Between, Stands, Stored, Removing
  <1>. QED
    BY <1>2, <1>4 DEF SInv

LEMMA SInvNext ==
    ASSUME SInv, [ScNext]_scVars
    PROVE  SInv'
  <1>1. CASE UNCHANGED scVars
    BY <1>1 DEF scVars, SInv, ScTypeOK, Smooth, Kept, Between, Stands, Stored, Removing
  <1>2. CASE ScNext
    <2>1. ScTypeOK'
      BY <1>2, TypeKeeps DEF SInv
    <2>2. ASSUME Smooth' PROVE Kept' /\ Between'
      <3>1. ASSUME NEW a \in ScActors, StepGoesWrong(a) \/ ServerDies PROVE FALSE
        BY <2>2, <3>1 DEF StepGoesWrong, ServerDies, Smooth, SInv, ScTypeOK
      <3>2. ~ServerDies
        BY <2>2 DEF ServerDies, Smooth, SInv, ScTypeOK
      <3>. QED
        BY <1>2, <2>2, <3>1, <3>2, BeginKeeps, CreateKeeps, OverwriteKeeps, DeleteKeeps DEF ScNext
    <2>. QED
      BY <2>1, <2>2 DEF SInv
  <1>. QED
    BY <1>1, <1>2

\* While nothing fails and requests of one kind only meet, a creation that has stored its
\* value inserts the row, and whoever removed the value stores one or erases the row.
THEOREM SecretsInvariance == ScSpec => []SInv
  <1>1. ScInit => SInv
    BY SInvInit
  <1>2. SInv /\ [ScNext]_scVars => SInv'
    BY SInvNext
  <1>. QED
    BY <1>1, <1>2, PTL DEF ScSpec

\* Row and secret agree, and have the value last reported as saved, whichever creations
\* raced one another, or overwrites one another.
THEOREM RowAndSecretAgree == ScSpec => []SecretsAgree
  <1>1. SInv => SecretsAgree
    <2>. SUFFICES ASSUME SInv, Quiet, Smooth PROVE SecretsAgree
      BY DEF SecretsAgree, Smooth
    <2>1. \A a \in ScActors : scReq[a].kind = "none"
      <3>1. NoRequest.kind = "none"
        BY DEF NoRequest
      <3>. QED
        BY <3>1 DEF Quiet
    <2>. QED
      BY <2>1 DEF SInv, Between, SecretsAgree, Stands, Removing
  <1>. QED
    BY <1>1, SecretsInvariance, PTL

(***************************************************************************)
(* AgentReports.                                                           *)
(***************************************************************************)

\* What the loop over an image report has built when it is through: without an
\* overflow every key it had is kept, and it told of the others only.
Added(keys, X, acc) ==
    /\ acc.keys \subseteq keys \cup X /\ acc.told \subseteq X
    /\ acc.full \in BOOLEAN
    /\ ~acc.full => keys \subseteq acc.keys /\ acc.told = acc.keys \ keys

LEMMA AddKeyAdds ==
    ASSUME NEW keys, NEW X, NEW acc, Added(keys, X, acc), NEW k \in X
    PROVE  Added(keys, X, AddKey(acc, k))
  BY DEF Added, AddKey

\* Max of the indices that end with n.
LEMMA MaxOf ==
    ASSUME NEW n \in Nat, NEW s \in SUBSET (1 .. n), n \in s
    PROVE  Max(s) = n
<1>1. \A y \in s : n >= y
  OBVIOUS
<1>2. \A x \in s : (\A y \in s : x >= y) => x = n
  OBVIOUS
<1> QED
  BY <1>1, <1>2 DEF Max

\* The equations of the fold over the first n of a sequence.
Folds(g, base, order, n) ==
    g = [s \in SUBSET (1 .. n) |->
            IF s = {} THEN base ELSE AddKey(g[s \ {Max(s)}], order[Max(s)])]

\* They have a solution.
LEMMA FoldExists ==
    ASSUME NEW base, NEW order, NEW n \in Nat
    PROVE  \E g : Folds(g, base, order, n)
<1> DEFINE T == {m \in Nat : ~ \E g : Folds(g, base, order, m)}
<1> SUFFICES ASSUME T # {} PROVE FALSE
  OBVIOUS
<1>1. PICK m \in T : \A y \in T : m <= y
  <2> T \subseteq Nat
    OBVIOUS
  <2> HIDE DEF T
  <2> QED BY Oldest
<1>2. m # 0
  <2> DEFINE g == [s \in SUBSET (1 .. 0) |-> base]
  <2>1. \A s \in SUBSET (1 .. 0) : s = {}
    OBVIOUS
  <2>2. Folds(g, base, order, 0)
    BY <2>1 DEF Folds
  <2> QED BY <2>2, <1>1
<1>3. m - 1 \in Nat /\ m - 1 \notin T
  BY <1>1, <1>2
<1>4. PICK g : Folds(g, base, order, m - 1)
  BY <1>3
<1> DEFINE h == [s \in SUBSET (1 .. m) |->
                    IF m \in s THEN AddKey(g[s \ {m}], order[m]) ELSE g[s]]
<1>5. ASSUME NEW s \in SUBSET (1 .. m), m \in s
      PROVE  h[s] = AddKey(h[s \ {Max(s)}], order[Max(s)])
  <2>1. Max(s) = m
    BY <1>5, MaxOf
  <2>2. s \ {m} \in SUBSET (1 .. m) /\ m \notin s \ {m}
    OBVIOUS
  <2> QED BY <2>1, <2>2, <1>5
<1>6. ASSUME NEW s \in SUBSET (1 .. m), m \notin s, s # {}
      PROVE  h[s] = AddKey(h[s \ {Max(s)}], order[Max(s)])
  <2>1. s \in SUBSET (1 .. (m - 1))
    BY <1>6, <1>3
  <2>2. g[s] = AddKey(g[s \ {Max(s)}], order[Max(s)])
    BY <2>1, <1>4, <1>6 DEF Folds
  <2>3. s \ {Max(s)} \in SUBSET (1 .. m) /\ m \notin s \ {Max(s)}
    BY <1>6
  <2> QED BY <2>2, <2>3, <1>6
<1>7. h[{}] = base
  <2>1. {} \in SUBSET (1 .. (m - 1)) /\ {} \in SUBSET (1 .. m) /\ m \notin {}
    OBVIOUS
  <2>2. g[{}] = base
    BY <2>1, <1>4 DEF Folds
  <2> QED BY <2>1, <2>2
<1>8. Folds(h, base, order, m)
  <2>1. DOMAIN h = SUBSET (1 .. m) /\ h = [s \in DOMAIN h |-> h[s]]
    OBVIOUS
  <2> HIDE DEF h
  <2>2. \A s \in SUBSET (1 .. m) :
          h[s] = IF s = {} THEN base ELSE AddKey(h[s \ {Max(s)}], order[Max(s)])
    BY <1>5, <1>6, <1>7
  <2> QED BY <2>1, <2>2 DEF Folds
<1> QED BY <1>1, <1>8

\* Every step of it keeps Added.
LEMMA FoldsAdd ==
    ASSUME NEW base, NEW order, NEW n \in Nat, NEW keys, NEW X,
           \A i \in 1 .. n : order[i] \in X, Added(keys, X, base),
           NEW g, Folds(g, base, order, n)
    PROVE  Added(keys, X, g[1 .. n])
<1> DEFINE T == {m \in 0 .. n : \E s \in SUBSET (1 .. m) : ~ Added(keys, X, g[s])}
<1> SUFFICES ASSUME T # {} PROVE FALSE
  <2>1. n \in 0 .. n /\ 1 .. n \in SUBSET (1 .. n)
    OBVIOUS
  <2> QED BY <2>1
<1>1. PICK m \in T : \A y \in T : m <= y
  <2> T \subseteq Nat
    OBVIOUS
  <2> HIDE DEF T
  <2> QED BY Oldest
<1>2. PICK s \in SUBSET (1 .. m) : ~ Added(keys, X, g[s])
  BY <1>1
<1>3. s # {}
  <2>1. {} \in SUBSET (1 .. n)
    OBVIOUS
  <2>2. g[{}] = base
    BY <2>1 DEF Folds
  <2> QED BY <2>2, <1>2
<1>4. m \in 0 .. n /\ m # 0
  <2>1. m = 0 => SUBSET (1 .. m) = {{}}
    OBVIOUS
  <2> QED BY <2>1, <1>1, <1>2, <1>3
<1>5. m - 1 \in 0 .. n /\ m - 1 \notin T
  <2>1. m - 1 \in 0 .. n /\ ~(m <= m - 1)
    BY <1>4
  <2> QED BY <2>1, <1>1
<1>6. m \in s
  <2>1. m \notin s => s \in SUBSET (1 .. (m - 1))
    BY <1>4
  <2> QED BY <2>1, <1>5, <1>2
<1>7. Max(s) = m
  BY <1>6, <1>4, MaxOf
<1>8. s \ {m} \in SUBSET (1 .. (m - 1)) /\ s \in SUBSET (1 .. n)
  <2>1. \A i \in s : i \in 1 .. m /\ i \in 1 .. n
    BY <1>4
  <2>2. \A i \in 1 .. m : i # m => i \in 1 .. (m - 1)
    BY <1>4
  <2> QED BY <2>1, <2>2
<1>9. g[s] = AddKey(g[s \ {m}], order[m])
  BY <1>8, <1>7, <1>3 DEF Folds
<1>10. Added(keys, X, g[s \ {m}])
  BY <1>8, <1>5
<1>11. order[m] \in X
  BY <1>4
<1> QED BY <1>9, <1>10, <1>11, <1>2, AddKeyAdds

LEMMA FoldAdds ==
    ASSUME NEW base, NEW order, NEW n \in Nat, DOMAIN order = 1 .. n, NEW keys, NEW X,
           \A i \in 1 .. n : order[i] \in X, Added(keys, X, base)
    PROVE  Added(keys, X, FoldLeft(AddKey, base, order))
<1> DEFINE it == CHOOSE g : g = [s \in SUBSET (1 .. n) |->
                    IF s = {} THEN base ELSE AddKey(g[s \ {Max(s)}], order[Max(s)])]
<1>1. FoldLeft(AddKey, base, order) = it[1 .. n]
  BY DEF FoldLeft, MapThenFoldSet
<1>2. it = CHOOSE g : Folds(g, base, order, n)
  BY DEF Folds
<1>3. Folds(it, base, order, n)
  <2> HIDE DEF it
  <2> QED BY <1>2, FoldExists
<1> HIDE DEF it
<1> QED BY <1>1, <1>3, FoldsAdd

StateReport == [n : Nat, from : UnitStates, to : UnitStates]
ConnectionReport == [n : Nat, todo : SUBSET ArConnections, read : BOOLEAN,
                     rules : SUBSET ArConnections, hook : BOOLEAN,
                     new : ArConnections \cup {NoConnection}]
ImageReport == [n : Nat, updates : SUBSET ArImages]

\* The types the argument needs; a report's number is not given again.
ArShape ==
    /\ arTopic \in {"state", "connections", "images"}
    /\ arUnit \in UnitStates /\ arLast \in UnitStates \cup {Unseen}
    /\ arPending \subseteq ArImages
    /\ arPosts \in Nat /\ arHooked \in BOOLEAN /\ arRules \subseteq ArConnections
    /\ IsFiniteSet(arHandlers)
    /\ arTopic = "state" => arHandlers \subseteq StateReport
    /\ arTopic = "connections" => arHandlers \subseteq ConnectionReport
    /\ arTopic = "images" => arHandlers \subseteq ImageReport
    /\ \A h \in arHandlers : h.n < arPosts

\* A failure that was seen and not told of is in a report the server handles.
FailedIn(H) == {h \in H : h.to = "failed"}
Counted ==
    /\ arFailures \in [seen : Nat, told : Nat]
    /\ arTopic = "state" =>
          /\ arFailures.told + Cardinality(FailedIn(arHandlers)) <= arFailures.seen
          /\ ~arMissed => arFailures.told + Cardinality(FailedIn(arHandlers)) = arFailures.seen
    /\ arTopic # "state" => arFailures.told = arFailures.seen

RowsAlerted ==
    /\ arQuiet \subseteq arRows
    /\ arAlerts \in [ArConnections -> Nat]
    /\ ConnectionsAlertedOnce

\* A key that is not in the dictionary has not been announced.
KeysAnnounced ==
    /\ arAnnounced \in [ArImages -> 0 .. 1]
    /\ \A k \in ArImages \ arNotified : arAnnounced[k] = 0

ArInv == ArShape /\ Counted /\ RowsAlerted /\ KeysAnnounced

-----------------------------------------------------------------------------
LEMMA FailedInFacts ==
    ASSUME NEW H, IsFiniteSet(H)
    PROVE  /\ Cardinality(FailedIn(H)) \in Nat
           /\ FailedIn({}) = {} /\ Cardinality(FailedIn({})) = 0
           /\ \A h : h \notin H =>
                Cardinality(FailedIn(H \cup {h}))
                = Cardinality(FailedIn(H)) + (IF h.to = "failed" THEN 1 ELSE 0)
           /\ \A h \in H :
                Cardinality(FailedIn(H))
                = Cardinality(FailedIn(H \ {h})) + (IF h.to = "failed" THEN 1 ELSE 0)
<1> FailedIn(H) \subseteq H
  BY DEF FailedIn
<1>1. IsFiniteSet(FailedIn(H)) /\ Cardinality(FailedIn(H)) \in Nat
  BY FS_Subset, FS_CardinalityType
<1>2. FailedIn({}) = {} /\ Cardinality(FailedIn({})) = 0
  BY FS_EmptySet DEF FailedIn
<1>3. ASSUME NEW h, h \notin H
      PROVE  Cardinality(FailedIn(H \cup {h}))
             = Cardinality(FailedIn(H)) + (IF h.to = "failed" THEN 1 ELSE 0)
  <2>1. CASE h.to = "failed"
    <3>1. FailedIn(H \cup {h}) = FailedIn(H) \cup {h} /\ h \notin FailedIn(H)
      BY <2>1, <1>3 DEF FailedIn
    <3> QED BY <3>1, <1>1, <2>1, FS_AddElement
  <2>2. CASE h.to # "failed"
    <3>1. FailedIn(H \cup {h}) = FailedIn(H)
      BY <2>2 DEF FailedIn
    <3> QED BY <3>1, <1>1, <2>2
  <2> QED BY <2>1, <2>2
<1>4. ASSUME NEW h \in H
      PROVE  Cardinality(FailedIn(H))
             = Cardinality(FailedIn(H \ {h})) + (IF h.to = "failed" THEN 1 ELSE 0)
  <2>1. CASE h.to = "failed"
    <3>1. FailedIn(H \ {h}) = FailedIn(H) \ {h} /\ h \in FailedIn(H)
      BY <2>1 DEF FailedIn
    <3>2. Cardinality(FailedIn(H) \ {h}) = Cardinality(FailedIn(H)) - 1
      BY <3>1, <1>1, FS_RemoveElement
    <3>3. Cardinality(FailedIn(H \ {h})) = Cardinality(FailedIn(H)) - 1
      BY <3>1, <3>2
    <3> QED BY <3>3, <1>1, <2>1
  <2>2. CASE h.to # "failed"
    <3>1. FailedIn(H \ {h}) = FailedIn(H)
      BY <2>2 DEF FailedIn
    <3> QED BY <3>1, <1>1, <2>2
  <2> QED BY <2>1, <2>2
<1> QED BY <1>1, <1>2, <1>3, <1>4

LEMMA EventsFacts ==
    ASSUME NEW from, NEW to
    PROVE  "on_failure" \in Events(from, to) <=> to = "failed"
  BY DEF Events

LEMMA ArInvTold == ArInv => ReportsToldOnce
<1> SUFFICES ASSUME ArInv PROVE ReportsToldOnce
  OBVIOUS
<1>1. Cardinality(FailedIn(arHandlers)) \in Nat
      /\ (arHandlers = {} => Cardinality(FailedIn(arHandlers)) = 0)
  BY FailedInFacts DEF ArInv, ArShape
<1>2. FailuresTold
  BY <1>1 DEF ArInv, Counted, FailuresTold
<1>3. ConnectionsAlertedOnce /\ UpdatesAnnouncedOnce
  BY DEF ArInv, RowsAlerted, KeysAnnounced, UpdatesAnnouncedOnce
<1> QED BY <1>2, <1>3 DEF ReportsToldOnce

LEMMA ArInvInit == ArInit => ArInv
<1> SUFFICES ASSUME ArInit PROVE ArInv
  OBVIOUS
<1>1. IsFiniteSet(arHandlers) /\ Cardinality(FailedIn(arHandlers)) = 0
  BY FS_EmptySet, FailedInFacts DEF ArInit
<1>2. ArShape
  BY <1>1 DEF ArInit, ArShape, UnitStates
<1>3. Counted
  BY <1>1 DEF ArInit, Counted
<1>4. RowsAlerted /\ KeysAnnounced
  BY DEF ArInit, RowsAlerted, KeysAnnounced, ConnectionsAlertedOnce
<1> QED BY <1>2, <1>3, <1>4 DEF ArInv

\* A post adds a report with a new number, or none.
LEMMA PostShape ==
    ASSUME ArShape, NEW report, report.n = arPosts, Post(report),
           arTopic = "state" => report \in StateReport,
           arTopic = "connections" => report \in ConnectionReport,
           arTopic = "images" => report \in ImageReport,
           UNCHANGED <<arTopic, arUnit, arHooked, arRules, arPending>>,
           arLast' \in UnitStates \cup {Unseen}
    PROVE  ArShape'
<1>1. arPosts \in Nat /\ arPosts' = arPosts + 1
  BY DEF ArShape, Post
<1>2. arHandlers' = arHandlers \/ arHandlers' = arHandlers \cup {report}
  BY DEF Post
<1>3. IsFiniteSet(arHandlers')
  <2>1. IsFiniteSet(arHandlers) /\ IsFiniteSet(arHandlers \cup {report})
    BY FS_AddElement DEF ArShape
  <2> QED BY <2>1, <1>2
<1>4. \A h \in arHandlers' : h.n < arPosts'
  <2>1. \A h \in arHandlers : h.n < arPosts /\ h.n \in Nat
    BY DEF ArShape, StateReport, ConnectionReport, ImageReport
  <2> QED BY <2>1, <1>1, <1>2
<1>5. /\ arTopic' = "state" => arHandlers' \subseteq StateReport
      /\ arTopic' = "connections" => arHandlers' \subseteq ConnectionReport
      /\ arTopic' = "images" => arHandlers' \subseteq ImageReport
  BY <1>2 DEF ArShape
<1> QED BY <1>1, <1>3, <1>4, <1>5 DEF ArShape

\* A handler goes on as r, or ends.
LEMMA HandlerShape ==
    ASSUME ArShape, NEW h \in arHandlers, NEW r, r.n = h.n,
           \/ arHandlers' = arHandlers \ {h}
           \/ /\ arTopic = "connections" /\ r \in ConnectionReport
              /\ arHandlers' = (arHandlers \ {h}) \cup {r},
           UNCHANGED <<arTopic, arUnit, arHooked, arRules, arPending, arPosts, arLast>>
    PROVE  ArShape'
<1>1. IsFiniteSet(arHandlers')
  <2>1. IsFiniteSet(arHandlers \ {h})
    BY FS_Subset DEF ArShape
  <2>2. IsFiniteSet((arHandlers \ {h}) \cup {r})
    BY <2>1, FS_AddElement
  <2> QED BY <2>1, <2>2
<1>2. \A x \in arHandlers' : x.n < arPosts'
  BY DEF ArShape
<1>3. /\ arTopic' = "state" => arHandlers' \subseteq StateReport
      /\ arTopic' = "connections" => arHandlers' \subseteq ConnectionReport
      /\ arTopic' = "images" => arHandlers' \subseteq ImageReport
  BY DEF ArShape
<1> QED BY <1>1, <1>2, <1>3 DEF ArShape

LEMMA ShapeKept ==
    ASSUME ArShape,
           \/ UNCHANGED <<arUnit, arHandlers, arHooked, arRules, arPending, arLast>>
           \/ UNCHANGED <<arHandlers, arHooked, arRules, arPending, arLast>>
              /\ arUnit' \in UnitStates
           \/ UNCHANGED <<arUnit, arHandlers, arHooked, arRules, arLast>>
              /\ arPending' \subseteq ArImages
           \/ UNCHANGED <<arUnit, arHandlers, arRules, arPending, arLast>>
              /\ arHooked' \in BOOLEAN
           \/ UNCHANGED <<arUnit, arHandlers, arHooked, arPending, arLast>>
              /\ arRules' \subseteq ArConnections
           \/ UNCHANGED <<arUnit, arHandlers, arHooked, arRules, arPending>>
              /\ arLast' \in UnitStates \cup {Unseen},
           UNCHANGED <<arTopic, arPosts>>
    PROVE  ArShape'
  BY DEF ArShape

LEMMA ShapeStep == ArShape /\ ArNext => ArShape'
<1> SUFFICES ASSUME ArShape, ArNext PROVE ArShape'
  OBVIOUS
<1>1. UnitChanges => ArShape'
  BY ShapeKept DEF UnitChanges
<1>2. ImageChanges => ArShape'
  <2> SUFFICES ASSUME ImageChanges PROVE ArShape'
    OBVIOUS
  <2>1. arPending' \subseteq ArImages
    BY DEF ImageChanges, ArShape
  <2> QED BY <2>1, ShapeKept DEF ImageChanges
<1>3. SetHook => ArShape'
  <2> SUFFICES ASSUME SetHook PROVE ArShape'
    OBVIOUS
  <2>1. arHooked' \in BOOLEAN
    BY DEF SetHook, ArShape
  <2> QED BY <2>1, ShapeKept DEF SetHook
<1>4. SetRule => ArShape'
  BY ShapeKept DEF SetRule
<1>5. ForgetRows => ArShape'
  BY ShapeKept DEF ForgetRows
<1>6. StateCheck => ArShape'
  <2> SUFFICES ASSUME StateCheck PROVE ArShape'
    OBVIOUS
  <2>1. arLast' \in UnitStates \cup {Unseen} /\ arTopic = "state"
        /\ UNCHANGED <<arTopic, arUnit, arHooked, arRules, arPending>>
    BY DEF StateCheck, ArShape
  <2>2. CASE arLast = Unseen
    BY <2>1, <2>2, ShapeKept DEF StateCheck
  <2>3. CASE arLast # Unseen
    <3> DEFINE r == [n |-> arPosts, from |-> arLast, to |-> arUnit]
    <3>1. r \in StateReport /\ r.n = arPosts
      BY <2>3 DEF ArShape, StateReport
    <3>2. Post(r)
      BY <2>3 DEF StateCheck
    <3> HIDE DEF r
    <3> QED BY <2>1, <3>1, <3>2, PostShape
  <2> QED BY <2>2, <2>3
<1>7. ConnectionCheck => ArShape'
  <2> SUFFICES ASSUME ConnectionCheck PROVE ArShape'
    OBVIOUS
  <2>1. PICK C \in (SUBSET ArConnections) \ {{}} :
          Post([n |-> arPosts, todo |-> C, read |-> FALSE, rules |-> {}, hook |-> FALSE,
                new |-> NoConnection])
    BY DEF ConnectionCheck
  <2> DEFINE r == [n |-> arPosts, todo |-> C, read |-> FALSE, rules |-> {}, hook |-> FALSE,
                   new |-> NoConnection]
  <2>2. r \in ConnectionReport /\ r.n = arPosts
    BY DEF ArShape, ConnectionReport
  <2>3. Post(r)
    BY <2>1
  <2> HIDE DEF r
  <2>4. arTopic = "connections"
        /\ UNCHANGED <<arTopic, arUnit, arHooked, arRules, arPending, arLast>>
    BY DEF ConnectionCheck
  <2>5. arLast' \in UnitStates \cup {Unseen}
    BY <2>4 DEF ArShape
  <2> QED BY <2>2, <2>3, <2>4, <2>5, PostShape
<1>8. ImageCheck => ArShape'
  <2> SUFFICES ASSUME ImageCheck PROVE ArShape'
    OBVIOUS
  <2> DEFINE r == [n |-> arPosts, updates |-> arPending]
  <2>2. r \in ImageReport /\ r.n = arPosts
    BY DEF ArShape, ImageReport
  <2>3. Post(r)
    BY DEF ImageCheck
  <2> HIDE DEF r
  <2>4. arTopic = "images"
        /\ UNCHANGED <<arTopic, arUnit, arHooked, arRules, arPending, arLast>>
    BY DEF ImageCheck
  <2>5. arLast' \in UnitStates \cup {Unseen}
    BY <2>4 DEF ArShape
  <2> QED BY <2>2, <2>3, <2>4, <2>5, PostShape
<1>9. AgentGivesUp => ArShape'
  BY ShapeKept DEF AgentGivesUp
<1>10. ASSUME NEW h \in arHandlers PROVE HandleState(h) => ArShape'
  BY HandlerShape DEF HandleState, Answer
<1>11. ASSUME NEW h \in arHandlers PROVE ReadRules(h) => ArShape'
  <2> SUFFICES ASSUME ReadRules(h) PROVE ArShape'
    OBVIOUS
  <2> DEFINE r == [h EXCEPT !.read = TRUE, !.rules = arRules, !.hook = arHooked]
  <2>1. arTopic = "connections" /\ arHandlers' = (arHandlers \ {h}) \cup {r}
        /\ UNCHANGED <<arTopic, arUnit, arHooked, arRules, arPending, arPosts, arLast>>
    BY DEF ReadRules
  <2>2. h \in ConnectionReport /\ arRules \subseteq ArConnections /\ arHooked \in BOOLEAN
    BY <2>1 DEF ArShape
  <2>3. r \in ConnectionReport /\ r.n = h.n
    BY <2>2 DEF ConnectionReport
  <2> HIDE DEF r
  <2> QED BY <2>1, <2>3, HandlerShape
<1>12. ASSUME NEW h \in arHandlers PROVE FindRow(h) => ArShape'
  <2> SUFFICES ASSUME FindRow(h) PROVE ArShape'
    OBVIOUS
  <2>1. PICK c \in h.todo :
          arHandlers' = (arHandlers \ {h})
                        \cup {[h EXCEPT !.todo = h.todo \ {c},
                                        !.new = IF c \in arRows THEN NoConnection ELSE c]}
    BY DEF FindRow
  <2> DEFINE r == [h EXCEPT !.todo = h.todo \ {c},
                            !.new = IF c \in arRows THEN NoConnection ELSE c]
  <2>2. arTopic = "connections" /\ arHandlers' = (arHandlers \ {h}) \cup {r}
        /\ UNCHANGED <<arTopic, arUnit, arHooked, arRules, arPending, arPosts, arLast>>
    BY <2>1 DEF FindRow
  <2>3. h \in ConnectionReport
    BY <2>2 DEF ArShape
  <2>4. r \in ConnectionReport /\ r.n = h.n
    BY <2>3 DEF ConnectionReport
  <2> HIDE DEF r
  <2> QED BY <2>2, <2>4, HandlerShape
<1>13. ASSUME NEW h \in arHandlers PROVE InsertRow(h) => ArShape'
  <2> SUFFICES ASSUME InsertRow(h) PROVE ArShape'
    OBVIOUS
  <2> DEFINE r == [h EXCEPT !.new = NoConnection]
  <2>1. arTopic = "connections"
        /\ UNCHANGED <<arTopic, arUnit, arHooked, arRules, arPending, arPosts, arLast>>
    BY DEF InsertRow
  <2>2. arHandlers' = (arHandlers \ {h}) \cup {r} \/ arHandlers' = arHandlers \ {h}
    BY DEF InsertRow
  <2>3. h \in ConnectionReport
    BY <2>1 DEF ArShape
  <2>4. r \in ConnectionReport /\ r.n = h.n
    BY <2>3 DEF ConnectionReport
  <2> HIDE DEF r
  <2> QED BY <2>1, <2>2, <2>4, HandlerShape
<1>14. ASSUME NEW h \in arHandlers PROVE HandledConnections(h) => ArShape'
  BY HandlerShape DEF HandledConnections, Answer
<1>15. ASSUME NEW h \in arHandlers PROVE HandleImages(h) => ArShape'
  <2> SUFFICES ASSUME HandleImages(h) PROVE ArShape'
    OBVIOUS
  <2>1. arHandlers' = arHandlers \ {h}
        /\ UNCHANGED <<arTopic, arUnit, arHooked, arRules, arPending, arPosts, arLast>>
    BY DEF HandleImages, Answer
  <2> QED BY <2>1, HandlerShape
<1>16. ASSUME NEW h \in arHandlers PROVE ServerTimesOut(h) => ArShape'
  BY HandlerShape DEF ServerTimesOut, Answer
<1>17. OtherReport => ArShape'
  BY ShapeKept DEF OtherReport
<1>18. ServerRestarts => ArShape'
  BY FS_EmptySet DEF ServerRestarts, ArShape
<1>19. AgentRestarts => ArShape'
  BY ShapeKept DEF AgentRestarts
<1> QED
  BY <1>1, <1>2, <1>3, <1>4, <1>5, <1>6, <1>7, <1>8, <1>9, <1>10, <1>11, <1>12, <1>13, <1>14,
     <1>15, <1>16, <1>17, <1>18, <1>19 DEF ArNext

\* A new report, and one that is answered, in the count of failures.
LEMMA CountKept ==
    ASSUME ArInv, UNCHANGED arFailures, arHandlers' = arHandlers, UNCHANGED arTopic,
           UNCHANGED arMissed
    PROVE  Counted'
  BY DEF ArInv, Counted

LEMMA CountMissed ==
    ASSUME ArInv, UNCHANGED arFailures, UNCHANGED arTopic, arMissed' = TRUE,
           arHandlers' = {} \/ \E h \in arHandlers : arHandlers' = arHandlers \ {h}
    PROVE  Counted'
<1> DEFINE c == Cardinality(FailedIn(arHandlers))
           d == Cardinality(FailedIn(arHandlers'))
<1>1. c \in Nat /\ d \in Nat /\ d <= c
  <2>1. IsFiniteSet(arHandlers)
    BY DEF ArInv, ArShape
  <2>2. CASE arHandlers' = {}
    BY <2>1, <2>2, FailedInFacts
  <2>3. ASSUME NEW h \in arHandlers, arHandlers' = arHandlers \ {h}
        PROVE  c \in Nat /\ d \in Nat /\ d <= c
    <3> IsFiniteSet(arHandlers')
      BY <2>1, <2>3, FS_Subset
    <3>1. c \in Nat /\ d \in Nat
      BY <2>1, FailedInFacts
    <3>2. c = Cardinality(FailedIn(arHandlers \ {h})) + (IF h.to = "failed" THEN 1 ELSE 0)
      BY <2>1, FailedInFacts
    <3>3. d = Cardinality(FailedIn(arHandlers \ {h}))
      BY <2>3
    <3> HIDE DEF c, d
    <3> QED BY <3>1, <3>2, <3>3
  <2> QED BY <2>2, <2>3
<1>2. arFailures \in [seen : Nat, told : Nat]
      /\ (arTopic = "state" => arFailures.told + c <= arFailures.seen)
      /\ (arTopic # "state" => arFailures.told = arFailures.seen)
  BY DEF ArInv, Counted
<1>3. Counted' = /\ arFailures' \in [seen : Nat, told : Nat]
                 /\ arTopic' = "state" =>
                       /\ arFailures.told' + d <= arFailures.seen'
                       /\ ~arMissed' => arFailures.told' + d = arFailures.seen'
                 /\ arTopic' # "state" => arFailures.told' = arFailures.seen'
  BY DEF Counted
<1> HIDE DEF c, d
<1>4. arFailures' \in [seen : Nat, told : Nat]
  BY <1>2
<1>5. arTopic' = "state" => arFailures.told' + d <= arFailures.seen'
  BY <1>1, <1>2
<1> QED BY <1>2, <1>3, <1>4, <1>5

LEMMA StateCheckCounts == ArInv /\ StateCheck => Counted'
<1> SUFFICES ASSUME ArInv, StateCheck PROVE Counted'
  OBVIOUS
<1>1. CASE arLast = Unseen
  <2>1. UNCHANGED <<arHandlers, arFailures, arTopic, arMissed>>
    BY <1>1 DEF StateCheck
  <2> QED BY <2>1, CountKept
<1>2. CASE arLast # Unseen
  <2> DEFINE r == [n |-> arPosts, from |-> arLast, to |-> arUnit]
             c == Cardinality(FailedIn(arHandlers))
             d == Cardinality(FailedIn(arHandlers'))
             one == IF arUnit = "failed" THEN 1 ELSE 0
  <2>1. r \notin arHandlers /\ r.to = arUnit
    BY DEF ArInv, ArShape
  <2>2. IsFiniteSet(arHandlers) /\ arTopic = "state" /\ arTopic' = "state"
    BY DEF ArInv, ArShape, StateCheck
  <2>3. c \in Nat /\ one \in {0, 1}
    BY <2>2, FailedInFacts
  <2>4. arFailures \in [seen : Nat, told : Nat] /\ arFailures.told + c <= arFailures.seen
        /\ (~arMissed => arFailures.told + c = arFailures.seen)
    BY <2>2 DEF ArInv, Counted
  <2>5. arFailures' = [seen |-> arFailures.seen + one, told |-> arFailures.told]
    BY <1>2, <2>4 DEF StateCheck
  <2>6. Post(r)
    BY <1>2 DEF StateCheck
  <2>7. \/ arHandlers' = arHandlers \cup {r} /\ UNCHANGED arMissed
        \/ arHandlers' = arHandlers /\ arMissed' = TRUE
    BY <2>6 DEF Post
  <2>8. Cardinality(FailedIn(arHandlers \cup {r})) = c + one
    BY <2>1, <2>2, FailedInFacts
  <2>9. (d = c + one /\ UNCHANGED arMissed) \/ (d = c /\ arMissed' = TRUE)
    BY <2>7, <2>8
  <2>10. Counted' = /\ arFailures' \in [seen : Nat, told : Nat]
                    /\ arTopic' = "state" =>
                          /\ arFailures.told' + d <= arFailures.seen'
                          /\ ~arMissed' => arFailures.told' + d = arFailures.seen'
                    /\ arTopic' # "state" => arFailures.told' = arFailures.seen'
    BY DEF Counted
  <2> HIDE DEF c, d, one
  <2>11. arFailures' \in [seen : Nat, told : Nat]
         /\ arFailures.told' = arFailures.told /\ arFailures.seen' = arFailures.seen + one
    BY <2>3, <2>4, <2>5
  <2>12. arFailures.told' + d <= arFailures.seen'
    BY <2>11, <2>9, <2>3, <2>4
  <2>13. ~arMissed' => arFailures.told' + d = arFailures.seen'
    <3>1. CASE d = c + one /\ UNCHANGED arMissed
      BY <3>1, <2>11, <2>3, <2>4
    <3>2. CASE arMissed' = TRUE
      BY <3>2
    <3> QED BY <3>1, <3>2, <2>9
  <2> QED BY <2>2, <2>10, <2>11, <2>12, <2>13
<1> QED BY <1>1, <1>2

LEMMA HandleStateCounts ==
    ASSUME ArInv, NEW h \in arHandlers, HandleState(h)
    PROVE  Counted'
<1> DEFINE c == Cardinality(FailedIn(arHandlers))
           d == Cardinality(FailedIn(arHandlers'))
           one == IF h.to = "failed" THEN 1 ELSE 0
           told == IF arHooked /\ h.to = "failed" THEN 1 ELSE 0
<1>1. IsFiniteSet(arHandlers) /\ arTopic = "state" /\ arTopic' = "state"
      /\ arHandlers' = arHandlers \ {h}
  BY DEF ArInv, ArShape, HandleState, Answer
<1>2. c \in Nat /\ one \in {0, 1} /\ told \in {0, 1} /\ told <= one /\ (arHooked => told = one)
  BY <1>1, FailedInFacts
<1>3. IsFiniteSet(arHandlers') /\ d \in Nat
  <2>1. IsFiniteSet(arHandlers')
    BY <1>1, FS_Subset
  <2> QED BY <2>1, FailedInFacts
<1>4. c = Cardinality(FailedIn(arHandlers \ {h})) + one
  BY <1>1, FailedInFacts
<1>5. c = d + one
  BY <1>1, <1>4
<1>6. arFailures \in [seen : Nat, told : Nat] /\ arFailures.told + c <= arFailures.seen
      /\ (~arMissed => arFailures.told + c = arFailures.seen)
  BY <1>1 DEF ArInv, Counted
<1>7. arFailures' = [seen |-> arFailures.seen, told |-> arFailures.told + told]
  <2>1. arFailures' = IF arHooked /\ h.to = "failed"
                      THEN [arFailures EXCEPT !.told = arFailures.told + 1] ELSE arFailures
    BY EventsFacts DEF HandleState
  <2> QED BY <2>1, <1>6
<1>8. arMissed' = (arMissed \/ ~arHooked)
  BY DEF HandleState
<1>9. Counted' = /\ arFailures' \in [seen : Nat, told : Nat]
                 /\ arTopic' = "state" =>
                       /\ arFailures.told' + d <= arFailures.seen'
                       /\ ~arMissed' => arFailures.told' + d = arFailures.seen'
                 /\ arTopic' # "state" => arFailures.told' = arFailures.seen'
  BY DEF Counted
<1> HIDE DEF c, d, one, told
<1>10. arFailures' \in [seen : Nat, told : Nat]
       /\ arFailures.told' = arFailures.told + told /\ arFailures.seen' = arFailures.seen
  BY <1>2, <1>6, <1>7
<1>11. arFailures.told' + d <= arFailures.seen'
  BY <1>10, <1>2, <1>3, <1>5, <1>6
<1>12. ~arMissed' => arFailures.told' + d = arFailures.seen'
  <2> SUFFICES ASSUME ~arMissed' PROVE arFailures.told' + d = arFailures.seen'
    OBVIOUS
  <2>1. ~arMissed /\ arHooked
    BY <1>8
  <2>2. told = one /\ arFailures.told + c = arFailures.seen
    BY <2>1, <1>2, <1>6
  <2> QED BY <2>2, <1>10, <1>2, <1>3, <1>5, <1>6
<1> QED BY <1>1, <1>9, <1>10, <1>11, <1>12

\* The count is about the state topic: in the others nothing is counted.
LEMMA CountOther ==
    ASSUME ArInv, arTopic # "state", UNCHANGED <<arTopic, arFailures>>
    PROVE  Counted'
  BY DEF ArInv, Counted

LEMMA CountedStep == ArInv /\ ArNext => Counted'
<1> SUFFICES ASSUME ArInv, ArNext PROVE Counted'
  OBVIOUS
<1>1. UnitChanges \/ SetHook \/ ForgetRows \/ AgentGivesUp \/ AgentRestarts => Counted'
  BY CountKept DEF UnitChanges, SetHook, ForgetRows, AgentGivesUp, AgentRestarts
<1>2. ImageChanges \/ SetRule \/ ConnectionCheck \/ ImageCheck \/ OtherReport => Counted'
  BY CountOther DEF ImageChanges, SetRule, ConnectionCheck, ImageCheck, OtherReport
<1>3. StateCheck => Counted'
  BY StateCheckCounts
<1>4. ASSUME NEW h \in arHandlers PROVE HandleState(h) => Counted'
  BY HandleStateCounts
<1>5. ASSUME NEW h \in arHandlers
      PROVE  ReadRules(h) \/ FindRow(h) \/ InsertRow(h) \/ HandledConnections(h) => Counted'
  BY CountOther DEF ReadRules, FindRow, InsertRow, HandledConnections
<1>6. ASSUME NEW h \in arHandlers PROVE HandleImages(h) => Counted'
  <2> SUFFICES ASSUME HandleImages(h) PROVE Counted'
    OBVIOUS
  <2>1. arTopic = "images" /\ UNCHANGED <<arTopic, arFailures>>
    BY DEF HandleImages
  <2> QED BY <2>1, CountOther
<1>7. ASSUME NEW h \in arHandlers PROVE ServerTimesOut(h) => Counted'
  BY CountMissed DEF ServerTimesOut, Answer
<1>8. ServerRestarts => Counted'
  BY CountMissed DEF ServerRestarts
<1> QED BY <1>1, <1>2, <1>3, <1>4, <1>5, <1>6, <1>7, <1>8 DEF ArNext

-----------------------------------------------------------------------------
LEMMA RowsStep == ArInv /\ ArNext => RowsAlerted'
<1> SUFFICES ASSUME ArInv, ArNext PROVE RowsAlerted'
  OBVIOUS
<1> USE DEF ArInv
<1>1. UNCHANGED <<arQuiet, arRows, arAlerts>> => RowsAlerted'
  BY DEF RowsAlerted, ConnectionsAlertedOnce
<1>2. UnitChanges \/ ImageChanges \/ SetHook \/ SetRule \/ AgentGivesUp \/ AgentRestarts
      \/ StateCheck \/ ConnectionCheck \/ ImageCheck \/ OtherReport \/ ServerRestarts
      => RowsAlerted'
  BY <1>1 DEF UnitChanges, ImageChanges, SetHook, SetRule, AgentGivesUp, AgentRestarts,
              StateCheck, ConnectionCheck, ImageCheck, OtherReport, ServerRestarts
<1>3. ForgetRows => RowsAlerted'
  BY DEF ForgetRows, RowsAlerted, ConnectionsAlertedOnce
<1>4. ASSUME NEW h \in arHandlers
      PROVE  HandleState(h) \/ ReadRules(h) \/ FindRow(h) \/ HandledConnections(h)
             \/ ServerTimesOut(h) => RowsAlerted'
  BY <1>1 DEF HandleState, ReadRules, FindRow, HandledConnections, ServerTimesOut
<1>5. ASSUME NEW h \in arHandlers PROVE HandleImages(h) => RowsAlerted'
  <2> SUFFICES ASSUME HandleImages(h) PROVE RowsAlerted'
    OBVIOUS
  <2>1. UNCHANGED <<arQuiet, arRows, arAlerts>>
    BY DEF HandleImages
  <2> QED BY <2>1, <1>1
<1>6. ASSUME NEW h \in arHandlers, InsertRow(h) PROVE RowsAlerted'
  <2>1. h.new \in ArConnections
    BY <1>6 DEF InsertRow, ArShape, ConnectionReport
  <2> DEFINE c == h.new
  <2>2. arRows' = arRows \cup {c}
    BY <1>6 DEF InsertRow
  <2>3. CASE c \in arRows
    <3>1. UNCHANGED <<arQuiet, arAlerts>>
      BY <2>3, <1>6 DEF InsertRow
    <3> QED BY <3>1, <2>2, <2>3 DEF RowsAlerted, ConnectionsAlertedOnce
  <2>4. CASE c \notin arRows
    <3>1. arAlerts[c] = 0 /\ c \notin arQuiet /\ Twice(0) = 1
      BY <2>1, <2>4 DEF RowsAlerted, ConnectionsAlertedOnce, Twice
    <3>2. \/ arAlerts' = [arAlerts EXCEPT ![c] = 1] /\ arQuiet' = arQuiet
          \/ arAlerts' = arAlerts /\ arQuiet' = arQuiet \cup {c}
      BY <3>1, <2>4, <1>6 DEF InsertRow
    <3> HIDE DEF c
    <3> QED BY <3>1, <3>2, <2>1, <2>2, <2>4 DEF RowsAlerted, ConnectionsAlertedOnce
  <2> QED BY <2>3, <2>4
<1> QED BY <1>2, <1>3, <1>4, <1>5, <1>6 DEF ArNext

\* An order of a finite set is a sequence of its members.
LEMMA OrdersFacts ==
    ASSUME NEW S, IsFiniteSet(S), NEW order \in Orders(S)
    PROVE  /\ Cardinality(S) \in Nat
           /\ DOMAIN order = 1 .. Cardinality(S)
           /\ \A i \in 1 .. Cardinality(S) : order[i] \in S
  BY FS_CardinalityType DEF Orders

\* What a report of image updates leaves, from the end of its loop.
Stale(e, updates) == (e.keys \cap ArImages) \ updates
Announcements(e, updates) ==
    [k \in ArImages |->
        IF k \in Stale(e, updates) \/ (e.full /\ k \notin e.keys) THEN 0
        ELSE IF k \in e.told \cap arPending
        THEN Twice(IF e.full THEN 0 ELSE arAnnounced[k])
        ELSE IF e.full THEN 0 ELSE arAnnounced[k]]

LEMMA ImagesKeepKeys ==
    ASSUME ArInv, NEW X, NEW updates, NEW end, Added(arNotified, X, end),
           arNotified' = end.keys \ Stale(end, updates),
           arAnnounced' = Announcements(end, updates)
    PROVE  KeysAnnounced'
<1> DEFINE stale == Stale(end, updates)
<1>0. arAnnounced' = [k \in ArImages |->
        IF k \in stale \/ (end.full /\ k \notin end.keys) THEN 0
        ELSE IF k \in end.told \cap arPending
        THEN Twice(IF end.full THEN 0 ELSE arAnnounced[k])
        ELSE IF end.full THEN 0 ELSE arAnnounced[k]]
  BY DEF Announcements
<1> HIDE DEF stale
<1>1. /\ arAnnounced \in [ArImages -> 0 .. 1]
      /\ \A k \in ArImages \ arNotified : arAnnounced[k] = 0
  BY DEF ArInv, KeysAnnounced
<1>2. Twice(0) = 1
  BY DEF Twice
<1>3. ASSUME NEW k \in ArImages
      PROVE  arAnnounced'[k] \in 0 .. 1 /\ (k \notin arNotified' => arAnnounced'[k] = 0)
  <2>1. CASE k \in stale \/ (end.full /\ k \notin end.keys)
    <3>1. arAnnounced'[k] = 0
      BY <2>1, <1>0
    <3> QED BY <3>1
  <2>2. CASE ~(k \in stale \/ (end.full /\ k \notin end.keys)) /\ end.full
    <3>1. k \in arNotified'
      BY <2>2 DEF stale
    <3>2. arAnnounced'[k] \in {0, 1}
      BY <2>2, <1>0, <1>2
    <3> QED BY <3>1, <3>2
  <2>3. CASE ~(k \in stale \/ (end.full /\ k \notin end.keys)) /\ ~end.full
    <3>1. k \in end.told => k \in end.keys /\ k \notin arNotified
      BY <2>3 DEF Added
    <3>2. k \in arNotified => k \in end.keys
      BY <2>3 DEF Added
    <3>3. CASE k \in end.told \cap arPending
      <4>1. arAnnounced[k] = 0 /\ k \in arNotified'
        BY <3>1, <3>3, <1>1, <2>3 DEF stale
      <4>2. arAnnounced'[k] = 1
        BY <4>1, <3>3, <2>3, <1>0, <1>2
      <4> QED BY <4>1, <4>2
    <3>4. CASE k \notin end.told \cap arPending
      <4>1. arAnnounced'[k] = arAnnounced[k]
        BY <3>4, <2>3, <1>0
      <4>2. k \notin arNotified' => k \notin arNotified
        BY <3>2, <2>3 DEF stale
      <4> QED BY <4>1, <4>2, <1>1
    <3> QED BY <3>3, <3>4
  <2> QED
    <3> end.full \in BOOLEAN
      BY DEF Added
    <3> QED BY <2>1, <2>2, <2>3
<1>4. DOMAIN arAnnounced' = ArImages /\ arAnnounced' = [k \in ArImages |-> arAnnounced'[k]]
  BY <1>0
<1>5. arAnnounced' \in [ArImages -> 0 .. 1]
  BY <1>3, <1>4
<1> QED BY <1>3, <1>5 DEF KeysAnnounced

LEMMA KeysStep == ArInv /\ ArNext => KeysAnnounced'
<1> SUFFICES ASSUME ArInv, ArNext PROVE KeysAnnounced'
  OBVIOUS
<1>0. /\ arAnnounced \in [ArImages -> 0 .. 1]
      /\ \A k \in ArImages \ arNotified : arAnnounced[k] = 0
  BY DEF ArInv, KeysAnnounced
<1>1. UNCHANGED <<arAnnounced, arNotified>> => KeysAnnounced'
  BY <1>0 DEF KeysAnnounced
<1>2. UnitChanges \/ SetHook \/ SetRule \/ ForgetRows \/ AgentGivesUp \/ AgentRestarts
      \/ StateCheck \/ ConnectionCheck \/ ImageCheck => KeysAnnounced'
  BY <1>1 DEF UnitChanges, SetHook, SetRule, ForgetRows, AgentGivesUp, AgentRestarts,
              StateCheck, ConnectionCheck, ImageCheck
<1>3. ImageChanges => KeysAnnounced'
  BY <1>0 DEF ImageChanges, KeysAnnounced
<1>4. ServerRestarts => KeysAnnounced'
  BY DEF ServerRestarts, KeysAnnounced
<1>5. ASSUME NEW h \in arHandlers
      PROVE  HandleState(h) \/ ReadRules(h) \/ FindRow(h) \/ InsertRow(h)
             \/ HandledConnections(h) \/ ServerTimesOut(h) => KeysAnnounced'
  BY <1>1 DEF HandleState, ReadRules, FindRow, InsertRow, HandledConnections, ServerTimesOut
<1> DEFINE base == [keys |-> arNotified, told |-> {}, full |-> FALSE]
<1>6. ASSUME NEW X PROVE Added(arNotified, X, base)
  BY DEF Added
<1>7. ASSUME NEW h \in arHandlers, HandleImages(h) PROVE KeysAnnounced'
  <2>1. CASE ~arHooked
    <3>1. UNCHANGED <<arAnnounced, arNotified>>
      BY <2>1, <1>7 DEF HandleImages
    <3> QED BY <3>1, <1>1
  <2>2. CASE arHooked
    <3>1. h.updates \subseteq ArImages /\ IsFiniteSet(h.updates)
      <4>1. h.updates \subseteq ArImages
        BY <1>7 DEF HandleImages, ArInv, ArShape, ImageReport
      <4> QED BY <4>1, FS_Subset, AgentReportsAssumption
    <3>2. PICK order \in Orders(h.updates) :
             LET end == FoldLeft(AddKey, base, order)
                 stale == (end.keys \cap ArImages) \ h.updates
             IN  /\ arNotified' = end.keys \ stale
                 /\ arAnnounced' = [k \in ArImages |->
                          IF k \in stale \/ (end.full /\ k \notin end.keys) THEN 0
                          ELSE IF k \in end.told \cap arPending
                          THEN Twice(IF end.full THEN 0 ELSE arAnnounced[k])
                          ELSE IF end.full THEN 0 ELSE arAnnounced[k]]
      BY <2>2, <1>7 DEF HandleImages
    <3> DEFINE end == FoldLeft(AddKey, base, order)
    <3> HIDE DEF base
    <3>3. Added(arNotified, h.updates, end)
      BY <3>1, <1>6, OrdersFacts, FoldAdds
    <3>4. PICK e : e = end
      OBVIOUS
    <3>5. Added(arNotified, h.updates, e)
      BY <3>3, <3>4
    <3>6. arNotified' = e.keys \ Stale(e, h.updates) /\ arAnnounced' = Announcements(e, h.updates)
      BY <3>2, <3>4 DEF Stale, Announcements
    <3> HIDE DEF end
    <3> QED BY <3>5, <3>6, ImagesKeepKeys
  <2> QED BY <2>1, <2>2
<1>8. OtherReport => KeysAnnounced'
  <2> SUFFICES ASSUME OtherReport PROVE KeysAnnounced'
    OBVIOUS
  <2>1. PICK k \in ArForeign :
          LET end == AddKey(base, k)
          IN  /\ arNotified' = end.keys
              /\ arAnnounced' = IF end.full THEN [i \in ArImages |-> 0] ELSE arAnnounced
    BY DEF OtherReport
  <2> DEFINE end == AddKey(base, k)
  <2> HIDE DEF base
  <2>2. Added(arNotified, ArForeign, end)
    BY <1>6, AddKeyAdds
  <2> HIDE DEF end
  <2>3. arNotified' = end.keys
        /\ arAnnounced' = IF end.full THEN [i \in ArImages |-> 0] ELSE arAnnounced
    BY <2>1 DEF end
  <2> QED BY <2>2, <2>3, <1>0 DEF Added, KeysAnnounced
<1> QED BY <1>2, <1>3, <1>4, <1>5, <1>7, <1>8 DEF ArNext

LEMMA ArInvNext == ArInv /\ [ArNext]_arVars => ArInv'
<1> SUFFICES ASSUME ArInv, [ArNext]_arVars PROVE ArInv'
  OBVIOUS
<1>1. ASSUME ArNext PROVE ArInv'
  <2>1. ArShape'
    BY <1>1, ShapeStep DEF ArInv
  <2> QED BY <2>1, <1>1, CountedStep, RowsStep, KeysStep DEF ArInv
<1>2. ASSUME UNCHANGED arVars PROVE ArInv'
  <2>1. ArShape'
    BY <1>2, ShapeKept DEF ArInv, arVars
  <2>2. Counted'
    BY <1>2, CountKept DEF arVars
  <2>3. RowsAlerted'
    BY <1>2 DEF ArInv, RowsAlerted, ConnectionsAlertedOnce, arVars
  <2>4. KeysAnnounced'
    BY <1>2 DEF ArInv, KeysAnnounced, arVars
  <2> QED BY <2>1, <2>2, <2>3, <2>4 DEF ArInv
<1> QED BY <1>1, <1>2

\* The invariant: what was seen and not told of is in a report that is being handled, an
\* alert goes with its row, an announcement with its key (agent_api.py).
THEOREM ReportsInvariance == ArSpec => []ArInv
<1> QED BY ArInvInit, ArInvNext, PTL DEF ArSpec

\* States, connections and image updates are told of, and told of once, for
\* any number of reports, restarts, refusals and timeouts (agent_api.py).
THEOREM ToldOnce == ArSpec => []ReportsToldOnce
<1> QED BY ReportsInvariance, ArInvTold, PTL

-----------------------------------------------------------------------------
(* Types: bounds, flags, and what the dictionary and the table hold.       *)

ReportFlags == arWaits \in BOOLEAN /\ arMissed \in BOOLEAN
ReportCounts ==
    /\ arPosts <= ArMaxPosts /\ arFaults \in 0 .. ArMaxFaults
    /\ arFailures.seen <= arPosts
ReportStores == arRows \subseteq ArConnections /\ arNotified \subseteq ArImages \cup ArForeign

LEMMA FlagsStep ==
    ASSUME ReportFlags, ArNext
    PROVE  ReportFlags'
<1>1. UNCHANGED <<arWaits, arMissed>> => ReportFlags'
  BY Zenon DEF ReportFlags
<1>2. UnitChanges \/ ImageChanges \/ SetHook \/ SetRule \/ ForgetRows \/ OtherReport
      => ReportFlags'
  BY <1>1 DEF UnitChanges, ImageChanges, SetHook, SetRule, ForgetRows, OtherReport
<1>3. ASSUME NEW report, Post(report) PROVE ReportFlags'
  <2>1. \/ arWaits' = TRUE /\ arMissed' = arMissed
        \/ arWaits' = arWaits /\ arMissed' = TRUE
    BY <1>3, Zenon DEF Post
  <2> QED BY <2>1, Zenon DEF ReportFlags
<1>4. StateCheck \/ ConnectionCheck \/ ImageCheck => ReportFlags'
  BY <1>1, <1>3 DEF StateCheck, ConnectionCheck, ImageCheck
<1>5. ASSUME arWaits' = FALSE, arMissed' = arMissed \/ arMissed' = TRUE PROVE ReportFlags'
  BY <1>5, Zenon DEF ReportFlags
<1>6. AgentGivesUp \/ ServerRestarts \/ AgentRestarts => ReportFlags'
  BY <1>5, Zenon DEF AgentGivesUp, ServerRestarts, AgentRestarts
<1>7. ASSUME NEW h \in arHandlers, Answer(h) PROVE arWaits' \in BOOLEAN
  BY <1>7, Zenon DEF Answer, ReportFlags
<1>8. ASSUME NEW h \in arHandlers, HandleState(h) PROVE ReportFlags'
  <2>1. Answer(h) /\ arMissed' = (arMissed \/ ~arHooked)
    BY <1>8, Zenon DEF HandleState
  <2>2. arMissed' \in BOOLEAN
    BY <2>1, Zenon
  <2> QED BY <2>1, <2>2, <1>7, Zenon DEF ReportFlags
<1>9. ASSUME NEW h \in arHandlers, Answer(h), arMissed' = arMissed \/ arMissed' = TRUE
      PROVE  ReportFlags'
  BY <1>7, <1>9, Zenon DEF ReportFlags
<1>10. ASSUME NEW h \in arHandlers, HandledConnections(h) \/ ServerTimesOut(h) \/ HandleImages(h)
       PROVE  ReportFlags'
  <2>1. Answer(h) /\ (arMissed' = arMissed \/ arMissed' = TRUE)
    BY <1>10, Zenon DEF HandledConnections, ServerTimesOut, HandleImages
  <2> QED BY <2>1, <1>9
<1>11. ASSUME NEW h \in arHandlers, ReadRules(h) \/ FindRow(h) \/ InsertRow(h)
       PROVE  ReportFlags'
  <2>1. UNCHANGED <<arWaits, arMissed>>
    BY <1>11, Zenon DEF ReadRules, FindRow, InsertRow
  <2> QED BY <2>1, <1>1
<1> QED
  BY <1>2, <1>4, <1>6, <1>8, <1>10, <1>11 DEF ArNext

LEMMA CountsStep ==
    ASSUME ArInv, ReportCounts, ArNext
    PROVE  ReportCounts'
<1>0. /\ arPosts \in Nat /\ arFailures \in [seen : Nat, told : Nat]
      /\ ArMaxPosts \in Nat /\ ArMaxFaults \in Nat
      /\ arPosts <= ArMaxPosts /\ arFaults \in 0 .. ArMaxFaults /\ arFailures.seen <= arPosts
  BY AgentReportsAssumption DEF ArInv, ArShape, Counted, ReportCounts
<1>1. ASSUME arPosts' = arPosts, arFailures'.seen = arFailures.seen,
             arFaults' = arFaults \/ (arFaults < ArMaxFaults /\ arFaults' = arFaults + 1)
      PROVE  ReportCounts'
  BY <1>0, <1>1 DEF ReportCounts
<1>2. UnitChanges \/ ImageChanges \/ SetHook \/ SetRule \/ ForgetRows \/ OtherReport
      \/ AgentGivesUp \/ ServerRestarts \/ AgentRestarts => ReportCounts'
  BY <1>1 DEF UnitChanges, ImageChanges, SetHook, SetRule, ForgetRows, OtherReport,
              AgentGivesUp, ServerRestarts, AgentRestarts
<1>3. ASSUME NEW report, Post(report), MayCheck,
             arFailures'.seen \in {arFailures.seen, arFailures.seen + 1}
      PROVE  ReportCounts'
  <2>1. arPosts < ArMaxPosts /\ arPosts' = arPosts + 1
        /\ (arFaults' = arFaults \/ (arFaults < ArMaxFaults /\ arFaults' = arFaults + 1))
    BY <1>3 DEF Post, MayCheck
  <2> QED BY <1>0, <1>3, <2>1 DEF ReportCounts
<1>4. StateCheck => ReportCounts'
  <2> SUFFICES ASSUME StateCheck PROVE ReportCounts'
    OBVIOUS
  <2>1. CASE arLast = Unseen
    BY <1>1, <2>1 DEF StateCheck
  <2>2. CASE arLast # Unseen
    <3>1. arFailures' = IF arUnit = "failed"
                        THEN [arFailures EXCEPT !.seen = arFailures.seen + 1] ELSE arFailures
      BY <2>2 DEF StateCheck
    <3>2. arFailures'.seen \in {arFailures.seen, arFailures.seen + 1}
      BY <1>0, <3>1
    <3> QED BY <2>2, <3>2, <1>3 DEF StateCheck
  <2> QED BY <2>1, <2>2
<1>5. ConnectionCheck \/ ImageCheck => ReportCounts'
  BY <1>3 DEF ConnectionCheck, ImageCheck
<1>6. ASSUME NEW h \in arHandlers, HandleState(h) PROVE ReportCounts'
  <2>1. arFailures'.seen = arFailures.seen
    BY <1>0, <1>6 DEF HandleState
  <2> QED BY <1>1, <1>6, <2>1 DEF HandleState
<1>7. ASSUME NEW h \in arHandlers,
             ReadRules(h) \/ FindRow(h) \/ HandledConnections(h) \/ ServerTimesOut(h)
      PROVE  ReportCounts'
  BY <1>1, <1>7 DEF ReadRules, FindRow, HandledConnections, ServerTimesOut
<1>8. ASSUME NEW h \in arHandlers, HandleImages(h) PROVE ReportCounts'
  <2>1. UNCHANGED <<arPosts, arFailures, arFaults>>
    BY <1>8 DEF HandleImages
  <2> QED BY <2>1, <1>1
<1>9. ASSUME NEW h \in arHandlers, InsertRow(h) PROVE ReportCounts'
  <2>1. arPosts' = arPosts /\ arFailures' = arFailures
        /\ (arFaults' = arFaults \/ (arFaults < ArMaxFaults /\ arFaults' = arFaults + 1))
    BY <1>9 DEF InsertRow
  <2> QED BY <2>1, <1>1
<1> QED
  BY <1>2, <1>4, <1>5, <1>6, <1>7, <1>8, <1>9 DEF ArNext

LEMMA StoresStep ==
    ASSUME ArInv, ReportStores, ArNext
    PROVE  ReportStores'
<1>1. UNCHANGED <<arRows, arNotified>> => ReportStores'
  BY DEF ReportStores
<1>2. UnitChanges \/ ImageChanges \/ SetHook \/ SetRule \/ AgentGivesUp \/ AgentRestarts
      \/ StateCheck \/ ConnectionCheck \/ ImageCheck => ReportStores'
  BY <1>1 DEF UnitChanges, ImageChanges, SetHook, SetRule, AgentGivesUp, AgentRestarts,
              StateCheck, ConnectionCheck, ImageCheck
<1>3. ForgetRows \/ ServerRestarts => ReportStores'
  BY DEF ForgetRows, ServerRestarts, ReportStores
<1>4. ASSUME NEW h \in arHandlers,
             HandleState(h) \/ ReadRules(h) \/ FindRow(h) \/ HandledConnections(h)
             \/ ServerTimesOut(h)
      PROVE  ReportStores'
  BY <1>1, <1>4 DEF HandleState, ReadRules, FindRow, HandledConnections, ServerTimesOut
<1>5. ASSUME NEW h \in arHandlers, InsertRow(h) PROVE ReportStores'
  <2>1. h.new \in ArConnections
    BY <1>5 DEF InsertRow, ArInv, ArShape, ConnectionReport
  <2>2. arRows' = arRows \cup {h.new} /\ arNotified' = arNotified
    BY <1>5 DEF InsertRow
  <2> QED BY <2>1, <2>2 DEF ReportStores
<1> DEFINE base == [keys |-> arNotified, told |-> {}, full |-> FALSE]
<1>6. ASSUME NEW X PROVE Added(arNotified, X, base)
  BY DEF Added
<1>7. ASSUME NEW h \in arHandlers, HandleImages(h) PROVE ReportStores'
  <2>0. arRows' = arRows
    BY <1>7 DEF HandleImages
  <2>1. CASE ~arHooked
    BY <2>0, <2>1, <1>1, <1>7 DEF HandleImages
  <2>2. CASE arHooked
    <3>1. h.updates \subseteq ArImages /\ IsFiniteSet(h.updates)
      <4>1. h.updates \subseteq ArImages
        BY <1>7 DEF HandleImages, ArInv, ArShape, ImageReport
      <4> QED BY <4>1, FS_Subset, AgentReportsAssumption
    <3>2. PICK order \in Orders(h.updates) :
             arNotified' = FoldLeft(AddKey, base, order).keys
                           \ ((FoldLeft(AddKey, base, order).keys \cap ArImages) \ h.updates)
      BY <2>2, <1>7 DEF HandleImages
    <3> DEFINE end == FoldLeft(AddKey, base, order)
    <3> HIDE DEF base
    <3>3. Added(arNotified, h.updates, end)
      BY <3>1, <1>6, OrdersFacts, FoldAdds
    <3>4. arNotified' \subseteq end.keys
      BY <3>2
    <3> HIDE DEF end
    <3>5. end.keys \subseteq arNotified \cup h.updates
      BY <3>3 DEF Added
    <3> QED BY <2>0, <3>1, <3>4, <3>5 DEF ReportStores
  <2> QED BY <2>1, <2>2
<1>8. ASSUME OtherReport PROVE ReportStores'
  <2>1. PICK k \in ArForeign : arNotified' = AddKey(base, k).keys
    BY <1>8 DEF OtherReport
  <2> DEFINE end == AddKey(base, k)
  <2> HIDE DEF base
  <2>2. Added(arNotified, ArForeign, end)
    BY <1>6, AddKeyAdds
  <2>3. arNotified' = end.keys
    BY <2>1
  <2> HIDE DEF end
  <2>4. arRows' = arRows
    BY <1>8 DEF OtherReport
  <2> QED BY <2>2, <2>3, <2>4 DEF Added, ReportStores
<1> QED BY <1>2, <1>3, <1>4, <1>5, <1>7, <1>8 DEF ArNext

LEMMA ReportTypes == ArInv /\ ReportFlags /\ ReportCounts /\ ReportStores => ArTypeOK
<1> SUFFICES ASSUME ArInv, ReportFlags, ReportCounts, ReportStores PROVE ArTypeOK
  OBVIOUS
<1>1. /\ arTopic \in {"state", "connections", "images"}
      /\ arUnit \in UnitStates /\ arLast \in UnitStates \cup {Unseen}
      /\ arPending \subseteq ArImages /\ arHooked \in BOOLEAN /\ arRules \subseteq ArConnections
  BY DEF ArInv, ArShape
<1>2. arPosts \in 0 .. ArMaxPosts /\ arFaults \in 0 .. ArMaxFaults
  BY AgentReportsAssumption DEF ArInv, ArShape, ReportCounts
<1>3. \A h \in arHandlers : h.n \in 0 .. arPosts - 1
  <2>1. \A h \in arHandlers : h.n \in Nat /\ h.n < arPosts /\ arPosts \in Nat
    BY DEF ArInv, ArShape, StateReport, ConnectionReport, ImageReport
  <2> QED BY <2>1
<1>4. arFailures \in [seen : 0 .. ArMaxPosts, told : 0 .. ArMaxPosts]
  <2>1. arFailures \in [seen : Nat, told : Nat] /\ arFailures.seen <= arPosts
        /\ arPosts <= ArMaxPosts /\ arPosts \in Nat /\ ArMaxPosts \in Nat
    BY AgentReportsAssumption DEF ArInv, ArShape, Counted, ReportCounts
  <2>2. arFailures.told <= arFailures.seen
    <3>1. PICK n \in Nat : n = Cardinality(FailedIn(arHandlers))
      BY FailedInFacts DEF ArInv, ArShape
    <3>2. arFailures.told + n <= arFailures.seen \/ arFailures.told = arFailures.seen
      BY <3>1 DEF ArInv, Counted
    <3> QED BY <2>1, <3>1, <3>2
  <2>3. arFailures.seen \in 0 .. ArMaxPosts /\ arFailures.told \in 0 .. ArMaxPosts
    BY <2>1, <2>2
  <2>4. arFailures = [seen |-> arFailures.seen, told |-> arFailures.told]
    BY <2>1
  <2> QED BY <2>3, <2>4
<1>5. arAlerts \in [ArConnections -> 0 .. 2]
  <2>1. \A c \in ArConnections : arAlerts[c] \in 0 .. 2
    BY DEF ArInv, RowsAlerted, ConnectionsAlertedOnce
  <2> QED BY <2>1 DEF ArInv, RowsAlerted
<1>6. arAnnounced \in [ArImages -> 0 .. 2]
  BY DEF ArInv, KeysAnnounced
<1>7. arQuiet \subseteq arRows
  BY DEF ArInv, RowsAlerted
<1> QED
  BY <1>1, <1>2, <1>3, <1>4, <1>5, <1>6, <1>7 DEF ArTypeOK, ReportFlags, ReportStores

\* Every variable of the reports keeps its type: no failure is counted twice, the dictionary
\* holds keys that were reported, the table connections (agent_api.py).
THEOREM ReportsTyped == ArSpec => []ArTypeOK
<1>1. ArInit => ReportFlags /\ ReportCounts /\ ReportStores
  <2> SUFFICES ASSUME ArInit PROVE ReportFlags /\ ReportCounts /\ ReportStores
    OBVIOUS
  <2>1. ReportFlags
    BY DEF ArInit, ReportFlags
  <2>2. arPosts = 0 /\ arFaults = 0 /\ arFailures.seen = 0
    BY DEF ArInit
  <2>3. ReportCounts
    BY <2>2, AgentReportsAssumption DEF ReportCounts
  <2>4. ReportStores
    BY DEF ArInit, ReportStores
  <2> QED BY <2>1, <2>3, <2>4
<1>2. ArInv /\ ReportFlags /\ ReportCounts /\ ReportStores /\ [ArNext]_arVars
      => (ReportFlags /\ ReportCounts /\ ReportStores)'
  <2>1. CASE ArNext
    BY <2>1, FlagsStep, CountsStep, StoresStep
  <2>2. CASE UNCHANGED arVars
    BY <2>2 DEF arVars, ReportFlags, ReportCounts, ReportStores
  <2> QED BY <2>1, <2>2
<1> QED BY <1>1, <1>2, ReportsInvariance, ReportTypes, PTL DEF ArSpec

(***************************************************************************)
(* UnitFields.                                                             *)
(***************************************************************************)

\* Every field has a version that introduced it.
Spanned(s) == \A f \in DOMAIN s : s[f] \in Nat \ {0}

LEMMA SinceSpanned == \A v \in Nat \ {0} : \A F : Spanned(Since(v, F))
  BY DEF Spanned, Since

LEMMA BothSpanned == \A s, t : Spanned(s) /\ Spanned(t) => Spanned(s ++ t)
<1> SUFFICES ASSUME NEW s, NEW t, Spanned(s), Spanned(t), NEW f \in DOMAIN (s ++ t)
             PROVE  (s ++ t)[f] \in Nat \ {0}
  BY DEF Spanned
<1> QED BY DEF Spanned, ++

LEMMA SpansSpanned == \A k \in UfKinds : Spanned(Spans[k])
<1>1. Spanned(ContainerBase) /\ Spanned(ContainerHealth) /\ Spanned(ContainerSecurity)
  BY SinceSpanned, BothSpanned DEF ContainerBase, ContainerHealth, ContainerSecurity
<1>2. Spanned(ContainerService) /\ Spanned(ContainerLabels) /\ Spanned(ContainerLimits)
  BY SinceSpanned, BothSpanned DEF ContainerService, ContainerLabels, ContainerLimits
<1>3. Spanned(ContainerStop) /\ Spanned(ContainerReload) /\ Spanned(ContainerLast)
  BY SinceSpanned, BothSpanned DEF ContainerStop, ContainerReload, ContainerLast
<1>4. Spanned(PodBase ++ PodMaps) /\ Spanned(VolumeSpans) /\ Spanned(ImageSpans)
  BY SinceSpanned, BothSpanned DEF PodBase, PodMaps, VolumeSpans, ImageSpans
<1>5. Spanned(BuildBase ++ BuildRest) /\ Spanned(NetworkBase ++ NetworkRest)
      /\ Spanned(ArtifactSpans)
  BY SinceSpanned, BothSpanned DEF BuildBase, BuildRest, NetworkBase, NetworkRest, ArtifactSpans
<1> DEFINE container == ContainerBase ++ ContainerHealth ++ ContainerSecurity
                        ++ ContainerService ++ ContainerLabels ++ ContainerLimits
                        ++ ContainerStop ++ ContainerReload ++ ContainerLast
           pod == PodBase ++ PodMaps
           build == BuildBase ++ BuildRest
           network == NetworkBase ++ NetworkRest
<1>6. Spanned(container)
  BY <1>1, <1>2, <1>3, BothSpanned
<1>7. Spanned(pod) /\ Spanned(build) /\ Spanned(network)
  BY <1>4, <1>5
<1>8. Spans = [container |-> container, pod |-> pod, volume |-> VolumeSpans,
               image |-> ImageSpans, build |-> build, network |-> network,
               artifact |-> ArtifactSpans]
  BY DEF Spans
<1> HIDE DEF container, pod, build, network
<1> QED BY <1>4, <1>5, <1>6, <1>7, <1>8 DEF UfKinds

\* Whatever is dumped is loaded again.
LEMMA DumpedLoaded == \A k \in UfKinds : Dumped[k] \subseteq Loaded[k]
<1>1. ContainerJson \subseteq ContainerLoads
  BY DEF ContainerJson, ContainerLoads
<1>2. PodJson \subseteq PodLoads /\ ImageJson \subseteq ImageLoads
      /\ BuildJson \subseteq BuildLoads /\ VolumeJson \subseteq VolumeLoads
      /\ NetworkJson \subseteq NetworkLoads /\ ArtifactJson \subseteq ArtifactLoads
  BY DEF PodJson, PodLoads, ImageJson, ImageLoads, BuildJson, BuildLoads, VolumeJson,
         VolumeLoads, NetworkJson, NetworkLoads, ArtifactJson, ArtifactLoads
<1>3. UfKinds = {"container", "pod", "volume", "image", "build", "network", "artifact"}
  BY DEF UfKinds, Spans
<1> QED BY <1>1, <1>2, <1>3 DEF Dumped, Loaded

Needs(f) == Spans[ufKind][f]

\* The types the argument needs: a text in the database is of a field that is
\* loaded again.
UfShape ==
    /\ ufKind \in UfKinds /\ ufFields \subseteq DOMAIN Spans[ufKind]
    /\ ufInstalled \in Nat
    /\ ufCache \subseteq Nat /\ \A v, w \in ufCache : v = w
    /\ DOMAIN ufStored \subseteq ufFields
    /\ ufStored = [f \in DOMAIN ufStored |-> ufStored[f]]
    /\ \A f \in DOMAIN ufStored : ufStored[f] = "text" => f \in Loaded[ufKind]
    /\ ufFile \subseteq ufFields
    /\ \A r \in ufReq : r.set \subseteq ufFields
    /\ ufInvalid \subseteq ufFields
    /\ ufDown \in BOOLEAN /\ ufBlind \in BOOLEAN

\* What the requests, the row and the file ask for is within the installed
\* version, and within the cached one if that is known.
Asked == DOMAIN ufStored \cup UNION {r.set : r \in ufReq}
Within ==
    ~ufDown =>
       /\ \A v \in ufCache : v <= ufInstalled
       /\ \A f \in Asked \cup ufFile : Needs(f) <= ufInstalled
       /\ \A v \in ufCache \ {Unknown} : \A f \in Asked : Needs(f) <= v

UfInv == UfShape /\ Within /\ KeysKept

-----------------------------------------------------------------------------
LEMMA NeedsFacts ==
    ASSUME UfShape
    PROVE  /\ \A f \in ufFields : Needs(f) \in Nat \ {0}
           /\ Around \subseteq Nat /\ Versions \subseteq Nat
<1>1. \A f \in ufFields : Needs(f) \in Nat \ {0}
  BY SpansSpanned DEF UfShape, Needs, Spanned
<1>2. \A n \in Nat \ {0} : n - 1 \in Nat
  OBVIOUS
<1>3. Around = {Needs(f) : f \in ufFields} \cup {Needs(f) - 1 : f \in ufFields}
  BY DEF Around, Needs
<1>4. Around \subseteq Nat
  BY <1>1, <1>2, <1>3
<1> QED BY <1>1, <1>4 DEF Versions, Unknown

\* get_features gives the cached version, or the installed one, or none.
LEMMA FeaturesFacts ==
    ASSUME UfShape, NEW v \in Versions, GetFeatures(v)
    PROVE  /\ v \in Nat /\ ufCache' = {v}
           /\ v \in ufCache \cup {ufInstalled, Unknown}
<1>1. v \in Nat
  BY NeedsFacts
<1> QED BY <1>1 DEF GetFeatures, UfShape, Unknown

\* Within a known version, the templates leave no field out.
LEMMA RenderedAll ==
    ASSUME UfShape, NEW F \in SUBSET ufFields, NEW v \in Nat, v # Unknown,
           \A f \in F : Needs(f) <= v
    PROVE  Rendered(F, v) = F
  BY NeedsFacts DEF Rendered, Available, Needs

LEMMA RenderedSome == \A F, v : Rendered(F, v) \subseteq F
  BY DEF Rendered

\* A field that is stored is read back as it was set.
LEMMA StoreFacts ==
    ASSUME UfShape, NEW F \in SUBSET ufFields
    PROVE  /\ DOMAIN Store(F) = F
           /\ Store(F) = [f \in DOMAIN Store(F) |-> Store(F)[f]]
           /\ \A f \in F : Store(F)[f] = "text" => f \in Loaded[ufKind]
           /\ ReadBack(Store(F)) = F
<1>1. DOMAIN Store(F) = F /\ Store(F) = [f \in DOMAIN Store(F) |-> Store(F)[f]]
  BY DEF Store
<1>2. \A f \in F : Store(F)[f] = "text" => f \in Dumped[ufKind]
  BY DEF Store
<1>3. Dumped[ufKind] \subseteq Loaded[ufKind]
  BY DumpedLoaded DEF UfShape
<1> QED BY <1>1, <1>2, <1>3 DEF ReadBack

LEMMA SanitizedFacts ==
    ASSUME UfShape
    PROVE  /\ DOMAIN Sanitized(ufStored) \subseteq DOMAIN ufStored
           /\ Sanitized(ufStored) = [f \in DOMAIN Sanitized(ufStored) |-> Sanitized(ufStored)[f]]
           /\ \A f \in DOMAIN Sanitized(ufStored) :
                Sanitized(ufStored)[f] = "text" => f \in Loaded[ufKind]
           /\ ReadBack(Sanitized(ufStored)) = DOMAIN Sanitized(ufStored)
           /\ ufInvalid = {} => Sanitized(ufStored) = ufStored
<1> DEFINE D == DOMAIN ufStored \ {f \in DOMAIN ufStored : f \in ufInvalid /\ ufStored[f] = "value"}
<1>1. Sanitized(ufStored) = [f \in D |-> ufStored[f]] /\ D \subseteq DOMAIN ufStored
  BY DEF Sanitized
<1>2. ufInvalid = {} => D = DOMAIN ufStored
  OBVIOUS
<1> HIDE DEF D
<1>3. /\ DOMAIN Sanitized(ufStored) = D
      /\ Sanitized(ufStored) = [f \in DOMAIN Sanitized(ufStored) |-> Sanitized(ufStored)[f]]
      /\ \A f \in D : Sanitized(ufStored)[f] = "text" => f \in Loaded[ufKind]
  BY <1>1 DEF UfShape
<1>4. ReadBack(Sanitized(ufStored)) = D
  BY <1>3 DEF ReadBack
<1>5. ufInvalid = {} => Sanitized(ufStored) = ufStored
  BY <1>1, <1>2 DEF UfShape
<1> QED BY <1>1, <1>3, <1>4, <1>5

LEMMA UfInvInit == UfInit => UfInv
<1> SUFFICES ASSUME UfInit PROVE UfInv
  OBVIOUS
<1>1. ufKind \in UfKinds /\ ufFields \subseteq DOMAIN Spans[ufKind]
  BY UnitFieldsAssumption DEF UfInit
<1>2. ufInstalled \in Nat
  <2>1. \A f \in ufFields : Spans[ufKind][f] \in Nat \ {0}
    BY <1>1, SpansSpanned DEF Spanned
  <2>2. \A n \in Nat \ {0} : n - 1 \in Nat
    OBVIOUS
  <2> QED BY <2>1, <2>2 DEF UfInit, Around
<1>3. ufStored = [f \in {} |-> "value"] /\ DOMAIN ufStored = {} /\ Asked = {}
  BY DEF UfInit, Asked
<1>4. UfShape
  BY <1>1, <1>2, <1>3 DEF UfInit, UfShape
<1>5. Within /\ KeysKept
  BY <1>3 DEF UfInit, Within, KeysKept
<1> QED BY <1>4, <1>5 DEF UfInv

LEMMA UfInvKeys == UfInv => KeysSupported /\ KeysKept
  BY DEF UfInv, Within, KeysSupported, Needs

LEMMA PackageKeeps == UfInv /\ UfPackage => UfInv'
<1> SUFFICES ASSUME UfInv, UfPackage PROVE UfInv'
  OBVIOUS
<1>1. PICK v \in Around \ {ufInstalled} : ufInstalled' = v /\ ufDown' = (ufDown \/ v < ufInstalled)
  BY DEF UfPackage
<1>2. UNCHANGED <<ufKind, ufFields, ufCache, ufUnit, ufStored, ufFile, ufReq, ufInvalid, ufBlind>>
  BY DEF UfPackage
<1>3. v \in Nat /\ ufInstalled \in Nat
  BY NeedsFacts DEF UfInv, UfShape
<1>4. UfShape'
  BY <1>1, <1>2, <1>3 DEF UfInv, UfShape
<1>5. ASSUME ~ufDown' PROVE ~ufDown /\ ufInstalled <= v
  <2>1. ~ufDown /\ ~(v < ufInstalled)
    BY <1>5, <1>1, Zenon
  <2> QED BY <2>1, <1>3
<1>6. Within'
  <2> SUFFICES ASSUME ~ufDown'
               PROVE  /\ \A c \in ufCache : c <= v
                      /\ \A f \in Asked \cup ufFile : Needs(f) <= v
                      /\ \A c \in ufCache \ {Unknown} : \A f \in Asked : Needs(f) <= c
    BY <1>1, <1>2 DEF Within, Asked, Needs
  <2>1. ufCache \subseteq Nat /\ \A f \in Asked \cup ufFile : Needs(f) \in Nat
    BY NeedsFacts DEF UfInv, UfShape, Asked
  <2> QED BY <2>1, <1>3, <1>5 DEF UfInv, Within
<1>7. KeysKept'
  BY <1>2, <1>5 DEF UfInv, KeysKept
<1> QED BY <1>4, <1>6, <1>7 DEF UfInv

\* A step that leaves the cache, the installed version and the history alone,
\* and asks for nothing more.
LEMMA AsksNoMore ==
    ASSUME Within, UNCHANGED <<ufKind, ufInstalled, ufDown>>, ufCache' \subseteq ufCache,
           Asked' \subseteq Asked, ufFile' \subseteq ufFile
    PROVE  Within'
  BY DEF Within, Needs

\* A step that asks get_features: what is asked for is within the version it
\* gives, or was asked for before.
LEMMA FeaturesWithin ==
    ASSUME UfShape, Within, UNCHANGED <<ufKind, ufInstalled, ufDown>>,
           NEW v \in Versions, GetFeatures(v),
           Asked' \cup ufFile' \subseteq ufFields,
           ufFile' \subseteq ufFile \cup Asked,
           \A f \in Asked' : f \in Asked \/ (v # Unknown /\ Needs(f) <= v)
    PROVE  Within'
<1>1. v \in Nat /\ ufCache' = {v} /\ v \in ufCache \cup {ufInstalled, Unknown}
  BY FeaturesFacts
<1>3. ufInstalled \in Nat /\ Unknown = 0 /\ \A f \in ufFields : Needs(f) \in Nat
  BY NeedsFacts DEF UfShape, Unknown
<1> SUFFICES ASSUME ~ufDown
             PROVE  /\ \A c \in ufCache' : c <= ufInstalled
                    /\ \A f \in Asked' \cup ufFile' : Needs(f) <= ufInstalled
                    /\ \A c \in ufCache' \ {Unknown} : \A f \in Asked' : Needs(f) <= c
  BY DEF Within, Needs
<1>4. /\ \A c \in ufCache : c <= ufInstalled
      /\ \A f \in Asked \cup ufFile : Needs(f) <= ufInstalled
      /\ \A c \in ufCache \ {Unknown} : \A f \in Asked : Needs(f) <= c
  BY DEF Within
<1>5. \A c \in ufCache' : c <= ufInstalled
  BY <1>1, <1>3, <1>4
<1>6. v <= ufInstalled
  BY <1>1, <1>5
<1>7. \A f \in Asked' \cup ufFile' : Needs(f) <= ufInstalled
  BY <1>1, <1>3, <1>4, <1>6
<1>8. ASSUME NEW f \in Asked', v # Unknown PROVE Needs(f) <= v
  <2>1. CASE f \in Asked /\ v \in ufCache
    BY <2>1, <1>4, <1>8
  <2>2. CASE f \in Asked /\ v = ufInstalled
    BY <2>2, <1>4
  <2> QED BY <2>1, <2>2, <1>1, <1>8
<1> QED BY <1>5, <1>7, <1>8, <1>1

\* UfShape, for a step that leaves the kind and the installed version alone.
LEMMA ShapeFrom ==
    ASSUME UfShape, UNCHANGED <<ufKind, ufFields, ufInstalled, ufDown>>,
           ufCache' = ufCache \/ ufCache' = {} \/ \E v \in Nat : ufCache' = {v},
           NEW stored, ufStored' = stored, DOMAIN stored \subseteq ufFields,
           stored = [f \in DOMAIN stored |-> stored[f]],
           \A f \in DOMAIN stored : stored[f] = "text" => f \in Loaded[ufKind],
           ufFile' \subseteq ufFields, \A r \in ufReq' : r.set \subseteq ufFields,
           ufInvalid' \subseteq ufFields, ufBlind' \in BOOLEAN
    PROVE  UfShape'
<1>1. ufCache' \subseteq Nat /\ \A v, w \in ufCache' : v = w
  BY DEF UfShape
<1> QED BY <1>1 DEF UfShape

LEMMA SubmitKeeps == UfInv /\ UfSubmit => UfInv'
<1> SUFFICES ASSUME UfInv, UfSubmit PROVE UfInv'
  OBVIOUS
<1>1. PICK op \in IF ufKind = "volume" THEN {"add"} ELSE {"add", "update"},
           F \in SUBSET (ufFields \ ufInvalid), v \in Versions :
          /\ GetFeatures(v)
          /\ ufReq' = IF /\ op = "add" /\ ufKind \in DOMAIN KindSince
                            => v >= KindSince[ufKind]
                         /\ Accepted(F, v)
                      THEN {[op |-> op, set |-> F]} ELSE {}
  BY DEF UfSubmit
<1>2. /\ ufReq = {}
      /\ UNCHANGED <<ufKind, ufFields, ufInstalled, ufUnit, ufStored, ufFile, ufInvalid,
                     ufDown, ufBlind>>
  BY DEF UfSubmit
<1>3. UfShape /\ Within /\ KeysKept
  BY DEF UfInv
<1>4. v \in Nat /\ ufCache' = {v}
  BY <1>1, <1>3, FeaturesFacts
<1>5. ufReq' = {} \/ (ufReq' = {[op |-> op, set |-> F]} /\ Accepted(F, v))
  BY <1>1
<1>6. \A r \in ufReq' : r.set \subseteq ufFields
  BY <1>5
<1>7. UfShape'
  <2>1. /\ DOMAIN ufStored \subseteq ufFields /\ ufStored = [f \in DOMAIN ufStored |-> ufStored[f]]
        /\ \A f \in DOMAIN ufStored : ufStored[f] = "text" => f \in Loaded[ufKind]
        /\ ufFile \subseteq ufFields /\ ufInvalid \subseteq ufFields /\ ufBlind \in BOOLEAN
    BY <1>3 DEF UfShape
  <2> QED BY <2>1, <1>2, <1>3, <1>4, <1>6, ShapeFrom
<1>8. Within'
  <2>1. Asked = DOMAIN ufStored
    BY <1>2 DEF Asked
  <2>2. Asked' = DOMAIN ufStored \/ (Asked' = DOMAIN ufStored \cup F /\ Accepted(F, v))
    BY <1>2, <1>5 DEF Asked
  <2>3. Asked' \cup ufFile' \subseteq ufFields /\ ufFile' \subseteq ufFile \cup Asked
    BY <2>2, <1>2, <1>3 DEF UfShape
  <2>4. Accepted(F, v) => \A f \in F : v # Unknown /\ Needs(f) <= v
    <3>1. \A f \in F : Needs(f) \in Nat
      BY <1>3, NeedsFacts
    <3> QED BY <3>1, <1>4 DEF Accepted, Available, Needs
  <2>5. \A f \in Asked' : f \in Asked \/ (v # Unknown /\ Needs(f) <= v)
    BY <2>1, <2>2, <2>4
  <2> QED BY <2>3, <2>5, <1>1, <1>2, <1>3, FeaturesWithin
<1>9. KeysKept'
  BY <1>2, <1>3 DEF KeysKept
<1> QED BY <1>7, <1>8, <1>9 DEF UfInv

LEMMA ApplyKeeps == UfInv /\ UfApply => UfInv'
<1> SUFFICES ASSUME UfInv, UfApply PROVE UfInv'
  OBVIOUS
<1>1. PICK r \in ufReq, v \in Versions :
          /\ GetFeatures(v)
          /\ ufFile' = Rendered(IF r.op = "add" THEN Fresh(r.set)
                                ELSE ReadBack(Store(r.set)), v)
          /\ ufBlind' = (v = Unknown)
          /\ ufStored' = Store(r.set)
  BY DEF UfApply
<1>2. ufReq' = {} /\ UNCHANGED <<ufKind, ufFields, ufInstalled, ufInvalid, ufDown>>
  BY DEF UfApply
<1>3. UfShape /\ Within
  BY DEF UfInv
<1> DEFINE F == r.set
           G == IF r.op = "add" THEN Fresh(F) ELSE ReadBack(Store(F))
<1>4. F \in SUBSET ufFields
  BY <1>3 DEF UfShape
<1>5. /\ DOMAIN Store(F) = F
      /\ Store(F) = [f \in DOMAIN Store(F) |-> Store(F)[f]]
      /\ \A f \in F : Store(F)[f] = "text" => f \in Loaded[ufKind]
      /\ ReadBack(Store(F)) = F
  BY <1>3, <1>4, StoreFacts
<1>6. G = F \/ (ufKind = "network" /\ G = F \ {"network_name"})
  BY <1>5 DEF Fresh
<1>7. ufFile' \subseteq F
  BY <1>1, <1>6, RenderedSome
<1>8. v \in Nat /\ ufCache' = {v}
  BY <1>1, <1>3, FeaturesFacts
<1>9. UfShape'
  <2>1. ufInvalid \subseteq ufFields /\ ufBlind' \in BOOLEAN
    BY <1>1, <1>3 DEF UfShape
  <2>2. ufFile' \subseteq ufFields /\ \A x \in ufReq' : x.set \subseteq ufFields
    BY <1>2, <1>4, <1>7
  <2>3. PICK t : t = Store(F)
    OBVIOUS
  <2>4. /\ ufStored' = t /\ DOMAIN t \subseteq ufFields /\ t = [f \in DOMAIN t |-> t[f]]
        /\ \A f \in DOMAIN t : t[f] = "text" => f \in Loaded[ufKind]
    BY <2>3, <1>1, <1>4, <1>5
  <2> QED BY <2>1, <2>2, <2>4, <1>2, <1>3, <1>8, ShapeFrom
<1>10. Within'
  <2>1. Asked' = F
    BY <1>1, <1>2, <1>5 DEF Asked
  <2>2. F \subseteq Asked
    BY DEF Asked
  <2> HIDE DEF F
  <2> QED BY <2>1, <2>2, <1>1, <1>2, <1>3, <1>4, <1>7, FeaturesWithin
<1>11. KeysKept'
  <2> SUFFICES ASSUME ~ufDown', v # Unknown
               PROVE  \/ ufFile' = F
                      \/ ufKind = "network" /\ ufFile' = F \ {"network_name"}
    BY <1>1, <1>2, <1>5 DEF KeysKept
  <2>1. \A f \in F : Needs(f) <= v
    <3>1. Asked' = F
      BY <1>1, <1>2, <1>5 DEF Asked
    <3>2. v \in ufCache' \ {Unknown}
      BY <1>8
    <3>3. \A f \in F : Needs(f)' = Needs(f)
      BY <1>2 DEF Needs
    <3> HIDE DEF F
    <3> QED BY <3>1, <3>2, <3>3, <1>10 DEF Within
  <2>2. G \in SUBSET ufFields /\ \A f \in G : Needs(f) <= v
    BY <2>1, <1>4, <1>6
  <2>3. ufFile' = Rendered(G, v)
    BY <1>1
  <2> HIDE DEF F, G
  <2>4. ufFile' = G
    BY <2>2, <2>3, <1>3, <1>8, RenderedAll
  <2> QED BY <2>4, <1>6
<1> QED BY <1>9, <1>10, <1>11 DEF UfInv

LEMMA ResyncKeeps == UfInv /\ UfResync => UfInv'
<1> SUFFICES ASSUME UfInv, UfResync PROVE UfInv'
  OBVIOUS
<1>1. PICK v \in Versions :
          /\ GetFeatures(v)
          /\ ufFile' = Rendered(ReadBack(Sanitized(ufStored)), v)
          /\ ufBlind' = (v = Unknown)
  BY DEF UfResync
<1>2. /\ ufStored' = Sanitized(ufStored)
      /\ UNCHANGED <<ufKind, ufFields, ufInstalled, ufReq, ufInvalid, ufDown>>
  BY DEF UfResync
<1>3. UfShape /\ Within
  BY DEF UfInv
<1>4. PICK t : t = Sanitized(ufStored)
  OBVIOUS
<1>5. /\ DOMAIN t \subseteq DOMAIN ufStored /\ t = [f \in DOMAIN t |-> t[f]]
      /\ \A f \in DOMAIN t : t[f] = "text" => f \in Loaded[ufKind]
      /\ ReadBack(t) = DOMAIN t
  BY <1>3, <1>4, SanitizedFacts
<1>6. ufStored' = t /\ DOMAIN t \subseteq ufFields
  BY <1>2, <1>3, <1>4, <1>5 DEF UfShape
<1>7. ufFile' = Rendered(DOMAIN t, v)
  BY <1>1, <1>4, <1>5
<1>8. ufFile' \subseteq DOMAIN t
  BY <1>7, RenderedSome
<1>9. v \in Nat /\ ufCache' = {v}
  BY <1>1, <1>3, FeaturesFacts
<1>10. UfShape'
  <2>1. /\ ufInvalid \subseteq ufFields /\ ufBlind' \in BOOLEAN
        /\ \A r \in ufReq : r.set \subseteq ufFields
    BY <1>1, <1>3 DEF UfShape
  <2>2. ufFile' \subseteq ufFields
    BY <1>6, <1>8
  <2> QED BY <2>1, <2>2, <1>2, <1>3, <1>5, <1>6, <1>9, ShapeFrom
<1>11. Asked' \subseteq Asked /\ ufFile' \subseteq Asked /\ Asked \subseteq ufFields
  BY <1>2, <1>3, <1>5, <1>6, <1>8 DEF Asked, UfShape
<1>12. Within'
  BY <1>11, <1>1, <1>2, <1>3, FeaturesWithin
<1>13. KeysKept'
  <2> SUFFICES ASSUME ~ufDown', v # Unknown PROVE ufFile' = DOMAIN t
    BY <1>1, <1>2, <1>6 DEF KeysKept
  <2>1. \A f \in DOMAIN t : f \in Asked' /\ Needs(f)' = Needs(f)
    BY <1>2, <1>6 DEF Asked, Needs
  <2>2. \A f \in DOMAIN t : Needs(f) <= v
    BY <2>1, <1>9, <1>12 DEF Within
  <2> QED BY <2>2, <1>3, <1>6, <1>7, <1>9, RenderedAll
<1> QED BY <1>10, <1>12, <1>13 DEF UfInv

LEMMA ReadKeeps == UfInv /\ UfRead => UfInv'
<1> SUFFICES ASSUME UfInv, UfRead PROVE UfInv'
  OBVIOUS
<1>1. /\ ufStored' = Sanitized(ufStored) /\ ufStored # Sanitized(ufStored)
      /\ UNCHANGED <<ufKind, ufFields, ufInstalled, ufCache, ufUnit, ufFile, ufReq, ufInvalid,
                     ufDown, ufBlind>>
  BY DEF UfRead
<1>2. UfShape /\ Within
  BY DEF UfInv
<1>3. PICK t : t = Sanitized(ufStored)
  OBVIOUS
<1>4. /\ DOMAIN t \subseteq DOMAIN ufStored /\ t = [f \in DOMAIN t |-> t[f]]
      /\ \A f \in DOMAIN t : t[f] = "text" => f \in Loaded[ufKind]
      /\ ufInvalid # {}
  BY <1>1, <1>2, <1>3, SanitizedFacts
<1>5. UfShape'
  <2>1. /\ ufFile \subseteq ufFields /\ ufInvalid \subseteq ufFields /\ ufBlind \in BOOLEAN
        /\ DOMAIN t \subseteq ufFields /\ \A r \in ufReq : r.set \subseteq ufFields
    BY <1>2, <1>4 DEF UfShape
  <2> QED BY <2>1, <1>1, <1>2, <1>3, <1>4, ShapeFrom
<1>6. Within'
  <2>1. Asked' \subseteq Asked
    BY <1>1, <1>3, <1>4 DEF Asked
  <2> QED BY <2>1, <1>1, <1>2, AsksNoMore
<1>7. KeysKept'
  BY <1>1, <1>4 DEF KeysKept
<1> QED BY <1>5, <1>6, <1>7 DEF UfInv

\* The row, the requests and the rules as they are.
LEMMA ShapeSame ==
    ASSUME UfShape, UNCHANGED <<ufKind, ufFields, ufInstalled, ufStored, ufFile, ufDown, ufBlind>>,
           ufCache' = ufCache \/ ufCache' = {} \/ \E v \in Nat : ufCache' = {v},
           ufReq' \subseteq ufReq, ufInvalid' \subseteq ufFields
    PROVE  UfShape'
<1>1. /\ DOMAIN ufStored \subseteq ufFields /\ ufStored = [f \in DOMAIN ufStored |-> ufStored[f]]
      /\ \A f \in DOMAIN ufStored : ufStored[f] = "text" => f \in Loaded[ufKind]
      /\ ufFile \subseteq ufFields /\ ufBlind \in BOOLEAN
      /\ \A r \in ufReq : r.set \subseteq ufFields
  BY DEF UfShape
<1> QED BY <1>1, ShapeFrom

LEMMA RefuseKeeps == UfInv /\ UfRefuse => UfInv'
<1> SUFFICES ASSUME UfInv, UfRefuse PROVE UfInv'
  OBVIOUS
<1>1. /\ ufReq' = {}
      /\ UNCHANGED <<ufKind, ufFields, ufInstalled, ufCache, ufUnit, ufStored, ufFile, ufInvalid,
                     ufDown, ufBlind>>
  BY DEF UfRefuse
<1>2. UfShape'
  <2>1. UfShape /\ ufInvalid' \subseteq ufFields
    BY <1>1 DEF UfInv, UfShape
  <2> QED BY <2>1, <1>1, ShapeSame
<1>3. Within'
  <2>1. Asked' \subseteq Asked
    BY <1>1 DEF Asked
  <2> QED BY <2>1, <1>1, AsksNoMore DEF UfInv
<1>4. KeysKept'
  BY <1>1 DEF UfInv, KeysKept
<1> QED BY <1>2, <1>3, <1>4 DEF UfInv

LEMMA DeleteKeepsKeys == UfInv /\ UfDelete => UfInv'
<1> SUFFICES ASSUME UfInv, UfDelete PROVE UfInv'
  OBVIOUS
<1>1. /\ ufUnit' = FALSE /\ ufStored' = [f \in {} |-> "value"] /\ ufFile' = {} /\ ufBlind' = FALSE
      /\ UNCHANGED <<ufKind, ufFields, ufInstalled, ufCache, ufReq, ufInvalid, ufDown>>
  BY DEF UfDelete
<1>2. PICK t : t = [f \in {} |-> "value"]
  OBVIOUS
<1>3. DOMAIN t = {} /\ t = [f \in DOMAIN t |-> t[f]]
  BY <1>2
<1>4. UfShape'
  <2>1. /\ UfShape /\ ufInvalid' \subseteq ufFields /\ ufBlind' \in BOOLEAN
        /\ \A r \in ufReq' : r.set \subseteq ufFields
    BY <1>1 DEF UfInv, UfShape
  <2>2. ufStored' = t /\ DOMAIN t \subseteq ufFields /\ ufFile' \subseteq ufFields
        /\ \A f \in DOMAIN t : t[f] = "text" => f \in Loaded[ufKind]
    BY <1>1, <1>2, <1>3
  <2> QED BY <2>1, <2>2, <1>1, <1>3, ShapeFrom
<1>5. Within'
  <2>1. Asked' \subseteq Asked /\ ufFile' \subseteq ufFile
    BY <1>1, <1>2, <1>3 DEF Asked
  <2> QED BY <2>1, <1>1, AsksNoMore DEF UfInv
<1>6. KeysKept'
  BY <1>1 DEF KeysKept
<1> QED BY <1>4, <1>5, <1>6 DEF UfInv

LEMMA RestartKeeps == UfInv /\ UfRestart => UfInv'
<1> SUFFICES ASSUME UfInv, UfRestart PROVE UfInv'
  OBVIOUS
<1>1. PICK v \in Versions : (v = ufInstalled \/ v = Unknown) /\ ufCache' = {v}
  BY DEF UfRestart
<1>2. /\ ufInvalid' \in {ufInvalid, ufFields} /\ ufReq' = {}
      /\ UNCHANGED <<ufKind, ufFields, ufInstalled, ufUnit, ufStored, ufFile, ufDown, ufBlind>>
  BY DEF UfRestart
<1>3. UfShape /\ Within /\ KeysKept /\ v \in Nat
  BY NeedsFacts DEF UfInv
<1>4. UfShape'
  <2>1. ufInvalid' \subseteq ufFields
    BY <1>2, <1>3 DEF UfShape
  <2> QED BY <2>1, <1>1, <1>2, <1>3, ShapeSame
<1>5. Within'
  <2> SUFFICES ASSUME ~ufDown
               PROVE  /\ v <= ufInstalled
                      /\ \A f \in Asked' \cup ufFile : Needs(f) <= ufInstalled
                      /\ v # Unknown => \A f \in Asked' : Needs(f) <= v
    BY <1>1, <1>2 DEF Within, Needs
  <2>1. Asked' \subseteq Asked
    BY <1>2 DEF Asked
  <2>2. \A f \in Asked' \cup ufFile : Needs(f) <= ufInstalled
    BY <2>1, <1>3 DEF Within
  <2>3. ufInstalled \in Nat /\ Unknown = 0
    BY <1>3 DEF UfShape, Unknown
  <2> QED BY <2>2, <2>3, <1>1
<1>6. KeysKept'
  <2>1. ufInvalid' = {} => ufInvalid = {}
    BY <1>2, <1>3 DEF UfShape
  <2> QED BY <2>1, <1>2, <1>3 DEF KeysKept
<1> QED BY <1>4, <1>5, <1>6 DEF UfInv

LEMMA WatchKeeps ==
    ASSUME UfInv, UfWatchCheck \/ UfWatchClear \/ UfWatchFill
    PROVE  UfInv'
<1>1. /\ UNCHANGED <<ufKind, ufFields, ufInstalled, ufUnit, ufStored, ufFile, ufReq, ufInvalid,
                     ufDown, ufBlind>>
      /\ \/ ufCache' \in {ufCache, {}}
         \/ \E v \in Versions : GetFeatures(v)
  BY DEF UfWatchCheck, UfWatchClear, UfWatchFill
<1>2. UfShape /\ Within /\ KeysKept
  BY DEF UfInv
<1>3. Asked' = Asked /\ ufFile' = ufFile /\ Asked \cup ufFile \subseteq ufFields
  BY <1>1, <1>2 DEF Asked, UfShape
<1>4. KeysKept'
  BY <1>1, <1>2 DEF KeysKept
<1>5. ufInvalid' \subseteq ufFields
  BY <1>1, <1>2 DEF UfShape
<1>6. CASE ufCache' \in {ufCache, {}}
  <2>1. UfShape'
    BY <1>1, <1>2, <1>5, <1>6, ShapeSame
  <2>2. Within'
    BY <1>1, <1>2, <1>3, <1>6, AsksNoMore
  <2> QED BY <2>1, <2>2, <1>4 DEF UfInv
<1>7. ASSUME NEW v \in Versions, GetFeatures(v) PROVE UfInv'
  <2>1. v \in Nat /\ ufCache' = {v}
    BY <1>2, <1>7, FeaturesFacts
  <2>2. UfShape'
    BY <2>1, <1>1, <1>2, <1>5, ShapeSame
  <2>3. Within'
    BY <1>1, <1>2, <1>3, <1>7, FeaturesWithin
  <2> QED BY <2>2, <2>3, <1>4 DEF UfInv
<1> QED BY <1>1, <1>6, <1>7

LEMMA UfInvNext == UfInv /\ [UfNext]_ufVars => UfInv'
<1> SUFFICES ASSUME UfInv, [UfNext]_ufVars PROVE UfInv'
  OBVIOUS
<1>1. CASE UfNext
  BY <1>1, PackageKeeps, SubmitKeeps, ApplyKeeps, RefuseKeeps, ReadKeeps, ResyncKeeps,
     DeleteKeepsKeys, RestartKeeps, WatchKeeps DEF UfNext
<1>2. CASE UNCHANGED ufVars
  <2>1. /\ UNCHANGED <<ufKind, ufFields, ufInstalled, ufCache, ufUnit, ufStored, ufFile, ufReq,
                       ufInvalid, ufDown, ufBlind>>
    BY <1>2 DEF ufVars
  <2>2. UfShape'
    <3>1. UfShape /\ ufInvalid' \subseteq ufFields
      BY <2>1 DEF UfInv, UfShape
    <3> QED BY <3>1, <2>1, ShapeSame
  <2>3. Within'
    <3>1. Asked' \subseteq Asked
      BY <2>1 DEF Asked
    <3> QED BY <3>1, <2>1, AsksNoMore DEF UfInv
  <2>4. KeysKept'
    BY <2>1 DEF UfInv, KeysKept
  <2> QED BY <2>2, <2>3, <2>4 DEF UfInv
<1> QED BY <1>1, <1>2

\* The invariant: what the row, the requests and the file ask of Podman is within the
\* installed version, and row and requests within the cached one (podman.py).
THEOREM FieldsInvariance == UfSpec => []UfInv
<1> QED BY UfInvInit, UfInvNext, PTL DEF UfSpec

\* validate_version_spans and the templates keep a unit file within the
\* installed Podman, for every field of every kind, however late the watch is.
THEOREM KeysAreSupported == UfSpec => []KeysSupported
<1> QED BY FieldsInvariance, UfInvKeys, PTL

\* Neither the JSON columns nor the gates of the templates lose a field that
\* was accepted, for every field of every kind.
THEOREM KeysAreKept == UfSpec => []KeysKept
<1> QED BY FieldsInvariance, UfInvKeys, PTL

-----------------------------------------------------------------------------
(* Types: what UfTypeOK says beyond UfShape.                               *)

UfCaches == {{v} : v \in Versions} \cup {{}}
UfRequests == {{[op |-> o, set |-> F]} : o \in {"add", "update"}, F \in SUBSET ufFields} \cup {{}}
UfConstants ==
    /\ \E s \in UfSets : ufKind = s[1] /\ ufFields = s[2]
    /\ ufInstalled \in Around
    /\ ufInvalid \subseteq ufFields
UfHeld ==
    /\ ufCache \in UfCaches /\ ufReq \in UfRequests
    /\ ufUnit \in BOOLEAN /\ ufWatch \in {"idle", "stale", "cleared"}
    /\ \A f \in DOMAIN ufStored : ufStored[f] \in {"value", "text"}
UfCounts == ufChanges \in 0 .. UfMaxChanges /\ ufFaults \in 0 .. UfMaxFaults

\* The kind and its fields never change, and with them what a version may be.
LEMMA SameFields ==
    ASSUME UNCHANGED <<ufKind, ufFields>>
    PROVE  Around' = Around /\ Versions' = Versions /\ UfCaches' = UfCaches
           /\ UfRequests' = UfRequests
  BY DEF Around, Versions, UfCaches, UfRequests

LEMMA FieldsStay == UfNext => UNCHANGED <<ufKind, ufFields>>
  BY DEF UfNext, UfPackage, UfSubmit, UfApply, UfRefuse, UfRead, UfResync, UfDelete, UfRestart,
         UfWatchCheck, UfWatchClear, UfWatchFill

LEMMA ConstantsStep ==
    ASSUME UfConstants, UfNext
    PROVE  UfConstants'
<1>1. UNCHANGED <<ufKind, ufFields>>
  BY FieldsStay
<1>2. ufInstalled' \in Around
  BY DEF UfNext, UfPackage, UfSubmit, UfApply, UfRefuse, UfRead, UfResync, UfDelete, UfRestart,
         UfWatchCheck, UfWatchClear, UfWatchFill, UfConstants
<1>3. ufInvalid' = ufInvalid \/ ufInvalid' \in {ufInvalid, ufFields}
  BY DEF UfNext, UfPackage, UfSubmit, UfApply, UfRefuse, UfRead, UfResync, UfDelete, UfRestart,
         UfWatchCheck, UfWatchClear, UfWatchFill
<1> QED BY <1>1, <1>2, <1>3, SameFields DEF UfConstants

\* get_features leaves a cache with one version.
LEMMA CachedTyped ==
    ASSUME ufCache \in UfCaches, NEW v \in Versions, GetFeatures(v)
    PROVE  ufCache' \in UfCaches
  BY DEF GetFeatures, UfCaches

LEMMA StoredTyped ==
    /\ \A F : \A f \in DOMAIN Store(F) : Store(F)[f] \in {"value", "text"}
    /\ (\A f \in DOMAIN ufStored : ufStored[f] \in {"value", "text"})
       => \A f \in DOMAIN Sanitized(ufStored) : Sanitized(ufStored)[f] \in {"value", "text"}
  BY DEF Store, Sanitized

LEMMA HeldStep ==
    ASSUME UfHeld, UfNext
    PROVE  UfHeld'
<1>0. Versions' = Versions /\ UfCaches' = UfCaches /\ UfRequests' = UfRequests
  BY FieldsStay, SameFields
<1>1. {} \in UfCaches /\ {} \in UfRequests
  BY DEF UfCaches, UfRequests
<1>2. ASSUME UfPackage \/ UfRefuse \/ UfWatchCheck \/ UfWatchClear PROVE UfHeld'
  <2>1. ufCache' \in UfCaches /\ ufReq' \in UfRequests
    BY <1>1, <1>2 DEF UfPackage, UfRefuse, UfWatchCheck, UfWatchClear, UfHeld
  <2>2. UNCHANGED <<ufUnit, ufStored>> /\ ufWatch' \in {"idle", "stale", "cleared"}
    BY <1>2 DEF UfPackage, UfRefuse, UfWatchCheck, UfWatchClear, UfHeld
  <2> QED BY <1>0, <2>1, <2>2 DEF UfHeld
<1>3. ASSUME UfSubmit PROVE UfHeld'
  <2>1. PICK op \in {"add", "update"}, F \in SUBSET ufFields, v \in Versions :
          /\ GetFeatures(v)
          /\ ufReq' = {[op |-> op, set |-> F]} \/ ufReq' = {}
    BY <1>3 DEF UfSubmit
  <2>2. ufCache' \in UfCaches
    BY <2>1, CachedTyped DEF UfHeld
  <2>3. ufReq' \in UfRequests
    BY <2>1, <1>1 DEF UfRequests
  <2>4. UNCHANGED <<ufUnit, ufStored, ufWatch>>
    BY <1>3 DEF UfSubmit
  <2> QED BY <1>0, <2>2, <2>3, <2>4 DEF UfHeld
<1>4. ASSUME UfApply PROVE UfHeld'
  <2>1. PICK r \in ufReq :
          /\ \E v \in Versions : GetFeatures(v)
          /\ ufStored' = Store(r.set)
    BY <1>4 DEF UfApply
  <2>2. ufCache' \in UfCaches
    BY <2>1, CachedTyped DEF UfHeld
  <2>3. ufUnit' = TRUE /\ ufReq' = {} /\ ufWatch' = ufWatch
    BY <1>4 DEF UfApply
  <2>4. \A f \in DOMAIN ufStored' : ufStored'[f] \in {"value", "text"}
    BY <2>1, StoredTyped
  <2> QED BY <1>0, <1>1, <2>2, <2>3, <2>4 DEF UfHeld
<1>5. ASSUME UfRead \/ UfResync PROVE UfHeld'
  <2>1. ufCache' \in UfCaches
    BY <1>5, CachedTyped DEF UfRead, UfResync, UfHeld
  <2>2. UNCHANGED <<ufUnit, ufReq, ufWatch>> /\ ufStored' = Sanitized(ufStored)
    BY <1>5 DEF UfRead, UfResync
  <2>3. \A f \in DOMAIN ufStored' : ufStored'[f] \in {"value", "text"}
    BY <2>2, StoredTyped DEF UfHeld
  <2> QED BY <1>0, <2>1, <2>2, <2>3 DEF UfHeld
<1>6. ASSUME UfDelete PROVE UfHeld'
  <2>1. ufUnit' = FALSE /\ DOMAIN ufStored' = {} /\ UNCHANGED <<ufCache, ufReq, ufWatch>>
    BY <1>6 DEF UfDelete
  <2> QED BY <1>0, <2>1 DEF UfHeld
<1>7. ASSUME UfRestart PROVE UfHeld'
  <2>1. PICK v \in Versions : ufCache' = {v}
    BY <1>7 DEF UfRestart
  <2>2. ufReq' = {} /\ ufWatch' = "idle" /\ UNCHANGED <<ufUnit, ufStored>>
    BY <1>7 DEF UfRestart
  <2> QED BY <1>0, <1>1, <2>1, <2>2 DEF UfHeld, UfCaches
<1>8. ASSUME UfWatchFill PROVE UfHeld'
  <2>1. ufCache' \in UfCaches
    BY <1>8, CachedTyped DEF UfWatchFill, UfHeld
  <2>2. ufWatch' = "idle" /\ UNCHANGED <<ufUnit, ufStored, ufReq>>
    BY <1>8 DEF UfWatchFill
  <2> QED BY <1>0, <2>1, <2>2 DEF UfHeld
<1> QED BY <1>2, <1>3, <1>4, <1>5, <1>6, <1>7, <1>8 DEF UfNext

LEMMA UfCountsStep ==
    ASSUME UfCounts, UfNext
    PROVE  UfCounts'
<1>1. /\ UfMaxChanges \in Nat /\ UfMaxFaults \in Nat
      /\ ufChanges \in 0 .. UfMaxChanges /\ ufFaults \in 0 .. UfMaxFaults
  BY UnitFieldsAssumption DEF UfCounts
<1>2. ufFaults' = ufFaults \/ (ufFaults < UfMaxFaults /\ ufFaults' = ufFaults + 1)
  BY DEF UfNext, UfPackage, UfSubmit, UfApply, UfRefuse, UfRead, UfResync, UfDelete, UfRestart,
         UfWatchCheck, UfWatchClear, UfWatchFill, GetFeatures
<1>3. ufChanges' = ufChanges \/ (ufChanges < UfMaxChanges /\ ufChanges' = ufChanges + 1)
  BY DEF UfNext, UfPackage, UfSubmit, UfApply, UfRefuse, UfRead, UfResync, UfDelete, UfRestart,
         UfWatchCheck, UfWatchClear, UfWatchFill
<1> QED BY <1>1, <1>2, <1>3 DEF UfCounts

\* Every variable of a unit's fields keeps its type: the cache holds one version at most, a
\* request fields of its kind (podman_version.py, the routes of the units).
THEOREM FieldsTyped == UfSpec => []UfTypeOK
<1>1. UfInit => UfConstants /\ UfHeld /\ UfCounts
  <2> SUFFICES ASSUME UfInit PROVE UfConstants /\ UfHeld /\ UfCounts
    OBVIOUS
  <2>1. DOMAIN ufStored = {}
    BY DEF UfInit
  <2>2. UfConstants
    BY DEF UfInit, UfConstants
  <2>3. UfHeld
    <3>1. ufCache = {} /\ ufReq = {} /\ ufUnit = FALSE /\ ufWatch = "idle"
      BY DEF UfInit
    <3>2. ufCache \in UfCaches /\ ufReq \in UfRequests
      BY <3>1 DEF UfCaches, UfRequests
    <3> QED BY <2>1, <3>1, <3>2 DEF UfHeld
  <2>4. ufChanges = 0 /\ ufFaults = 0
    BY DEF UfInit
  <2>5. UfCounts
    BY <2>4, UnitFieldsAssumption DEF UfCounts
  <2> QED BY <2>2, <2>3, <2>5
<1>2. UfConstants /\ UfHeld /\ UfCounts /\ [UfNext]_ufVars => (UfConstants /\ UfHeld /\ UfCounts)'
  <2>1. ASSUME UfConstants, UfHeld, UfCounts, UfNext
        PROVE  UfConstants' /\ UfHeld' /\ UfCounts'
    BY <2>1, ConstantsStep, HeldStep, UfCountsStep
  <2>2. ASSUME UfConstants, UfHeld, UfCounts, UNCHANGED ufVars
        PROVE  UfConstants' /\ UfHeld' /\ UfCounts'
    <3>1. UNCHANGED <<ufKind, ufFields>>
      BY <2>2 DEF ufVars
    <3> QED BY <2>2, <3>1, SameFields DEF ufVars, UfConstants, UfHeld, UfCounts
  <2> QED BY <2>1, <2>2
<1>3. UfInv /\ UfConstants /\ UfHeld /\ UfCounts => UfTypeOK
  <2> SUFFICES ASSUME UfInv, UfConstants, UfHeld, UfCounts PROVE UfTypeOK
    OBVIOUS
  <2>1. DOMAIN ufStored \subseteq ufFields /\ ufFile \subseteq ufFields
        /\ ufDown \in BOOLEAN /\ ufBlind \in BOOLEAN
    BY DEF UfInv, UfShape
  <2> QED BY <2>1 DEF UfConstants, UfHeld, UfCounts, UfCaches, UfRequests, UfTypeOK
<1> QED BY <1>1, <1>2, <1>3, FieldsInvariance, PTL DEF UfSpec

(***************************************************************************)
(* IdMap.                                                                  *)
(***************************************************************************)

\* The end of the ids below c: the one after the last of them, or 0.
LEMMA PrevEndFacts ==
    ASSUME NEW size \in Nat, NEW E, E \subseteq 0 .. size - 1, NEW c \in 0 .. size
    PROVE  /\ PrevEnd(E, c) \in 0 .. c
           /\ \A d \in E : d < c => d + 1 <= PrevEnd(E, c)
           /\ PrevEnd(E, c) = 0 \/ \E d \in E : d < c /\ PrevEnd(E, c) = d + 1
<1> DEFINE S == {0} \cup {d + 1 : d \in {e \in E : e < c}}
<1>1. S \subseteq 0 .. c /\ S # {}
  OBVIOUS
<1>2. PICK m \in S : \A y \in S : m >= y
  <2> DEFINE T == {c - y : y \in S}
  <2>1. T \subseteq Nat /\ T # {}
    BY <1>1
  <2>2. PICK t \in T : \A y \in T : t <= y
    <3> HIDE DEF T
    <3> QED BY <2>1, Oldest
  <2>3. PICK m \in S : t = c - m
    BY <2>2
  <2>4. ASSUME NEW y \in S PROVE m >= y
    <3>1. c - m <= c - y
      BY <2>2, <2>3
    <3> QED BY <3>1, <1>1
  <2> QED BY <2>3, <2>4
<1>3. PrevEnd(E, c) = Max(S)
  BY DEF PrevEnd
<1>4. Max(S) \in S /\ \A y \in S : Max(S) >= y
  <2> HIDE DEF S
  <2> QED BY <1>2 DEF Max
<1>5. PICK p : p = PrevEnd(E, c)
  OBVIOUS
<1>6. p \in S /\ \A y \in S : p >= y
  BY <1>3, <1>4, <1>5
<1>7. p \in 0 .. c
  BY <1>1, <1>6
<1>8. ASSUME NEW d \in E, d < c PROVE d + 1 <= p
  <2>1. d + 1 \in S
    BY <1>8
  <2> QED BY <2>1, <1>6, <1>7
<1>9. p = 0 \/ \E d \in E : d < c /\ p = d + 1
  BY <1>6
<1> QED BY <1>5, <1>7, <1>8, <1>9

\* The entries that give an id of the container something.
Cover(entries, id) == {e \in entries : e.from <= id /\ id < e.from + e.len}

LEMMA CoverTiles ==
    ASSUME NEW entries, NEW id \in Nat, NEW e, Cover(entries, id) = {e},
           e.to + (id - e.from) = IF id = 0 THEN 0 ELSE id + 1
    PROVE  /\ Cardinality({x \in entries : x.from <= id /\ id < x.from + x.len}) = 1
           /\ MappedTo(entries, id) = {IF id = 0 THEN 0 ELSE id + 1}
<1>1. {x \in entries : x.from <= id /\ id < x.from + x.len} = {e}
  BY DEF Cover
<1>2. Cardinality({e}) = 1
  BY FS_Singleton
<1>3. MappedTo(entries, id) = {x.to + (id - x.from) : x \in {e}}
  BY <1>1 DEF MappedTo
<1> QED BY <1>1, <1>2, <1>3

LEMMA TilesAt ==
    ASSUME NEW size \in Nat \ {0}, NEW ids \in SUBSET (0 .. size - 1), ids # {}
    PROVE  LET entries == ResolveIdMaps(ids, size)
           IN  /\ \A id \in 0 .. size - 1 :
                     /\ Cardinality({e \in entries : e.from <= id /\ id < e.from + e.len}) = 1
                     /\ MappedTo(entries, id) = {IF id = 0 THEN 0 ELSE id + 1}
               /\ \A e \in entries : e.len > 0 /\ e.from + e.len <= size
<1>0. PICK E : E = ids \cup {0}
  OBVIOUS
<1> DEFINE entries == ResolveIdMaps(ids, size)
           from(c) == PrevEnd(E, c)
           gap(c) == Entry(from(c), from(c) + 1, c - from(c))
<1>1. E \subseteq 0 .. size - 1 /\ 0 \in E /\ E \cup {size} \subseteq 0 .. size
  BY <1>0
<1>2. ASSUME NEW c \in E \cup {size}
      PROVE  /\ from(c) \in 0 .. c
             /\ \A d \in E : d < c => d + 1 <= from(c)
             /\ from(c) = 0 \/ \E d \in E : d < c /\ from(c) = d + 1
  <2>1. c \in 0 .. size
    BY <1>1
  <2>2. E \subseteq 0 .. size - 1
    BY <1>1
  <2>3. size \in Nat
    OBVIOUS
  <2> QED BY <2>1, <2>2, <2>3, PrevEndFacts, ZenonT(30)
<1> DEFINE gaps == UNION {Gap(E, c) : c \in E \cup {size}}
           singles == {Single(c) : c \in E}
<1>3. ASSUME NEW e
      PROVE  e \in entries <=> \/ \E c \in E \cup {size} : c > from(c) /\ e = gap(c)
                              \/ \E c \in E : e = Single(c)
  <2>1. e \in gaps <=> \E c \in E \cup {size} : e \in Gap(E, c)
    OBVIOUS
  <2>2. \A c : e \in Gap(E, c) <=> c > from(c) /\ e = gap(c)
    BY DEF Gap
  <2>3. e \in singles <=> \E c \in E : e = Single(c)
    OBVIOUS
  <2>4. entries = gaps \cup singles
    BY <1>0 DEF ResolveIdMaps
  <2> HIDE DEF gaps, singles, entries, gap, from
  <2> QED BY <2>1, <2>2, <2>3, <2>4
<1> HIDE DEF entries, from
<1>4. \A c : gap(c).from = from(c) /\ gap(c).to = from(c) + 1 /\ gap(c).len = c - from(c)
  BY DEF Entry
<1>5. \A c : Single(c).from = c /\ Single(c).to = (IF c = 0 THEN 0 ELSE c + 1)
             /\ Single(c).len = 1
  BY DEF Single, Entry
<1> HIDE DEF gap
<1>6. ASSUME NEW e \in entries PROVE e.len > 0 /\ e.from + e.len <= size
  <2>1. ASSUME NEW c \in E \cup {size}, c > from(c), e = gap(c)
        PROVE  e.len > 0 /\ e.from + e.len <= size
    <3>1. e.from = from(c) /\ e.len = c - from(c)
      BY <2>1, <1>4
    <3>2. from(c) \in Nat /\ c \in Nat /\ c <= size
      BY <1>1, <1>2
    <3> QED BY <3>1, <3>2, <2>1
  <2>2. ASSUME NEW c \in E, e = Single(c) PROVE e.len > 0 /\ e.from + e.len <= size
    <3>1. e.from = c /\ e.len = 1 /\ c \in 0 .. size - 1
      BY <2>2, <1>1, <1>5
    <3> QED BY <3>1
  <2> QED BY <2>1, <2>2, <1>3
<1>7. ASSUME NEW id \in E
      PROVE  /\ Cover(entries, id) = {Single(id)}
             /\ Single(id).to + (id - Single(id).from) = IF id = 0 THEN 0 ELSE id + 1
  <2>1. id \in 0 .. size - 1
    BY <1>1
  <2>2. Single(id) \in Cover(entries, id)
    <3>1. Single(id) \in entries
      BY <1>3
    <3>2. Single(id).from = id /\ Single(id).len = 1
      BY <1>5
    <3> QED BY <3>1, <3>2, <2>1 DEF Cover
  <2>3. ASSUME NEW e \in Cover(entries, id) PROVE e = Single(id)
    <3>1. e \in entries /\ e.from <= id /\ id < e.from + e.len
      BY DEF Cover
    <3>2. ASSUME NEW c \in E \cup {size}, c > from(c), e = gap(c) PROVE FALSE
      <4>1. from(c) <= id /\ id < from(c) + (c - from(c))
        BY <3>1, <3>2, <1>4
      <4>2. from(c) \in Nat /\ c \in Nat
        BY <1>1, <1>2
      <4>3. id < c
        BY <4>1, <4>2, <2>1
      <4>4. id + 1 <= from(c)
        BY <4>3, <1>2
      <4> QED BY <4>1, <4>2, <4>4, <2>1
    <3>3. ASSUME NEW c \in E, e = Single(c) PROVE c = id
      <4>1. e.from = c /\ e.len = 1 /\ c \in 0 .. size - 1
        BY <3>3, <1>1, <1>5
      <4> QED BY <4>1, <3>1, <2>1
    <3> QED BY <3>1, <3>2, <3>3, <1>3
  <2>4. Single(id).to + (id - Single(id).from) = IF id = 0 THEN 0 ELSE id + 1
    <3>1. Single(id).from = id /\ Single(id).to = IF id = 0 THEN 0 ELSE id + 1
      BY <1>5
    <3> QED BY <3>1, <2>1
  <2> QED BY <2>2, <2>3, <2>4
<1>8. ASSUME NEW id \in 0 .. size - 1, id \notin E
      PROVE  \E e : /\ Cover(entries, id) = {e}
                    /\ e.to + (id - e.from) = IF id = 0 THEN 0 ELSE id + 1
  <2> DEFINE above == {c \in E \cup {size} : id < c}
  <2>1. above \subseteq Nat /\ above # {}
    <3>1. size \in above
      BY <1>8
    <3>2. E \cup {size} \subseteq Nat
      BY <1>1
    <3> QED BY <3>1, <3>2
  <2>2. PICK c \in above : \A y \in above : c <= y
    <3> HIDE DEF above
    <3> QED BY <2>1, Oldest
  <2>3. c \in E \cup {size} /\ id < c /\ c \in Nat
    BY <2>1, <2>2
  <2>4. \A d \in E : d < c => d < id
    <3>1. \A d \in E : d \in Nat /\ d # id
      BY <1>1, <1>8
    <3>2. ASSUME NEW d \in E, d < c PROVE d < id
      <4>1. d \notin above
        BY <3>1, <3>2, <2>1, <2>2
      <4> QED BY <4>1, <3>1
    <3> QED BY <3>2
  <2>5. from(c) <= id /\ from(c) \in Nat
    <3>1. from(c) = 0 \/ \E d \in E : d < c /\ from(c) = d + 1
      BY <2>3, <1>2
    <3>2. ASSUME NEW d \in E, d < c, from(c) = d + 1 PROVE from(c) <= id
      <4>1. d < id /\ d \in Nat
        BY <3>2, <2>4, <1>1
      <4> QED BY <4>1, <3>2
    <3>3. from(c) \in 0 .. c
      BY <2>3, <1>2
    <3>4. from(c) \in Nat
      BY <3>3, <2>3
    <3>5. from(c) <= id
      BY <3>1, <3>2
    <3> QED BY <3>4, <3>5
  <2>6. gap(c) \in Cover(entries, id)
    <3>1. c > from(c)
      BY <2>3, <2>5
    <3>2. gap(c) \in entries
      BY <3>1, <2>3, <1>3
    <3>3. gap(c).from = from(c) /\ gap(c).len = c - from(c)
      BY <1>4
    <3> QED BY <3>2, <3>3, <2>3, <2>5 DEF Cover
  <2>7. ASSUME NEW e \in Cover(entries, id) PROVE e = gap(c)
    <3>1. e \in entries /\ e.from <= id /\ id < e.from + e.len
      BY DEF Cover
    <3>2. ASSUME NEW b \in E \cup {size}, b > from(b), e = gap(b) PROVE b = c
      <4>1. from(b) <= id /\ id < from(b) + (b - from(b))
        BY <3>1, <3>2, <1>4
      <4>2. from(b) \in Nat /\ b \in Nat /\ b <= size
        BY <1>1, <1>2
      <4>3. id < b /\ c <= b
        BY <4>1, <4>2, <2>2
      <4>4. CASE c < b
        <5>1. c \in E
          BY <4>2, <4>4, <2>3
        <5>2. c + 1 <= from(b)
          BY <5>1, <4>4, <1>2
        <5> QED BY <5>2, <4>1, <4>2, <2>3
      <4> QED BY <4>2, <4>3, <4>4, <2>3
    <3>3. ASSUME NEW b \in E, e = Single(b) PROVE FALSE
      <4>1. e.from = b /\ e.len = 1 /\ b \in 0 .. size - 1
        BY <3>3, <1>1, <1>5
      <4>2. b = id
        BY <4>1, <3>1
      <4> QED BY <4>2, <1>8
    <3> QED BY <3>1, <3>2, <3>3, <1>3
  <2>8. gap(c).to + (id - gap(c).from) = id + 1 /\ id # 0
    <3>1. gap(c).to = from(c) + 1 /\ gap(c).from = from(c)
      BY <1>4
    <3> QED BY <3>1, <2>5, <1>1, <1>8
  <2> QED BY <2>6, <2>7, <2>8
<1>9. ASSUME NEW id \in 0 .. size - 1
      PROVE  /\ Cardinality({e \in entries : e.from <= id /\ id < e.from + e.len}) = 1
             /\ MappedTo(entries, id) = {IF id = 0 THEN 0 ELSE id + 1}
  <2>1. PICK e : /\ Cover(entries, id) = {e}
                 /\ e.to + (id - e.from) = IF id = 0 THEN 0 ELSE id + 1
    BY <1>7, <1>8
  <2>2. id \in Nat
    BY <1>9
  <2> QED BY <2>1, <2>2, CoverTiles, Zenon
<1> QED BY <1>6, <1>9 DEF entries

\* _resolve_id_maps covers every id of the container once, for every size of the
\* namespace and every set of ids that lie in it (quadlet_writer.py).
THEOREM MapsTile == \A size \in Nat \ {0} : Tiles(size)
<1> SUFFICES ASSUME NEW size \in Nat \ {0} PROVE Tiles(size)
  OBVIOUS
<1> QED BY TilesAt, Zenon DEF Tiles

(***************************************************************************)
(* Sessions.                                                               *)
(***************************************************************************)

SeEntries == [created : Nat, seen : Nat, cred : {"keyring", "fernet"}]

\* The dictionary of sessions and the clock.
Table ==
    /\ seNow \in Nat
    /\ SeLive \subseteq seMade /\ seMade \subseteq SeSids
    /\ seTable \in [SeLive -> SeEntries]
    /\ seEnd \in [SeSids -> Nat]

\* What a thread in require_auth has in its hands; the time of its check is at most
\* a tick old.
Doings == [at : {"rest", "clear", "pop", "touch"}, sid : SeSids \cup {NoSid}, time : Nat]
Threads ==
    /\ seThread \in [SeThreads -> Doings]
    /\ \A t \in SeThreads :
          /\ seThread[t].at # "rest" => seThread[t].sid \in seMade
          /\ seThread[t].at = "pop" => seThread[t].time = 0
          /\ seThread[t].at = "touch" => seThread[t].time <= seNow /\ seNow <= seThread[t].time + 1

\* A thread that is about to remove a session has cleared its credentials, and no
\* session gets that name again.
PopsCleared ==
    \A t \in SeThreads : seThread[t].at = "pop" => seThread[t].sid \notin seKeys \cup seRing

\* The session that the reaper has rechecked is expired, unless a thread wrote since.
Reaper ==
    /\ seReaper \in [left : SUBSET SeSids, sid : SeSids \cup {NoSid}, raced : BOOLEAN]
    /\ seReaper.sid \in SeLive /\ ~seReaper.raced => Expired(seTable[seReaper.sid], seNow)
    /\ ~seWronged

\* A terminal's session was valid up to a tick before its last check, or after.
Connections == [at : {"accepted", "open"}, sid : SeSids, checked : Nat]
Terminals ==
    /\ IsFiniteSet(DOMAIN seTerm) /\ seTerm \in [DOMAIN seTerm -> Connections]
    /\ seCount \in Nat /\ seLeaked \in Nat
    /\ \A t \in DOMAIN seTerm :
          /\ seTerm[t].sid \in seMade /\ seTerm[t].checked <= seNow
          /\ \A s \in SeSids : seTerm[t].sid = s => seTerm[t].checked <= LastValid(s) + 1
    /\ TerminalsSound

SeInv == Table /\ Threads /\ PopsCleared /\ KeysFollowSessions /\ Reaper /\ Terminals

-----------------------------------------------------------------------------
(* What a step does to the dictionary.                                     *)

LEMMA HalfFacts == IdleTTL \in Nat /\ SeTTL \in Nat
  <1>1. SeTTL \in Nat
    BY SessionsAssumption
  <1>2. \A n \in Nat : n \div 2 \in Nat
    OBVIOUS
  <1>. QED
    BY <1>1, <1>2 DEF IdleTTL

\* The ways in which the dictionary and the clock change.
Stays    == UNCHANGED <<seNow, seTable, seEnd, seMade>>
Ticks    == seNow' = seNow + 1 /\ UNCHANGED <<seTable, seEnd, seMade>>
Drops(s) == Removed({s}) /\ UNCHANGED <<seNow, seMade>>
Uses(s, time) ==
    /\ s \in SeLive /\ time \in Nat /\ time <= seNow /\ seNow <= time + 1
    /\ Touched(s, time) /\ UNCHANGED <<seNow, seEnd, seMade>>

LEMMA TableCases ==
    ASSUME Table, Threads, Reaper, Terminals, SeNext
    PROVE  \/ Stays \/ Ticks \/ Login
           \/ \E s \in SeSids : Drops(s)
           \/ \E s \in SeSids, time \in Nat : Uses(s, time)
  <1>1. SeLive \subseteq SeSids /\ seNow \in Nat
    BY DEF Table
  <1>2. CASE Tick
    BY <1>2 DEF Tick, Ticks
  <1>3. CASE Logout
    BY <1>1, <1>3 DEF Logout, Drops
  <1>4. CASE Credentials
    <2>1. PICK s \in SeLive : \/ Removed({s})
                              \/ Touched(s, seNow) /\ UNCHANGED seEnd
      BY <1>4 DEF Credentials
    <2>. QED
      BY <1>1, <1>4, <2>1 DEF Credentials, Drops, Uses, SeLive
  <1>5. CASE KeyLost
    BY <1>5 DEF KeyLost, Stays
  <1>6. ASSUME NEW t \in SeThreads, AuthCheck(t) \/ AuthClear(t) PROVE Stays
    BY <1>6 DEF AuthCheck, AuthClear, Stays
  <1>7. ASSUME NEW t \in SeThreads, AuthPop(t) PROVE \E s \in SeSids : Drops(s)
    BY <1>7 DEF AuthPop, Drops, Threads, Table
  <1>8. ASSUME NEW t \in SeThreads, AuthTouch(t)
        PROVE  Stays \/ \E s \in SeSids, time \in Nat : Uses(s, time)
    <2>1. seThread[t].time \in Nat /\ seThread[t].time <= seNow /\ seNow <= seThread[t].time + 1
      BY <1>8 DEF AuthTouch, Threads, Doings
    <2>. QED
      BY <1>1, <1>8, <2>1 DEF AuthTouch, Stays, Uses
  <1>9. CASE ReaperSnapshot \/ ReaperRecheck
    BY <1>9 DEF ReaperSnapshot, ReaperRecheck, Stays
  <1>10. CASE ReaperDelete
    BY <1>10 DEF ReaperDelete, Drops, Reaper
  <1>11. CASE Connect
    <2>1. PICK s \in SeLive : \/ Removed({s})
                              \/ Touched(s, seNow) /\ UNCHANGED seEnd
      BY <1>11 DEF Connect
    <2>. QED
      BY <1>1, <1>11, <2>1 DEF Connect, Drops, Uses, SeLive
  <1>12. ASSUME NEW t \in DOMAIN seTerm,
                StartTerminal(t) \/ StartFails(t) \/ StartRaises(t) \/ Close(t)
         PROVE  Stays
    BY <1>12 DEF StartTerminal, StartFails, StartRaises, Close, Stays
  <1>13. ASSUME NEW t \in DOMAIN seTerm, Output(t)
         PROVE  \/ Stays \/ \E s \in SeSids : Drops(s)
                \/ \E s \in SeSids, time \in Nat : Uses(s, time)
    <2>. DEFINE s == seTerm[t].sid
    <2>1. s \in SeSids
      BY DEF Terminals, Connections
    <2>2. \/ UNCHANGED <<seTable, seEnd>>
          \/ s \in SeLive /\ Touched(s, seNow) /\ UNCHANGED seEnd
          \/ Removed({s})
      BY <1>13 DEF Output
    <2>3. UNCHANGED <<seNow, seMade>>
      BY <1>13 DEF Output
    <2>. HIDE DEF s
    <2>4. CASE UNCHANGED <<seTable, seEnd>>
      BY <2>3, <2>4 DEF Stays
    <2>5. CASE s \in SeLive /\ Touched(s, seNow) /\ UNCHANGED seEnd
      <3>1. Uses(s, seNow)
        BY <1>1, <2>3, <2>5 DEF Uses
      <3>. QED
        BY <1>1, <2>1, <3>1
    <2>6. CASE Removed({s})
      <3>1. Drops(s)
        BY <2>3, <2>6 DEF Drops
      <3>. QED
        BY <2>1, <3>1
    <2>. QED
      BY <2>2, <2>4, <2>5, <2>6
  <1>. QED
    BY <1>2, <1>3, <1>4, <1>5, <1>6, <1>7, <1>8, <1>9, <1>10, <1>11, <1>12, <1>13 DEF SeNext

LEMMA LastValidFacts ==
    ASSUME Table, NEW s \in SeSids
    PROVE  /\ LastValid(s) \in Nat
           /\ s \in SeLive => LastValid(s) <= seNow
           /\ s \in SeLive /\ ~Expired(seTable[s], seNow) => LastValid(s) = seNow
  <1>1. s \in SeLive => seTable[s].created \in Nat /\ seTable[s].seen \in Nat
    BY DEF Table, SeEntries
  <1>2. seEnd[s] \in Nat /\ seNow \in Nat
    BY DEF Table
  <1>. QED
    BY <1>1, <1>2, HalfFacts DEF LastValid, Expired

\* The dictionary stays one; the time until which a session was valid goes back by
\* at most a tick from now.
LEMMA TableKeeps ==
    ASSUME Table, Threads, Reaper, Terminals, SeNext
    PROVE  /\ Table' /\ seNow <= seNow' /\ seMade \subseteq seMade'
           /\ \A s \in seMade : \/ LastValid(s) <= LastValid(s)'
                                \/ seNow <= LastValid(s)' + 1
  <1>0. seNow \in Nat /\ \A s \in SeLive : seTable[s] \in SeEntries
    BY DEF Table
  <1>1. CASE Stays
    BY <1>0, <1>1, LastValidFacts DEF Stays, Table, LastValid, SeLive
  <1>2. CASE Ticks
    <2>1. Table' /\ seNow <= seNow' /\ seMade' = seMade
      BY <1>0, <1>2 DEF Ticks, Table, SeLive
    <2>2. ASSUME NEW s \in seMade PROVE LastValid(s) <= LastValid(s)'
      <3>1. s \in SeLive => seTable[s].created \in Nat /\ seTable[s].seen \in Nat
        BY <1>0 DEF SeEntries
      <3>2. seEnd[s] \in Nat
        BY DEF Table
      <3>. QED
        BY <1>0, <1>2, <3>1, <3>2, HalfFacts DEF Ticks, LastValid, SeLive
    <2>. QED
      BY <2>1, <2>2
  <1>3. CASE Login
    <2>1. PICK sid \in SeSids \ seMade, kept \in {"keyring", "fernet"} :
             /\ seTable' = [s \in SeLive \cup {sid} |->
                              IF s = sid THEN [created |-> seNow, seen |-> seNow, cred |-> kept]
                              ELSE seTable[s]]
             /\ seMade' = seMade \cup {sid}
      BY <1>3 DEF Login
    <2>2. seNow' = seNow /\ seEnd' = seEnd
      BY <1>3 DEF Login
    <2>3. [created |-> seNow, seen |-> seNow, cred |-> kept] \in SeEntries
      BY <1>0 DEF SeEntries
    <2>4. seTable' \in [SeLive \cup {sid} -> SeEntries]
      BY <1>0, <2>1, <2>3
    <2>5. Table'
      BY <1>0, <2>1, <2>2, <2>4 DEF Table, SeLive
    <2>6. ASSUME NEW s \in seMade PROVE LastValid(s)' = LastValid(s)
      <3>1. s # sid /\ (s \in SeLive' <=> s \in SeLive) /\ (s \in SeLive => seTable'[s] = seTable[s])
        BY <2>1 DEF SeLive
      <3>. QED
        BY <2>2, <3>1 DEF LastValid
    <2>. QED
      BY <1>0, <2>1, <2>2, <2>5, <2>6, LastValidFacts DEF Table
  <1>4. ASSUME NEW sid \in SeSids, Drops(sid)
        PROVE  /\ Table' /\ seNow <= seNow' /\ seMade \subseteq seMade'
               /\ \A s \in seMade : LastValid(s)' = LastValid(s)
    <2>1. /\ seTable' = [s \in SeLive \ {sid} |-> seTable[s]]
          /\ seEnd' = [s \in SeSids |-> IF s \in {sid} \cap SeLive THEN LastValid(s) ELSE seEnd[s]]
          /\ seNow' = seNow /\ seMade' = seMade
      BY <1>4 DEF Drops, Removed
    <2>2. seTable' \in [SeLive \ {sid} -> SeEntries] /\ SeLive' = SeLive \ {sid}
      BY <1>0, <2>1 DEF SeLive
    <2>3. seEnd' \in [SeSids -> Nat]
      BY <2>1, LastValidFacts DEF Table
    <2>4. Table'
      BY <1>0, <2>1, <2>2, <2>3 DEF Table
    <2>5. ASSUME NEW s \in seMade PROVE LastValid(s)' = LastValid(s)
      <3>0. s \in SeSids
        BY DEF Table
      <3>1. CASE s = sid /\ s \in SeLive
        <4>1. s \notin SeLive' /\ seEnd'[s] = LastValid(s)
          BY <2>1, <2>2, <3>0, <3>1
        <4>. QED
          BY <4>1 DEF LastValid
      <3>2. CASE s \notin SeLive
        <4>1. s \notin SeLive' /\ seEnd'[s] = seEnd[s]
          BY <2>1, <2>2, <3>0, <3>2
        <4>. QED
          BY <3>2, <4>1 DEF LastValid
      <3>3. CASE s # sid /\ s \in SeLive
        <4>1. s \in SeLive' /\ seTable'[s] = seTable[s]
          BY <2>1, <2>2, <3>3
        <4>. QED
          BY <2>1, <3>3, <4>1 DEF LastValid
      <3>. QED
        BY <3>1, <3>2, <3>3
    <2>. QED
      BY <1>0, <2>1, <2>4, <2>5
  <1>5. ASSUME NEW sid \in SeSids, NEW time \in Nat, Uses(sid, time)
        PROVE  /\ Table' /\ seNow <= seNow' /\ seMade \subseteq seMade'
               /\ \A s \in seMade : \/ LastValid(s) <= LastValid(s)'
                                    \/ seNow <= LastValid(s)' + 1
    <2>. DEFINE e == [seTable[sid] EXCEPT !.seen = time]
    <2>1. /\ sid \in SeLive /\ time <= seNow /\ seNow <= time + 1
          /\ seTable' = [seTable EXCEPT ![sid] = e]
          /\ seNow' = seNow /\ seMade' = seMade /\ seEnd' = seEnd
      BY <1>5 DEF Uses, Touched
    <2>2. e \in SeEntries /\ e.created = seTable[sid].created /\ e.seen = time
      BY <1>0, <2>1 DEF SeEntries
    <2>. HIDE DEF e
    <2>3. /\ SeLive' = SeLive /\ seTable' \in [SeLive -> SeEntries] /\ seTable'[sid] = e
          /\ \A s \in SeLive : s # sid => seTable'[s] = seTable[s]
      BY <2>1, <2>2 DEF Table, SeLive
    <2>4. Table'
      BY <1>0, <2>1, <2>3 DEF Table
    <2>5. ASSUME NEW s \in seMade
          PROVE  \/ LastValid(s) <= LastValid(s)'
                 \/ seNow <= LastValid(s)' + 1
      <3>0. s \in SeSids /\ LastValid(s) \in Nat
        BY LastValidFacts DEF Table
      <3>1. CASE s # sid
        <4>1. LastValid(s)' = LastValid(s)
          BY <2>1, <2>3, <3>1 DEF LastValid
        <4>. QED
          BY <3>0, <4>1
      <3>2. CASE s = sid
        <4>1. /\ seTable[s].created \in Nat /\ seTable[s].seen \in Nat
              /\ seTable'[s].created = seTable[s].created /\ seTable'[s].seen = time
          BY <1>0, <2>1, <2>2, <2>3, <3>2 DEF SeEntries
        <4>. QED
          BY <1>0, <2>1, <2>3, <3>2, <4>1, HalfFacts DEF LastValid
      <3>. QED
        BY <3>1, <3>2
    <2>. QED
      BY <1>0, <2>1, <2>4, <2>5
  <1>6. \A s \in seMade : LastValid(s) \in Nat
    BY LastValidFacts DEF Table
  <1>. QED
    BY <1>1, <1>2, <1>3, <1>4, <1>5, <1>6, TableCases

LEMMA LastValidNext ==
    ASSUME Table', NEW s \in SeSids
    PROVE  LastValid(s)' \in Nat
  <1>1. s \in SeLive' => seTable'[s].created \in Nat /\ seTable'[s].seen \in Nat
    BY DEF Table, SeEntries, SeLive
  <1>2. seEnd'[s] \in Nat /\ seNow' \in Nat
    BY DEF Table
  <1>. QED
    BY <1>1, <1>2, HalfFacts DEF LastValid

-----------------------------------------------------------------------------
(* Threads.                                                                *)

LEMMA ThreadsKeep ==
    ASSUME Table, Threads, SeNext, seMade \subseteq seMade'
    PROVE  Threads'
  <1>0. /\ seThread \in [SeThreads -> Doings] /\ seNow \in Nat /\ SeLive \subseteq seMade
        /\ seMade \subseteq SeSids
        /\ \A t \in SeThreads : seThread[t].time \in Nat
    BY DEF Table, Threads, Doings
  <1>1. CASE UNCHANGED <<seThread, seNow>>
    BY <1>1 DEF Threads
  <1>2. CASE Tick
    BY <1>0, <1>2 DEF Tick, Threads
  <1>3. ASSUME NEW t \in SeThreads, NEW r \in Doings, seThread' = [seThread EXCEPT ![t] = r],
               seNow' = seNow, r.at # "rest" => r.sid \in seMade, r.at = "pop" => r.time = 0,
               r.at = "touch" => r.time <= seNow /\ seNow <= r.time + 1
        PROVE  Threads'
    BY <1>0, <1>3 DEF Threads
  <1>4. ASSUME NEW t \in SeThreads, AuthCheck(t) PROVE Threads'
    <2>1. PICK s \in SeLive, p \in {"clear", "touch"} : At(t, p, s, seNow)
      BY <1>4 DEF AuthCheck
    <2>. DEFINE r == [at |-> p, sid |-> s, time |-> seNow]
    <2>2. r \in Doings /\ r.at = p /\ r.sid = s /\ r.time = seNow
      BY <1>0 DEF Doings
    <2>3. seThread' = [seThread EXCEPT ![t] = r] /\ seNow' = seNow
      BY <1>4, <2>1 DEF AuthCheck, At
    <2>. HIDE DEF r
    <2>4. r.sid \in seMade /\ r.at # "pop"
      BY <1>0, <2>2
    <2>5. r.time <= seNow /\ seNow <= r.time + 1
      BY <1>0, <2>2
    <2>. QED
      BY <1>3, <2>2, <2>3, <2>4, <2>5
  <1>5. ASSUME NEW t \in SeThreads, AuthClear(t) PROVE Threads'
    <2>. DEFINE r == [at |-> "pop", sid |-> seThread[t].sid, time |-> 0]
    <2>1. seThread[t].sid \in seMade
      BY <1>5 DEF AuthClear, Threads
    <2>2. r \in Doings /\ r.at = "pop" /\ r.sid \in seMade /\ r.time = 0
      BY <1>0, <2>1 DEF Doings
    <2>3. seThread' = [seThread EXCEPT ![t] = r] /\ seNow' = seNow
      BY <1>5 DEF AuthClear, At
    <2>. HIDE DEF r
    <2>. QED
      BY <1>3, <2>2, <2>3
  <1>6. ASSUME NEW t \in SeThreads, AuthPop(t) \/ AuthTouch(t) PROVE Threads'
    <2>. DEFINE r == [at |-> "rest", sid |-> NoSid, time |-> 0]
    <2>1. r \in Doings /\ r.at = "rest"
      BY DEF Doings
    <2>2. seThread' = [seThread EXCEPT ![t] = r] /\ seNow' = seNow
      BY <1>6 DEF AuthPop, AuthTouch, At
    <2>. HIDE DEF r
    <2>. QED
      BY <1>3, <2>1, <2>2
  <1>7. CASE \/ Login \/ Logout \/ Credentials \/ KeyLost \/ ReaperSnapshot \/ ReaperRecheck
             \/ ReaperDelete \/ Connect
    BY <1>1, <1>7 DEF Login, Logout, Credentials, KeyLost, ReaperSnapshot, ReaperRecheck,
                      ReaperDelete, Connect
  <1>8. ASSUME NEW t \in DOMAIN seTerm,
               StartTerminal(t) \/ StartFails(t) \/ StartRaises(t) \/ Output(t) \/ Close(t)
        PROVE  Threads'
    BY <1>1, <1>8 DEF StartTerminal, StartFails, StartRaises, Output, Close
  <1>. QED
    BY <1>2, <1>4, <1>5, <1>6, <1>7, <1>8 DEF SeNext

-----------------------------------------------------------------------------
(* Credentials.                                                            *)

\* The sessions and where their credentials are kept do not change, nor who removes one.
LEMMA SameCredentials ==
    ASSUME KeysFollowSessions, seKeys' = seKeys, seRing' \subseteq seRing, SeLive' = SeLive,
           \A s \in SeLive : seTable'[s].cred = seTable[s].cred,
           \A t \in SeThreads : seThread[t].at = "pop" => seThread'[t] = seThread[t]
    PROVE  KeysFollowSessions'
  <1>1. ASSUME NEW s \in SeLive, NEW t \in SeThreads,
               seThread[t] = [at |-> "pop", sid |-> s, time |-> 0]
        PROVE  seThread'[t] = [at |-> "pop", sid |-> s, time |-> 0]
    <2>1. seThread[t].at = "pop"
      BY <1>1
    <2>. QED
      BY <1>1, <2>1
  <1>2. (seKeys \cup seRing)' \subseteq SeLive'
    BY DEF KeysFollowSessions
  <1>3. ASSUME NEW s \in SeLive', seTable'[s].cred = "fernet", s \notin seKeys'
        PROVE  \E t \in SeThreads : seThread'[t] = [at |-> "pop", sid |-> s, time |-> 0]
    <2>1. s \in SeLive /\ seTable[s].cred = "fernet" /\ s \notin seKeys
      BY <1>3
    <2>2. PICK t \in SeThreads : seThread[t] = [at |-> "pop", sid |-> s, time |-> 0]
      BY <2>1 DEF KeysFollowSessions
    <2>. QED
      BY <1>1, <2>1, <2>2
  <1>. QED
    BY <1>2, <1>3 DEF KeysFollowSessions

\* A session is used, by whoever is not about to remove one.
LEMMA UseKeepsCredentials ==
    ASSUME Table, KeysFollowSessions, NEW s \in SeLive, NEW time \in Nat, Touched(s, time),
           UNCHANGED <<seKeys, seRing>>,
           \A t \in SeThreads : seThread[t].at = "pop" => seThread'[t] = seThread[t]
    PROVE  KeysFollowSessions'
  <1>. DEFINE e == [seTable[s] EXCEPT !.seen = time]
  <1>1. seTable' = [seTable EXCEPT ![s] = e]
    BY DEF Touched
  <1>2. e.cred = seTable[s].cred
    BY DEF Table, SeEntries
  <1>. HIDE DEF e
  <1>3. SeLive' = SeLive /\ \A r \in SeLive : seTable'[r].cred = seTable[r].cred
    BY <1>1, <1>2 DEF Table, SeLive
  <1>. QED
    BY <1>3, SameCredentials

\* A session is removed together with its credentials.
LEMMA DropKeepsCredentials ==
    ASSUME KeysFollowSessions, NEW s, Cleared({s}), Removed({s}), seThread' = seThread
    PROVE  KeysFollowSessions'
  <1>1. /\ seKeys' = seKeys \ {s} /\ seRing' = seRing \ {s} /\ SeLive' = SeLive \ {s}
        /\ \A r \in SeLive \ {s} : seTable'[r] = seTable[r]
    BY DEF Cleared, Removed, SeLive
  <1>. QED
    BY <1>1 DEF KeysFollowSessions

LEMMA KeysKeep ==
    ASSUME Table, Threads, PopsCleared, KeysFollowSessions, SeNext
    PROVE  KeysFollowSessions'
  <1>0. /\ SeLive \subseteq SeSids /\ seNow \in Nat
        /\ seThread \in [SeThreads -> Doings]
    BY DEF Table, Threads
  <1>1. CASE Tick \/ KeyLost \/ ReaperSnapshot \/ ReaperRecheck
    <2>1. /\ seTable' = seTable /\ seKeys' = seKeys /\ seRing' \subseteq seRing
          /\ seThread' = seThread
      BY <1>1 DEF Tick, KeyLost, ReaperSnapshot, ReaperRecheck
    <2>2. SeLive' = SeLive
      BY <2>1 DEF SeLive
    <2>. QED
      BY <2>1, <2>2, SameCredentials
  <1>2. CASE Login
    <2>1. PICK sid \in SeSids \ seMade, kept \in {"keyring", "fernet"} :
             /\ seTable' = [s \in SeLive \cup {sid} |->
                              IF s = sid THEN [created |-> seNow, seen |-> seNow, cred |-> kept]
                              ELSE seTable[s]]
             /\ seKeys' = IF kept = "fernet" THEN seKeys \cup {sid} ELSE seKeys
             /\ seRing' = IF kept = "keyring" THEN seRing \cup {sid} ELSE seRing
      BY <1>2 DEF Login
    <2>2. seThread' = seThread
      BY <1>2 DEF Login
    <2>3. /\ SeLive' = SeLive \cup {sid} /\ seTable'[sid].cred = kept
          /\ \A s \in SeLive : s # sid => seTable'[s] = seTable[s]
      BY <2>1 DEF SeLive
    <2>4. (seKeys \cup seRing)' \subseteq SeLive'
      BY <2>1, <2>3 DEF KeysFollowSessions
    <2>5. ASSUME NEW s \in SeLive', seTable'[s].cred = "fernet", s \notin seKeys'
          PROVE  \E t \in SeThreads : seThread'[t] = [at |-> "pop", sid |-> s, time |-> 0]
      <3>1. s # sid
        BY <2>1, <2>3, <2>5
      <3>2. s \in SeLive /\ seTable[s].cred = "fernet" /\ s \notin seKeys
        BY <2>1, <2>3, <2>5, <3>1
      <3>. QED
        BY <2>2, <3>2 DEF KeysFollowSessions
    <2>. QED
      BY <2>4, <2>5 DEF KeysFollowSessions
  <1>3. CASE Logout \/ Credentials \/ ReaperDelete \/ Connect
    <2>1. seThread' = seThread
      BY <1>3 DEF Logout, Credentials, ReaperDelete, Connect
    <2>2. \/ \E s \in SeSids \cup {seReaper.sid} : Cleared({s}) /\ Removed({s})
          \/ \E s \in SeLive : Touched(s, seNow) /\ UNCHANGED <<seKeys, seRing>>
      BY <1>0, <1>3 DEF Logout, Credentials, ReaperDelete, Connect
    <2>3. ASSUME NEW s, Cleared({s}), Removed({s}) PROVE KeysFollowSessions'
      BY <2>1, <2>3, DropKeepsCredentials
    <2>4. ASSUME NEW s \in SeLive, Touched(s, seNow), UNCHANGED <<seKeys, seRing>>
          PROVE  KeysFollowSessions'
      BY <1>0, <2>1, <2>4, UseKeepsCredentials
    <2>. QED
      BY <2>2, <2>3, <2>4
  <1>4. ASSUME NEW t \in SeThreads, AuthCheck(t) PROVE KeysFollowSessions'
    <2>1. /\ UNCHANGED <<seTable, seKeys, seRing>> /\ seThread[t].at = "rest"
          /\ \A u \in SeThreads : u # t => seThread'[u] = seThread[u]
      BY <1>0, <1>4 DEF AuthCheck, At
    <2>2. SeLive' = SeLive
      BY <2>1 DEF SeLive
    <2>. QED
      BY <2>1, <2>2, SameCredentials
  <1>5. ASSUME NEW t \in SeThreads, AuthTouch(t) PROVE KeysFollowSessions'
    <2>1. /\ UNCHANGED <<seKeys, seRing>> /\ seThread[t].at = "touch"
          /\ \A u \in SeThreads : u # t => seThread'[u] = seThread[u]
      BY <1>0, <1>5 DEF AuthTouch, At
    <2>2. CASE seThread[t].sid \in SeLive
      <3>1. Touched(seThread[t].sid, seThread[t].time) /\ seThread[t].time \in Nat
        BY <1>5, <2>2 DEF AuthTouch, Threads, Doings
      <3>. QED
        BY <2>1, <2>2, <3>1, UseKeepsCredentials
    <2>3. CASE seThread[t].sid \notin SeLive
      <3>1. seTable' = seTable
        BY <1>5, <2>3 DEF AuthTouch
      <3>2. SeLive' = SeLive
        BY <3>1 DEF SeLive
      <3>. QED
        BY <2>1, <3>1, <3>2, SameCredentials
    <2>. QED
      BY <2>2, <2>3
  <1>6. ASSUME NEW t \in SeThreads, AuthClear(t) PROVE KeysFollowSessions'
    <2>. DEFINE x == seThread[t].sid
    <2>1. /\ seTable' = seTable /\ seThread[t].at = "clear"
          /\ seKeys' = seKeys \ {x} /\ seRing' = seRing \ {x}
          /\ seThread'[t] = [at |-> "pop", sid |-> x, time |-> 0]
          /\ \A u \in SeThreads : u # t => seThread'[u] = seThread[u]
      BY <1>0, <1>6 DEF AuthClear, At, Cleared
    <2>2. SeLive' = SeLive
      BY <2>1 DEF SeLive
    <2>. HIDE DEF x
    <2>3. (seKeys \cup seRing)' \subseteq SeLive'
      BY <2>1, <2>2 DEF KeysFollowSessions
    <2>4. ASSUME NEW s \in SeLive', seTable'[s].cred = "fernet", s \notin seKeys'
          PROVE  \E u \in SeThreads : seThread'[u] = [at |-> "pop", sid |-> s, time |-> 0]
      <3>1. CASE s = x
        BY <2>1, <3>1
      <3>2. CASE s # x
        <4>1. s \in SeLive /\ seTable[s].cred = "fernet" /\ s \notin seKeys
          BY <2>1, <2>2, <2>4, <3>2
        <4>2. PICK u \in SeThreads : seThread[u] = [at |-> "pop", sid |-> s, time |-> 0]
          BY <4>1 DEF KeysFollowSessions
        <4>3. seThread[u].at = "pop"
          BY <4>2
        <4>. QED
          BY <2>1, <4>2, <4>3
      <3>. QED
        BY <3>1, <3>2
    <2>. QED
      BY <2>3, <2>4 DEF KeysFollowSessions
  <1>7. ASSUME NEW t \in SeThreads, AuthPop(t) PROVE KeysFollowSessions'
    <2>. DEFINE x == seThread[t].sid
    <2>1. /\ SeLive' = SeLive \ {x} /\ seKeys' = seKeys /\ seRing' = seRing
          /\ \A s \in SeLive \ {x} : seTable'[s] = seTable[s]
      BY <1>7 DEF AuthPop, Removed, SeLive
    <2>2. \A u \in SeThreads : u # t => seThread'[u] = seThread[u]
      BY <1>0, <1>7 DEF AuthPop, At
    <2>3. seThread[t].at = "pop"
      BY <1>7 DEF AuthPop
    <2>. HIDE DEF x
    <2>4. x \notin seKeys \cup seRing
      BY <2>3 DEF PopsCleared, x
    <2>5. (seKeys \cup seRing)' \subseteq SeLive'
      BY <2>1, <2>4 DEF KeysFollowSessions
    <2>6. ASSUME NEW s \in SeLive', seTable'[s].cred = "fernet", s \notin seKeys'
          PROVE  \E u \in SeThreads : seThread'[u] = [at |-> "pop", sid |-> s, time |-> 0]
      <3>1. s \in SeLive /\ s # x /\ seTable[s].cred = "fernet" /\ s \notin seKeys
        BY <2>1, <2>6
      <3>2. PICK u \in SeThreads : seThread[u] = [at |-> "pop", sid |-> s, time |-> 0]
        BY <3>1 DEF KeysFollowSessions
      <3>3. u # t
        BY <3>1, <3>2 DEF x
      <3>. QED
        BY <2>2, <3>2, <3>3
    <2>. QED
      BY <2>5, <2>6 DEF KeysFollowSessions
  <1>8. ASSUME NEW t \in DOMAIN seTerm, StartTerminal(t) \/ StartFails(t) \/ StartRaises(t) \/ Close(t)
        PROVE  KeysFollowSessions'
    <2>1. UNCHANGED <<seTable, seKeys, seRing, seThread>>
      BY <1>8 DEF StartTerminal, StartFails, StartRaises, Close
    <2>2. SeLive' = SeLive
      BY <2>1 DEF SeLive
    <2>. QED
      BY <2>1, <2>2, SameCredentials
  <1>9. ASSUME NEW t \in DOMAIN seTerm, Output(t) PROVE KeysFollowSessions'
    <2>. DEFINE x == seTerm[t].sid
    <2>1. seThread' = seThread
      BY <1>9 DEF Output
    <2>2. \/ UNCHANGED <<seTable, seKeys, seRing>>
          \/ x \in SeLive /\ Touched(x, seNow) /\ UNCHANGED <<seKeys, seRing>>
          \/ Cleared({x}) /\ Removed({x})
      BY <1>9 DEF Output
    <2>. HIDE DEF x
    <2>3. CASE UNCHANGED <<seTable, seKeys, seRing>>
      <3>1. SeLive' = SeLive
        BY <2>3 DEF SeLive
      <3>. QED
        BY <2>1, <2>3, <3>1, SameCredentials
    <2>4. CASE x \in SeLive /\ Touched(x, seNow) /\ UNCHANGED <<seKeys, seRing>>
      BY <1>0, <2>1, <2>4, UseKeepsCredentials
    <2>5. CASE Cleared({x}) /\ Removed({x})
      BY <2>1, <2>5, DropKeepsCredentials
    <2>. QED
      BY <2>2, <2>3, <2>4, <2>5
  <1>. QED
    BY <1>1, <1>2, <1>3, <1>4, <1>5, <1>6, <1>7, <1>8, <1>9 DEF SeNext

\* No credentials are made again for a session that is being removed.
LEMMA PopsKeep ==
    ASSUME Table, Threads, PopsCleared, SeNext
    PROVE  PopsCleared'
  <1>1. ASSUME NEW t \in SeThreads, seThread'[t] = seThread[t], seThread[t].at = "pop"
        PROVE  seThread'[t].sid \notin (seKeys \cup seRing)'
    <2>1. seThread[t].sid \in seMade /\ seThread[t].sid \notin seKeys \cup seRing
      BY <1>1 DEF Threads, PopsCleared
    <2>2. CASE Login
      <3>1. PICK sid \in SeSids \ seMade : (seKeys \cup seRing)' \subseteq seKeys \cup seRing \cup {sid}
        <4>1. PICK sid \in SeSids \ seMade, kept \in {"keyring", "fernet"} :
                 /\ seKeys' = IF kept = "fernet" THEN seKeys \cup {sid} ELSE seKeys
                 /\ seRing' = IF kept = "keyring" THEN seRing \cup {sid} ELSE seRing
          BY <2>2 DEF Login
        <4>. QED
          BY <4>1
      <3>. QED
        BY <1>1, <2>1, <3>1
    <2>3. CASE ~Login
      <3>1. seKeys' \subseteq seKeys /\ seRing' \subseteq seRing
        <4>1. CASE Tick \/ Logout \/ Credentials \/ KeyLost \/ ReaperSnapshot \/ ReaperRecheck
                   \/ ReaperDelete \/ Connect
          BY <4>1 DEF Tick, Logout, Credentials, KeyLost, ReaperSnapshot, ReaperRecheck,
                      ReaperDelete, Connect, Cleared
        <4>2. ASSUME NEW u \in SeThreads, AuthCheck(u) \/ AuthClear(u) \/ AuthPop(u) \/ AuthTouch(u)
              PROVE  seKeys' \subseteq seKeys /\ seRing' \subseteq seRing
          BY <4>2 DEF AuthCheck, AuthClear, AuthPop, AuthTouch, Cleared
        <4>3. ASSUME NEW u \in DOMAIN seTerm,
                     \/ StartTerminal(u) \/ StartFails(u) \/ StartRaises(u) \/ Output(u) \/ Close(u)
              PROVE  seKeys' \subseteq seKeys /\ seRing' \subseteq seRing
          BY <4>3 DEF StartTerminal, StartFails, StartRaises, Output, Close, Cleared
        <4>. QED
          BY <2>3, <4>1, <4>2, <4>3 DEF SeNext
      <3>. QED
        BY <1>1, <2>1, <3>1
    <2>. QED
      BY <2>2, <2>3
  <1>2. ASSUME NEW t \in SeThreads, seThread'[t] # seThread[t], seThread'[t].at = "pop"
        PROVE  seThread'[t].sid \notin (seKeys \cup seRing)'
    <2>1. PICK u \in SeThreads : AuthCheck(u) \/ AuthClear(u) \/ AuthPop(u) \/ AuthTouch(u)
      <3>1. \/ \E u \in SeThreads : AuthCheck(u) \/ AuthClear(u) \/ AuthPop(u) \/ AuthTouch(u)
            \/ seThread' = seThread
        BY DEF SeNext, Tick, Login, Logout, Credentials, KeyLost, ReaperSnapshot, ReaperRecheck,
               ReaperDelete, Connect, StartTerminal, StartFails, StartRaises, Output, Close
      <3>. QED
        BY <1>2, <3>1
    <2>2. seThread \in [SeThreads -> Doings]
      BY DEF Threads
    <2>3. u = t
      BY <1>2, <2>1, <2>2 DEF AuthCheck, AuthClear, AuthPop, AuthTouch, At
    <2>4. AuthClear(t)
      <3>1. CASE AuthCheck(t)
        <4>1. PICK s \in SeLive, p \in {"clear", "touch"} : At(t, p, s, seNow)
          BY <3>1 DEF AuthCheck
        <4>2. seThread'[t] = [at |-> p, sid |-> s, time |-> seNow]
          BY <2>2, <4>1 DEF At
        <4>. QED
          BY <1>2, <4>2
      <3>2. CASE AuthPop(t) \/ AuthTouch(t)
        <4>1. seThread'[t] = [at |-> "rest", sid |-> NoSid, time |-> 0]
          BY <2>2, <3>2 DEF AuthPop, AuthTouch, At
        <4>. QED
          BY <1>2, <4>1
      <3>. QED
        BY <2>1, <2>3, <3>1, <3>2
    <2>5. seThread'[t].sid = seThread[t].sid /\ Cleared({seThread[t].sid})
      BY <2>2, <2>4 DEF AuthClear, At
    <2>. QED
      BY <2>5 DEF Cleared
  <1>. QED
    BY <1>1, <1>2 DEF PopsCleared

-----------------------------------------------------------------------------
(* The reaper.                                                             *)

LEMMA ReaperKeeps ==
    ASSUME Table, Table', Threads, Reaper, SeNext
    PROVE  Reaper'
  <1>0. /\ NoSid \notin SeLive /\ NoSid \notin SeLive' /\ seNow \in Nat
        /\ SeLive \subseteq SeSids /\ seTable \in [SeLive -> SeEntries]
    BY SessionsAssumption DEF Table, NoSid
  <1>1. ASSUME seReaper' \in [left : SUBSET SeSids, sid : SeSids \cup {NoSid}, raced : BOOLEAN],
               seReaper'.sid = NoSid, seWronged' = seWronged
        PROVE  Reaper'
    BY <1>0, <1>1 DEF Reaper
  <1>2. ASSUME LoopFree, seReaper' = seReaper, seWronged' = seWronged PROVE Reaper'
    <2>1. ReaperRests.sid = NoSid
      BY DEF ReaperRests
    <2>. QED
      BY <1>1, <1>2, <2>1 DEF LoopFree, Reaper
  <1>3. CASE Login \/ Logout \/ Credentials \/ Connect
    BY <1>2, <1>3 DEF Login, Logout, Credentials, Connect
  <1>4. ASSUME NEW t \in DOMAIN seTerm,
               StartTerminal(t) \/ StartFails(t) \/ StartRaises(t) \/ Output(t) \/ Close(t)
        PROVE  Reaper'
    BY <1>2, <1>4 DEF StartTerminal, StartFails, StartRaises, Output, Close
  <1>5. CASE ReaperSnapshot
    <2>. DEFINE S == {s \in SeLive : Expired(seTable[s], seNow)}
    <2>1. S \subseteq SeSids
      BY <1>0
    <2>2. /\ seReaper' = [ReaperRests EXCEPT !.left = S] \/ seReaper' = seReaper
          /\ LoopFree /\ seWronged' = seWronged
      BY <1>5 DEF ReaperSnapshot
    <2>. HIDE DEF S
    <2>3. CASE seReaper' = [ReaperRests EXCEPT !.left = S]
      <3>1. seReaper' = [left |-> S, sid |-> NoSid, raced |-> FALSE]
        BY <2>3 DEF ReaperRests
      <3>. QED
        BY <1>1, <2>1, <2>2, <3>1
    <2>. QED
      BY <1>2, <2>2, <2>3
  <1>6. ASSUME seReaper' = seReaper, seWronged' = seWronged, seTable' = seTable,
               seNow' \in {seNow, seNow + 1}
        PROVE  Reaper'
    <2>1. ASSUME seReaper.sid \in SeLive, ~seReaper.raced
          PROVE  Expired(seTable[seReaper.sid], seNow)'
      <3>1. Expired(seTable[seReaper.sid], seNow) /\ seTable[seReaper.sid] \in SeEntries
        BY <1>0, <2>1 DEF Reaper
      <3>2. seTable[seReaper.sid].created \in Nat /\ seTable[seReaper.sid].seen \in Nat
        BY <3>1 DEF SeEntries
      <3>. QED
        BY <1>0, <1>6, <3>1, <3>2, HalfFacts DEF Expired
    <2>. QED
      BY <1>6, <2>1 DEF Reaper, SeLive
  <1>7. CASE Tick \/ KeyLost
    BY <1>0, <1>6, <1>7 DEF Tick, KeyLost
  <1>8. ASSUME NEW t \in SeThreads, AuthCheck(t) \/ AuthClear(t) PROVE Reaper'
    BY <1>0, <1>6, <1>8 DEF AuthCheck, AuthClear
  <1>9. ASSUME NEW t \in SeThreads, AuthPop(t) PROVE Reaper'
    <2>1. /\ seReaper' = seReaper /\ seWronged' = seWronged /\ seNow' = seNow
          /\ SeLive' = SeLive \ {seThread[t].sid}
          /\ \A s \in SeLive' : seTable'[s] = seTable[s]
      BY <1>9 DEF AuthPop, Removed, SeLive
    <2>2. ASSUME seReaper'.sid \in SeLive', ~seReaper'.raced
          PROVE  Expired(seTable[seReaper.sid], seNow)'
      BY <2>1, <2>2 DEF Reaper, Expired
    <2>. QED
      BY <2>1, <2>2 DEF Reaper
  <1>10. ASSUME NEW t \in SeThreads, AuthTouch(t) PROVE Reaper'
    <2>. DEFINE x == seThread[t].sid
                time == seThread[t].time
    <2>1. /\ seWronged' = seWronged /\ seNow' = seNow
          /\ seReaper' = IF seReaper.sid = x THEN [seReaper EXCEPT !.raced = TRUE] ELSE seReaper
          /\ IF x \in SeLive THEN Touched(x, time) ELSE seTable' = seTable
      BY <1>10 DEF AuthTouch
    <2>. HIDE DEF x, time
    <2>2. /\ SeLive' = SeLive
          /\ \A s \in SeLive : s # x => seTable'[s] = seTable[s]
      BY <1>0, <2>1 DEF Touched, SeLive
    <2>3. CASE seReaper.sid = x
      <3>1. /\ seReaper' \in [left : SUBSET SeSids, sid : SeSids \cup {NoSid}, raced : BOOLEAN]
            /\ seReaper'.raced
        BY <2>1, <2>3 DEF Reaper
      <3>. QED
        BY <2>1, <3>1 DEF Reaper
    <2>4. CASE seReaper.sid # x
      <3>1. ASSUME seReaper'.sid \in SeLive', ~seReaper'.raced
            PROVE  Expired(seTable[seReaper.sid], seNow)'
        BY <2>1, <2>2, <2>4, <3>1 DEF Reaper, Expired
      <3>. QED
        BY <2>1, <2>4, <3>1 DEF Reaper
    <2>. QED
      BY <2>3, <2>4
  <1>11. CASE ReaperRecheck
    <2>1. PICK sid \in seReaper.left :
            seReaper' = [left |-> seReaper.left \ {sid},
                         sid |-> IF sid \in SeLive /\ Expired(seTable[sid], seNow)
                                 THEN sid ELSE NoSid,
                         raced |-> FALSE]
      BY <1>11 DEF ReaperRecheck
    <2>2. seWronged' = seWronged /\ seNow' = seNow /\ seTable' = seTable
      BY <1>11 DEF ReaperRecheck
    <2>3. sid \in SeSids /\ seReaper.left \ {sid} \subseteq SeSids
      BY DEF Reaper
    <2>4. CASE sid \in SeLive /\ Expired(seTable[sid], seNow)
      <3>1. seReaper' = [left |-> seReaper.left \ {sid}, sid |-> sid, raced |-> FALSE]
        BY <2>1, <2>4
      <3>2. /\ seReaper'.sid = sid
            /\ seReaper' \in [left : SUBSET SeSids, sid : SeSids \cup {NoSid}, raced : BOOLEAN]
        BY <2>3, <3>1
      <3>3. Expired(seTable[seReaper.sid], seNow)'
        BY <2>2, <2>4, <3>2 DEF Expired
      <3>. QED
        BY <2>2, <3>2, <3>3 DEF Reaper
    <2>5. CASE ~(sid \in SeLive /\ Expired(seTable[sid], seNow))
      <3>1. seReaper' = [left |-> seReaper.left \ {sid}, sid |-> NoSid, raced |-> FALSE]
        BY <2>1, <2>5
      <3>. QED
        BY <1>1, <2>2, <2>3, <3>1
    <2>. QED
      BY <2>4, <2>5
  <1>12. CASE ReaperDelete
    <2>1. /\ seReaper' = [seReaper EXCEPT !.sid = NoSid, !.raced = FALSE]
          /\ seWronged' = (seWronged \/ (/\ seReaper.sid \in SeLive /\ ~seReaper.raced
                                          /\ ~Expired(seTable[seReaper.sid], seNow)))
      BY <1>12 DEF ReaperDelete
    <2>2. /\ seReaper' \in [left : SUBSET SeSids, sid : SeSids \cup {NoSid}, raced : BOOLEAN]
          /\ seReaper'.sid = NoSid
      BY <2>1 DEF Reaper
    <2>3. ~seWronged'
      BY <2>1 DEF Reaper
    <2>. QED
      BY <1>0, <2>2, <2>3 DEF Reaper
  <1>. QED
    BY <1>3, <1>4, <1>5, <1>7, <1>8, <1>9, <1>10, <1>11, <1>12 DEF SeNext

-----------------------------------------------------------------------------
(* Terminals.                                                              *)

\* The terminal's last check remains timely.
Timely(e, made, now) ==
    e \in Connections /\ e.sid \in made /\ e.checked <= now

LEMMA CheckedKeeps ==
    ASSUME Table, Table', Terminals, NEW t \in DOMAIN seTerm, NEW e \in Connections,
           e.sid = seTerm[t].sid, e.checked = seTerm[t].checked,
           seNow <= seNow', seMade \subseteq seMade',
           \A s \in seMade : \/ LastValid(s) <= LastValid(s)'
                              \/ seNow <= LastValid(s)' + 1
    PROVE  /\ Timely(e, seMade', seNow')
           /\ \A s \in SeSids : e.sid = s => e.checked <= LastValid(s)' + 1
  <1>1. e.sid \in seMade /\ e.checked <= seNow
    BY DEF Terminals
  <1>2. seNow \in Nat /\ seNow' \in Nat /\ e.checked \in Nat
    BY DEF Table, Connections
  <1>3. Timely(e, seMade', seNow')
    BY <1>1, <1>2 DEF Timely
  <1>4. ASSUME NEW s \in SeSids, e.sid = s PROVE e.checked <= LastValid(s)' + 1
    <2>. DEFINE L == LastValid(s)
                M == LastValid(s)'
    <2>1. L \in Nat /\ M \in Nat
      BY LastValidFacts, LastValidNext
    <2>2. L <= M \/ seNow <= M + 1
      BY <1>1, <1>4
    <2>3. e.checked <= L + 1
      BY <1>4 DEF Terminals
    <2>. HIDE DEF L, M
    <2>4. e.checked <= M + 1
      BY <1>1, <1>2, <2>1, <2>2, <2>3
    <2>. QED
      BY <2>4 DEF M
  <1>. QED
    BY <1>3, <1>4

\* What there is to show of the terminals after a step.
LEMMA TerminalsNext ==
    ASSUME IsFiniteSet(DOMAIN seTerm'), seTerm' \in [DOMAIN seTerm' -> Connections],
           seCount' \in Nat, seLeaked' \in Nat, seCount' <= SeLimit, seLate' = FALSE,
           seCount' = Cardinality(DOMAIN seTerm') + seLeaked',
           \A t \in DOMAIN seTerm' :
              /\ Timely(seTerm'[t], seMade', seNow')
              /\ \A s \in SeSids : seTerm'[t].sid = s => seTerm'[t].checked <= LastValid(s)' + 1
    PROVE  Terminals'
  BY DEF Terminals, TerminalsSound, Timely

LEMMA TerminalsKeep ==
    ASSUME Table, Table', Terminals, SeNext,
           seNow <= seNow', seMade \subseteq seMade',
           \A s \in seMade : \/ LastValid(s) <= LastValid(s)'
                              \/ seNow <= LastValid(s)' + 1
    PROVE  Terminals'
  <1>0. /\ seTerm \in [DOMAIN seTerm -> Connections] /\ IsFiniteSet(DOMAIN seTerm)
        /\ seCount \in Nat /\ seLeaked \in Nat /\ seNow \in Nat /\ SeLive \subseteq seMade
        /\ seCount = Cardinality(DOMAIN seTerm) + seLeaked /\ seCount <= SeLimit /\ ~seLate
        /\ seMade \subseteq SeSids /\ seMade' \subseteq SeSids /\ seNow' \in Nat
        /\ Cardinality(DOMAIN seTerm) \in Nat /\ SeLimit \in Nat
    BY FS_CardinalityType, SessionsAssumption DEF Terminals, TerminalsSound, Table
  <1>1. ASSUME NEW t \in DOMAIN seTerm
        PROVE  /\ Timely(seTerm[t], seMade', seNow')
               /\ \A s \in SeSids : seTerm[t].sid = s => seTerm[t].checked <= LastValid(s)' + 1
    <2>1. PICK e \in Connections : e = seTerm[t]
      BY <1>0
    <2>2. e.sid = seTerm[t].sid /\ e.checked = seTerm[t].checked
      BY <2>1
    <2>3. /\ Timely(e, seMade', seNow')
          /\ \A s \in SeSids : e.sid = s => e.checked <= LastValid(s)' + 1
      BY <2>2, CheckedKeeps
    <2>. QED
      BY <2>1, <2>3
  <1>2. ASSUME UNCHANGED <<seTerm, seCount, seLeaked, seLate>> PROVE Terminals'
    <2>1. seLate' = FALSE
      BY <1>2 DEF Terminals, TerminalsSound
    <2>2. \A t \in DOMAIN seTerm' :
              /\ Timely(seTerm'[t], seMade', seNow')
              /\ \A s \in SeSids : seTerm'[t].sid = s => seTerm'[t].checked <= LastValid(s)' + 1
      BY <1>1, <1>2
    <2>. QED
      BY <1>0, <1>2, <2>1, <2>2, TerminalsNext
  <1>3. ASSUME NEW t \in DOMAIN seTerm, Gone(t), seLate' = FALSE,
               \/ seCount' = seCount - 1 /\ seLeaked' = seLeaked
               \/ seCount' = seCount /\ seLeaked' = seLeaked + 1
        PROVE  Terminals'
    <2>. DEFINE D == DOMAIN seTerm
    <2>1. DOMAIN seTerm' = D \ {t} /\ \A u \in D \ {t} : seTerm'[u] = seTerm[u]
      BY <1>3 DEF Gone
    <2>2. IsFiniteSet(D \ {t}) /\ Cardinality(D \ {t}) = Cardinality(D) - 1
      BY <1>0, FS_RemoveElement
    <2>3. seTerm' \in [D \ {t} -> Connections]
      BY <1>0, <1>3 DEF Gone
    <2>4. \A u \in DOMAIN seTerm' :
              /\ Timely(seTerm'[u], seMade', seNow')
              /\ \A s \in SeSids : seTerm'[u].sid = s => seTerm'[u].checked <= LastValid(s)' + 1
      BY <1>1, <2>1
    <2>5. seCount' \in Nat /\ seLeaked' \in Nat /\ seCount' <= SeLimit
      <3>1. Cardinality(D) - 1 \in Nat
        BY <2>2, FS_CardinalityType
      <3>. QED
        BY <1>0, <1>3, <3>1
    <2>6. seCount' = Cardinality(DOMAIN seTerm') + seLeaked'
      BY <1>0, <1>3, <2>1, <2>2
    <2>7. IsFiniteSet(DOMAIN seTerm') /\ seTerm' \in [DOMAIN seTerm' -> Connections]
      BY <2>1, <2>2, <2>3
    <2>. HIDE DEF D
    <2>. QED
      BY <1>3, <2>4, <2>5, <2>6, <2>7, TerminalsNext
  <1>4. ASSUME NEW t \in DOMAIN seTerm, NEW e \in Connections, seTerm' = [seTerm EXCEPT ![t] = e],
               Timely(e, seMade', seNow'),
               \A s \in SeSids : e.sid = s => e.checked <= LastValid(s)' + 1,
               UNCHANGED <<seCount, seLeaked, seLate>>
        PROVE  Terminals'
    <2>1. /\ DOMAIN seTerm' = DOMAIN seTerm /\ seTerm'[t] = e
          /\ \A u \in DOMAIN seTerm : u # t => seTerm'[u] = seTerm[u]
          /\ seTerm' \in [DOMAIN seTerm' -> Connections]
      BY <1>0, <1>4
    <2>2. ASSUME NEW u \in DOMAIN seTerm'
          PROVE  /\ Timely(seTerm'[u], seMade', seNow')
                 /\ \A s \in SeSids : seTerm'[u].sid = s => seTerm'[u].checked <= LastValid(s)' + 1
      <3>1. CASE u # t
        BY <1>1, <2>1, <3>1
      <3>2. CASE u = t
        BY <1>4, <2>1, <3>2
      <3>. QED
        BY <3>1, <3>2
    <2>3. seLate' = FALSE
      BY <1>4 DEF Terminals, TerminalsSound
    <2>. QED
      BY <1>0, <1>4, <2>1, <2>2, <2>3, TerminalsNext
  <1>5. CASE \/ Tick \/ Login \/ Logout \/ Credentials \/ KeyLost \/ ReaperSnapshot
             \/ ReaperRecheck \/ ReaperDelete
    BY <1>2, <1>5 DEF Tick, Login, Logout, Credentials, KeyLost, ReaperSnapshot, ReaperRecheck,
                      ReaperDelete
  <1>6. ASSUME NEW t \in SeThreads, AuthCheck(t) \/ AuthClear(t) \/ AuthPop(t) \/ AuthTouch(t)
        PROVE  Terminals'
    BY <1>2, <1>6 DEF AuthCheck, AuthClear, AuthPop, AuthTouch
  <1>7. ASSUME NEW s \in SeLive, ~Expired(seTable[s], seNow), Touched(s, seNow), seNow' = seNow
        PROVE  LastValid(s)' = seNow
    <2>. DEFINE e == [seTable[s] EXCEPT !.seen = seNow]
    <2>1. /\ seTable' = [seTable EXCEPT ![s] = e] /\ seTable \in [SeLive -> SeEntries]
          /\ seTable[s] \in SeEntries
      BY <1>7 DEF Touched, Table
    <2>2. e.created = seTable[s].created /\ e.seen = seNow /\ seTable[s].created \in Nat
      BY <2>1 DEF SeEntries
    <2>. HIDE DEF e
    <2>3. s \in SeLive' /\ seTable'[s] = e
      BY <2>1 DEF SeLive
    <2>4. seNow - seTable[s].created <= SeTTL
      BY <1>0, <1>7, <2>2, HalfFacts DEF Expired
    <2>. QED
      BY <1>0, <1>7, <2>2, <2>3, <2>4, HalfFacts DEF LastValid
  <1>8. CASE Connect
    <2>1. PICK sid \in SeLive, t \in SeTerminals \ DOMAIN seTerm :
             IF Expired(seTable[sid], seNow) \/ seCount >= SeLimit
             THEN UNCHANGED <<seTerm, seCount>>
             ELSE /\ Touched(sid, seNow) /\ seCount' = seCount + 1
                  /\ seTerm' = [u \in DOMAIN seTerm \cup {t} |->
                                   IF u = t THEN [at |-> "accepted", sid |-> sid,
                                                  checked |-> seNow]
                                   ELSE seTerm[u]]
      BY <1>8 DEF Connect
    <2>2. seNow' = seNow /\ UNCHANGED <<seLeaked, seLate>>
      BY <1>8 DEF Connect
    <2>3. CASE Expired(seTable[sid], seNow) \/ seCount >= SeLimit
      BY <1>2, <2>1, <2>2, <2>3
    <2>4. CASE ~(Expired(seTable[sid], seNow) \/ seCount >= SeLimit)
      <3>. DEFINE D == DOMAIN seTerm
      <3>0. PICK e \in Connections : e = [at |-> "accepted", sid |-> sid, checked |-> seNow]
        BY <1>0 DEF Connections
      <3>1. /\ Touched(sid, seNow) /\ seCount' = seCount + 1
            /\ seTerm' = [u \in D \cup {t} |-> IF u = t THEN e ELSE seTerm[u]]
        BY <2>1, <2>4, <3>0
      <3>2. e.sid = sid /\ e.checked = seNow
        BY <3>0
      <3>3. LastValid(sid)' = seNow
        BY <1>7, <2>2, <2>4, <3>1
      <3>4. Timely(e, seMade', seNow')
        BY <1>0, <2>2, <3>2 DEF Timely
      <3>5. IsFiniteSet(D \cup {t}) /\ Cardinality(D \cup {t}) = Cardinality(D) + 1
        BY <1>0, FS_AddElement
      <3>6. /\ DOMAIN seTerm' = D \cup {t} /\ seTerm'[t] = e
            /\ \A u \in D : seTerm'[u] = seTerm[u]
            /\ seTerm' \in [D \cup {t} -> Connections]
        BY <1>0, <3>1
      <3>7. ASSUME NEW u \in DOMAIN seTerm'
            PROVE  /\ Timely(seTerm'[u], seMade', seNow')
                   /\ \A s \in SeSids : seTerm'[u].sid = s => seTerm'[u].checked <= LastValid(s)' + 1
        <4>1. CASE u = t
          <5>1. seNow <= seNow + 1
            BY <1>0
          <5>. QED
            BY <3>2, <3>3, <3>4, <3>6, <4>1, <5>1
        <4>2. CASE u # t
          BY <1>1, <3>6, <4>2
        <4>. QED
          BY <4>1, <4>2
      <3>8. /\ seCount' \in Nat /\ seCount' <= SeLimit /\ seLeaked' \in Nat
            /\ seCount' = Cardinality(DOMAIN seTerm') + seLeaked'
        BY <1>0, <2>2, <2>4, <3>1, <3>5, <3>6
      <3>9. seLate' = FALSE
        BY <2>2 DEF Terminals, TerminalsSound
      <3>10. IsFiniteSet(DOMAIN seTerm') /\ seTerm' \in [DOMAIN seTerm' -> Connections]
        BY <3>5, <3>6
      <3>. HIDE DEF D
      <3>. QED
        BY <3>7, <3>8, <3>9, <3>10, TerminalsNext
    <2>. QED
      BY <2>3, <2>4
  <1>9. ASSUME NEW t \in DOMAIN seTerm, StartFails(t) \/ StartRaises(t) \/ Close(t)
        PROVE  Terminals'
    <2>1. seLate' = FALSE
      BY <1>9 DEF StartFails, StartRaises, Close, Terminals, TerminalsSound
    <2>. QED
      BY <1>3, <1>9, <2>1 DEF StartFails, StartRaises, Close
  <1>10. ASSUME NEW t \in DOMAIN seTerm, StartTerminal(t) PROVE Terminals'
    <2>1. seTerm' = [seTerm EXCEPT ![t] = [seTerm[t] EXCEPT !.at = "open"]]
      BY <1>10 DEF StartTerminal
    <2>2. UNCHANGED <<seCount, seLeaked, seLate>>
      BY <1>10 DEF StartTerminal
    <2>3. PICK e \in Connections : e = [seTerm[t] EXCEPT !.at = "open"]
      BY <1>0 DEF Connections
    <2>4. e.sid = seTerm[t].sid /\ e.checked = seTerm[t].checked
      BY <1>0, <2>3 DEF Connections
    <2>5. /\ Timely(e, seMade', seNow')
          /\ \A s \in SeSids : e.sid = s => e.checked <= LastValid(s)' + 1
      BY <2>4, CheckedKeeps
    <2>. QED
      BY <1>4, <2>1, <2>2, <2>3, <2>5
  <1>11. ASSUME NEW t \in DOMAIN seTerm, Output(t) PROVE Terminals'
    <2>0. PICK sid \in SeSids : sid = seTerm[t].sid
      BY <1>0 DEF Connections
    <2>. DEFINE look == seNow - seTerm[t].checked > SeRecheck
                there == sid \in SeLive /\ ~Expired(seTable[sid], seNow)
    <2>1. /\ seTerm[t] \in Connections /\ seTerm[t].checked \in Nat
          /\ seTerm[t].checked <= LastValid(sid) + 1 /\ LastValid(sid) \in Nat
          /\ SeRecheck \in Nat
      BY <1>0, <2>0, LastValidFacts, SessionsAssumption DEF Terminals, Connections
    <2>2. /\ seNow' = seNow /\ seLeaked' = seLeaked
          /\ seLate' = (seLate \/ ((look => there) /\ seNow - LastValid(sid) > SeRecheck + 1))
      BY <1>11, <2>0 DEF Output
    <2>3. /\ ~look => UNCHANGED <<seTerm, seCount>>
          /\ look /\ there => /\ Touched(sid, seNow) /\ seCount' = seCount
                              /\ seTerm' = [seTerm EXCEPT ![t].checked = seNow]
          /\ look /\ ~there => Gone(t) /\ seCount' = seCount - 1
      BY <1>11, <2>0 DEF Output
    <2>4. there => LastValid(sid) = seNow
      BY LastValidFacts
    <2>5. seLate = FALSE
      BY DEF Terminals, TerminalsSound
    <2>6. ~((look => there) /\ seNow - LastValid(sid) > SeRecheck + 1)
      <3>. DEFINE L == LastValid(sid)
                  n == seTerm[t].checked
      <3>1. n \in Nat /\ n <= L + 1 /\ L \in Nat /\ SeRecheck \in Nat /\ seNow \in Nat
        BY <1>0, <2>1
      <3>. HIDE DEF L, n, there
      <3>2. there => L = seNow
        BY <2>4 DEF L
      <3>3. there => ~(seNow - L > SeRecheck + 1)
        BY <3>1, <3>2
      <3>4. ~(seNow - n > SeRecheck) => ~(seNow - L > SeRecheck + 1)
        BY <3>1
      <3>. QED
        BY <3>3, <3>4 DEF L, n
    <2>7. seLate' = FALSE
      BY <2>2, <2>5, <2>6
    <2>8. CASE ~look
      BY <1>2, <2>2, <2>3, <2>5, <2>7, <2>8
    <2>9. CASE look /\ ~there
      BY <1>3, <2>2, <2>3, <2>7, <2>9
    <2>10. CASE look /\ there
      <3>1. /\ seTerm' = [seTerm EXCEPT ![t] = [seTerm[t] EXCEPT !.checked = seNow]]
            /\ seCount' = seCount /\ Touched(sid, seNow)
        BY <2>3, <2>10
      <3>2. PICK e \in Connections : e = [seTerm[t] EXCEPT !.checked = seNow]
        BY <1>0, <2>1 DEF Connections
      <3>3. e.sid = sid /\ e.checked = seNow
        BY <2>0, <2>1, <3>2 DEF Connections
      <3>4. LastValid(sid)' = seNow
        BY <1>7, <2>2, <2>10, <3>1
      <3>5. Timely(e, seMade', seNow')
        BY <1>0, <2>2, <2>10, <3>3 DEF Timely
      <3>6. seNow <= seNow + 1
        BY <1>0
      <3>7. \A s \in SeSids : e.sid = s => e.checked <= LastValid(s)' + 1
        BY <3>3, <3>4, <3>6
      <3>8. UNCHANGED <<seCount, seLeaked, seLate>>
        BY <2>2, <2>5, <2>7, <3>1
      <3>. QED
        BY <1>4, <3>1, <3>2, <3>5, <3>7, <3>8
    <2>. QED
      BY <2>8, <2>9, <2>10
  <1>. QED
    BY <1>5, <1>6, <1>8, <1>9, <1>10, <1>11 DEF SeNext

-----------------------------------------------------------------------------
(* The invariant.                                                          *)

LEMMA SeInvInit ==
    ASSUME SeInit
    PROVE  SeInv
  <1>1. SeLive = {} /\ DOMAIN seTerm = {}
    BY DEF SeInit, SeLive
  <1>2. Table
    BY <1>1 DEF SeInit, Table
  <1>3. Resting \in Doings /\ Resting.at = "rest"
    BY DEF Resting, Doings
  <1>4. Threads /\ PopsCleared
    BY <1>3 DEF SeInit, Threads, PopsCleared
  <1>5. KeysFollowSessions
    BY <1>1 DEF SeInit, KeysFollowSessions
  <1>6. Reaper
    <2>1. ReaperRests \in [left : SUBSET SeSids, sid : SeSids \cup {NoSid}, raced : BOOLEAN]
      BY DEF ReaperRests
    <2>. QED
      BY <1>1, <2>1 DEF SeInit, Reaper
  <1>7. Terminals
    <2>1. seTerm \in [DOMAIN seTerm -> Connections]
      BY <1>1 DEF SeInit
    <2>2. IsFiniteSet(DOMAIN seTerm) /\ Cardinality(DOMAIN seTerm) = 0
      BY <1>1, FS_EmptySet
    <2>3. seCount = 0 /\ seLeaked = 0 /\ seLate = FALSE
      BY DEF SeInit
    <2>. QED
      <3>1. SeLimit \in Nat
        BY SessionsAssumption
      <3>. QED
        BY <1>1, <2>1, <2>2, <2>3, <3>1 DEF Terminals, TerminalsSound
  <1>. QED
    BY <1>2, <1>4, <1>5, <1>6, <1>7 DEF SeInv

LEMMA SeInvNext ==
    ASSUME SeInv, [SeNext]_seVars
    PROVE  SeInv'
  <1>1. CASE SeNext
    <2>1. /\ Table' /\ seNow <= seNow' /\ seMade \subseteq seMade'
          /\ \A s \in seMade : \/ LastValid(s) <= LastValid(s)'
                                \/ seNow <= LastValid(s)' + 1
      BY <1>1, TableKeeps DEF SeInv
    <2>2. Threads'
      BY <1>1, <2>1, ThreadsKeep DEF SeInv
    <2>3. PopsCleared' /\ KeysFollowSessions'
      BY <1>1, PopsKeep, KeysKeep DEF SeInv
    <2>4. Reaper'
      BY <1>1, <2>1, ReaperKeeps DEF SeInv
    <2>5. Terminals'
      BY <1>1, <2>1, TerminalsKeep DEF SeInv
    <2>. QED
      BY <2>1, <2>2, <2>3, <2>4, <2>5 DEF SeInv
  <1>2. CASE UNCHANGED seVars
    BY <1>2 DEF seVars, SeInv, Table, Threads, PopsCleared, KeysFollowSessions, Reaper, Terminals,
                TerminalsSound, SeLive, LastValid, Expired
  <1>. QED
    BY <1>1, <1>2

\* The credentials, the threads, the reaper's recheck and the terminals' last checks stand
\* in the relation that the properties below rest on.
THEOREM SessionsInvariance == SeSpec => []SeInv
  <1>1. SeInit => SeInv
    BY SeInvInit
  <1>2. SeInv /\ [SeNext]_seVars => SeInv'
    BY SeInvNext
  <1>. QED
    BY <1>1, <1>2, PTL DEF SeSpec

\* Credentials go with their session, and the reaper takes no session in use.
THEOREM SessionsStaySound == SeSpec => []SessionsSound
  <1>1. SeInv => SessionsSound
    BY DEF SeInv, Reaper, SessionsSound, ReapedWhenExpired
  <1>. QED
    BY <1>1, SessionsInvariance, PTL

\* Slots are those of the connections and the leaked ones, and no terminal outlives its
\* session by more than the interval and a tick.
THEOREM TerminalsStaySound == SeSpec => []TerminalsSound
  <1>1. SeInv => TerminalsSound
    BY DEF SeInv, Terminals
  <1>. QED
    BY <1>1, SessionsInvariance, PTL

-----------------------------------------------------------------------------
(* Types: no time of a session lies ahead of the clock.                    *)

SeTimes ==
    /\ seNow <= SeMaxTime
    /\ \A s \in SeLive : seTable[s].created <= seNow /\ seTable[s].seen <= seNow
    /\ \A s \in SeSids : seEnd[s] <= SeMaxTime
SeBounds ==
    /\ DOMAIN seTerm \subseteq SeTerminals
    /\ seFaults \in 0 .. SeMaxFaults /\ seLeaked <= seFaults
    /\ seWronged \in BOOLEAN /\ seLate \in BOOLEAN

LEMMA TimesStep ==
    ASSUME SeInv, SeTimes, SeNext
    PROVE  SeTimes'
  <1>0. /\ seNow \in Nat /\ seNow <= SeMaxTime /\ SeMaxTime \in Nat
        /\ \A s \in SeLive : /\ seTable[s] \in SeEntries
                             /\ seTable[s].created <= seNow /\ seTable[s].seen <= seNow
        /\ \A s \in SeSids : seEnd[s] \in Nat /\ seEnd[s] <= SeMaxTime
        /\ SeLive \subseteq SeSids
    BY SessionsAssumption DEF SeInv, Table, SeTimes
  <1>1. CASE Stays
    BY <1>0, <1>1 DEF Stays, SeTimes, SeLive
  <1>2. CASE Ticks
    <2>1. seNow' <= SeMaxTime /\ UNCHANGED <<seTable, seEnd>> /\ seNow' = seNow + 1
      <3>1. seNow < SeMaxTime \/ UNCHANGED seNow
        BY DEF SeNext, Tick, Login, Logout, Credentials, KeyLost, AuthCheck, AuthClear, AuthPop,
               AuthTouch, ReaperSnapshot, ReaperRecheck, ReaperDelete, Connect, StartTerminal,
               StartFails, StartRaises, Output, Close
      <3>. QED
        BY <1>0, <1>2, <3>1 DEF Ticks
    <2>2. \A s \in SeLive : seTable[s].created <= seNow' /\ seTable[s].seen <= seNow'
      BY <1>0, <2>1 DEF SeEntries
    <2>. QED
      BY <1>0, <2>1, <2>2 DEF SeTimes, SeLive
  <1>3. CASE Login
    <2>1. PICK sid \in SeSids \ seMade, kept \in {"keyring", "fernet"} :
             seTable' = [s \in SeLive \cup {sid} |->
                            IF s = sid THEN [created |-> seNow, seen |-> seNow, cred |-> kept]
                            ELSE seTable[s]]
      BY <1>3 DEF Login
    <2>2. seNow' = seNow /\ seEnd' = seEnd
      BY <1>3 DEF Login
    <2>3. \A s \in SeLive \cup {sid} :
             seTable'[s].created <= seNow /\ seTable'[s].seen <= seNow
      BY <1>0, <2>1
    <2>4. SeLive' = SeLive \cup {sid}
      BY <2>1 DEF SeLive
    <2>. QED
      BY <1>0, <2>2, <2>3, <2>4 DEF SeTimes
  <1>4. ASSUME NEW sid \in SeSids, Drops(sid) PROVE SeTimes'
    <2>1. /\ seTable' = [s \in SeLive \ {sid} |-> seTable[s]]
          /\ seEnd' = [s \in SeSids |-> IF s \in {sid} \cap SeLive THEN LastValid(s) ELSE seEnd[s]]
          /\ seNow' = seNow
      BY <1>4 DEF Drops, Removed
    <2>2. \A s \in SeSids : LastValid(s) \in Nat /\ (s \in SeLive => LastValid(s) <= seNow)
      BY LastValidFacts DEF SeInv
    <2>3. \A s \in SeSids : s \in SeLive => LastValid(s) <= SeMaxTime
      BY <1>0, <2>2
    <2>4. \A s \in SeSids : seEnd'[s] <= SeMaxTime
      BY <1>0, <2>1, <2>3
    <2>5. SeLive' = SeLive \ {sid} /\ \A s \in SeLive' : seTable'[s] = seTable[s]
      BY <2>1 DEF SeLive
    <2>. QED
      BY <1>0, <2>1, <2>4, <2>5 DEF SeTimes
  <1>5. ASSUME NEW sid \in SeSids, NEW time \in Nat, Uses(sid, time) PROVE SeTimes'
    <2>1. /\ sid \in SeLive /\ time <= seNow /\ seTable' = [seTable EXCEPT ![sid].seen = time]
          /\ seNow' = seNow /\ seEnd' = seEnd
      BY <1>5 DEF Uses, Touched
    <2>2. SeLive' = SeLive
      BY <2>1 DEF SeLive
    <2>3. \A s \in SeLive : seTable'[s].created <= seNow /\ seTable'[s].seen <= seNow
      BY <1>0, <2>1 DEF SeInv, Table, SeEntries
    <2>. QED
      BY <1>0, <2>1, <2>2, <2>3 DEF SeTimes
  <1>. QED
    BY <1>1, <1>2, <1>3, <1>4, <1>5, TableCases DEF SeInv

LEMMA BoundsStep ==
    ASSUME SeInv, SeBounds, SeNext
    PROVE  SeBounds'
  <1>0. /\ seFaults \in 0 .. SeMaxFaults /\ SeMaxFaults \in Nat /\ seLeaked \in Nat
        /\ seLeaked <= seFaults
    BY SessionsAssumption DEF SeInv, Terminals, SeBounds
  <1>1. DOMAIN seTerm' \subseteq SeTerminals
    <2>1. ASSUME NEW t \in DOMAIN seTerm,
                 StartTerminal(t) \/ StartFails(t) \/ StartRaises(t) \/ Output(t) \/ Close(t)
          PROVE  DOMAIN seTerm' \subseteq DOMAIN seTerm
      BY <2>1 DEF StartTerminal, StartFails, StartRaises, Output, Close, Gone
    <2>2. ASSUME Connect PROVE DOMAIN seTerm' \subseteq SeTerminals
      <3>1. PICK t \in SeTerminals, sid \in SeLive :
               seTerm' = seTerm \/ DOMAIN seTerm' = DOMAIN seTerm \cup {t}
        BY <2>2 DEF Connect
      <3>. QED
        BY <3>1 DEF SeBounds
    <2>3. ASSUME UNCHANGED seTerm PROVE DOMAIN seTerm' \subseteq SeTerminals
      BY <2>3 DEF SeBounds
    <2>4. \/ UNCHANGED seTerm \/ Connect
          \/ \E t \in DOMAIN seTerm :
                StartTerminal(t) \/ StartFails(t) \/ StartRaises(t) \/ Output(t) \/ Close(t)
      BY DEF SeNext, Tick, Login, Logout, Credentials, KeyLost, AuthCheck, AuthClear, AuthPop,
             AuthTouch, ReaperSnapshot, ReaperRecheck, ReaperDelete
    <2>. QED
      BY <2>1, <2>2, <2>3, <2>4 DEF SeBounds
  <1>2. \/ UNCHANGED <<seFaults, seLeaked>>
        \/ /\ seFaults < SeMaxFaults /\ seFaults' = seFaults + 1
           /\ seLeaked' = seLeaked \/ seLeaked' = seLeaked + 1
    BY DEF SeNext, Tick, Login, Logout, Credentials, KeyLost, AuthCheck, AuthClear, AuthPop,
           AuthTouch, ReaperSnapshot, ReaperRecheck, ReaperDelete, Connect, StartTerminal,
           StartFails, StartRaises, Output, Close
  <1>3. seFaults' \in 0 .. SeMaxFaults /\ seLeaked' <= seFaults'
    BY <1>0, <1>2
  <1>4. seWronged' \in BOOLEAN
    <2>1. seWronged \in BOOLEAN
      BY DEF SeBounds
    <2>2. UNCHANGED seWronged \/ ReaperDelete
      BY DEF SeNext, Tick, Login, Logout, Credentials, KeyLost, AuthCheck, AuthClear, AuthPop,
             AuthTouch, ReaperSnapshot, ReaperRecheck, Connect, StartTerminal,
             StartFails, StartRaises, Output, Close
    <2>3. ReaperDelete => seWronged' \in BOOLEAN
      BY Zenon DEF ReaperDelete
    <2>. QED
      BY <2>1, <2>2, <2>3, Zenon
  <1>5. seLate' \in BOOLEAN
    <2>1. seLate \in BOOLEAN
      BY DEF SeBounds
    <2>2. UNCHANGED seLate \/ \E t \in DOMAIN seTerm : Output(t)
      BY DEF SeNext, Tick, Login, Logout, Credentials, KeyLost, AuthCheck, AuthClear, AuthPop,
             AuthTouch, ReaperSnapshot, ReaperRecheck, ReaperDelete, Connect, StartTerminal,
             StartFails, StartRaises, Close
    <2>3. ASSUME NEW t \in DOMAIN seTerm, Output(t) PROVE seLate' \in BOOLEAN
      BY <2>3, Zenon DEF Output
    <2>. QED
      BY <2>1, <2>2, <2>3, Zenon
  <1>. QED
    BY <1>1, <1>3, <1>4, <1>5 DEF SeBounds

LEMMA SessionTypes == SeInv /\ SeTimes /\ SeBounds => SeTypeOK
  <1>. SUFFICES ASSUME SeInv, SeTimes, SeBounds PROVE SeTypeOK
    OBVIOUS
  <1>1. /\ seNow \in Nat /\ SeMaxTime \in Nat /\ SeMaxFaults \in Nat
        /\ SeLive \subseteq seMade /\ seMade \subseteq SeSids
    BY SessionsAssumption DEF SeInv, Table
  <1>2. seNow \in 0 .. SeMaxTime
    BY <1>1 DEF SeTimes
  <1>3. ASSUME NEW s \in SeLive
        PROVE  seTable[s] \in [created : 0 .. seNow, seen : 0 .. seNow,
                               cred : {"keyring", "fernet"}]
    <2>1. seTable[s] \in SeEntries /\ seTable[s].created <= seNow /\ seTable[s].seen <= seNow
      BY DEF SeInv, Table, SeTimes
    <2>. QED
      BY <1>1, <2>1 DEF SeEntries
  <1>4. seKeys \subseteq SeSids /\ seRing \subseteq SeSids
    BY <1>1 DEF SeInv, KeysFollowSessions
  <1>5. \A t \in SeThreads : seThread[t].at \in {"rest", "clear", "pop", "touch"}
    BY DEF SeInv, Threads, Doings
  <1>6. seReaper.left \subseteq SeSids /\ seReaper.sid \in SeSids \cup {NoSid}
    BY DEF SeInv, Reaper
  <1>7. ASSUME NEW t \in DOMAIN seTerm
        PROVE  seTerm[t] \in [at : {"accepted", "open"}, sid : SeSids, checked : 0 .. seNow]
    <2>1. seTerm[t] \in Connections /\ seTerm[t].checked <= seNow
      BY DEF SeInv, Terminals
    <2>. QED
      BY <1>1, <2>1 DEF Connections
  <1>8. seCount \in Nat /\ seFaults \in 0 .. SeMaxFaults /\ seLeaked \in 0 .. SeMaxFaults
    <2>1. seLeaked \in Nat /\ seCount \in Nat /\ seFaults \in 0 .. SeMaxFaults /\ seLeaked <= seFaults
      BY DEF SeInv, Terminals, SeBounds
    <2>. QED
      BY <1>1, <2>1
  <1>9. seEnd \in [SeSids -> 0 .. SeMaxTime]
    <2>1. seEnd \in [SeSids -> Nat] /\ \A s \in SeSids : seEnd[s] <= SeMaxTime
      BY DEF SeInv, Table, SeTimes
    <2>. QED
      BY <1>1, <2>1
  <1>. QED
    BY <1>1, <1>2, <1>3, <1>4, <1>5, <1>6, <1>7, <1>8, <1>9 DEF SeTypeOK, SeBounds

\* Every variable of the sessions keeps its type: no time of a session lies ahead of the
\* clock, no more slots are leaked than terminals failed to start (security/session.py).
THEOREM SessionsTyped == SeSpec => []SeTypeOK
  <1>1. SeInit => SeTimes /\ SeBounds
    <2>. SUFFICES ASSUME SeInit PROVE SeTimes /\ SeBounds
      OBVIOUS
    <2>1. /\ seNow = 0 /\ SeLive = {} /\ DOMAIN seTerm = {} /\ seFaults = 0 /\ seLeaked = 0
          /\ \A s \in SeSids : seEnd[s] = 0
      BY DEF SeInit, SeLive
    <2>2. seWronged \in BOOLEAN /\ seLate \in BOOLEAN
      BY DEF SeInit
    <2>3. 0 <= SeMaxTime /\ 0 \in 0 .. SeMaxFaults
      <3>1. SeMaxTime \in Nat /\ SeMaxFaults \in Nat
        BY SessionsAssumption
      <3>. QED
        BY <3>1
    <2>4. SeTimes
      <3>1. \A s \in SeLive : seTable[s].created <= seNow /\ seTable[s].seen <= seNow
        BY <2>1
      <3>2. \A t \in DOMAIN seTerm : seTerm[t].checked <= seNow
        BY <2>1
      <3>3. \A s \in SeSids : seEnd[s] <= SeMaxTime
        BY <2>1, <2>3
      <3>. QED
        BY <2>1, <2>3, <3>1, <3>2, <3>3 DEF SeTimes
    <2>5. seFaults \in 0 .. SeMaxFaults /\ seLeaked <= seFaults
      BY <2>1, <2>3
    <2>6. DOMAIN seTerm \subseteq SeTerminals
      BY <2>1
    <2>7. SeBounds
      BY <2>2, <2>5, <2>6 DEF SeBounds
    <2>. QED
      BY <2>4, <2>7
  <1>2. SeInv /\ SeTimes /\ SeBounds /\ [SeNext]_seVars => (SeTimes /\ SeBounds)'
    <2>1. CASE SeNext
      BY <2>1, TimesStep, BoundsStep
    <2>2. CASE UNCHANGED seVars
      BY <2>2 DEF seVars, SeTimes, SeBounds, SeLive
    <2>. QED
      BY <2>1, <2>2
  <1>. QED
    BY <1>1, <1>2, SessionsInvariance, SessionTypes, PTL DEF SeSpec
===============================================================================
