-------------------------- MODULE OrchestratorProofs --------------------------
(***************************************************************************)
(* What holds of the offline orchestrator for any packages, reports,       *)
(* defects and limits.  The order of file times is all it decides by, so   *)
(* the proof rests on what a write does to that order (StampOrder); the    *)
(* node at work is the other half, because only the reviews write the      *)
(* checklists, and they are entered only when the self-check is clean.     *)
(***************************************************************************)
EXTENDS Orchestrator, SequenceTheorems, TLAPS

(***************************************************************************)
(* The order of times                                                      *)
(***************************************************************************)
\* At is the place of a name, 0 for none (newest()).
LEMMA AtPlace ==
  ASSUME NEW S, NEW times, Order(times, S), NEW x
  PROVE  /\ At(times, x) \in 0 .. Len(times)
         /\ At(times, x) > 0 => times[At(times, x)] = x
         /\ \A i \in 1 .. Len(times) : times[i] = x => At(times, x) = i
<1>1. times \in Seq(S) /\ DOMAIN times = 1 .. Len(times) /\ Len(times) \in Nat
    BY DEF Order
<1>2. CASE \E i \in DOMAIN times : times[i] = x
  <2>1. At(times, x) = CHOOSE i \in DOMAIN times : times[i] = x
      BY <1>2 DEF At
  <2>2. At(times, x) \in DOMAIN times /\ times[At(times, x)] = x
      BY <1>2, <2>1
  <2> QED
      BY <1>1, <2>2 DEF Order, IsInjective
<1>3. CASE ~ \E i \in DOMAIN times : times[i] = x
  <2>1. At(times, x) = 0
      BY <1>3 DEF At
  <2> QED
      BY <1>1, <1>3, <2>1
<1> QED
    BY <1>2, <1>3

\* Two names never share a place.
LEMMA AtDistinct ==
  ASSUME NEW S, NEW times, Order(times, S), NEW x, NEW y, x # y, At(times, x) > 0
  PROVE  At(times, x) # At(times, y)
BY AtPlace

\* What RemoveAt leaves, and where.
LEMMA RemoveAtPlaces ==
  ASSUME NEW S, NEW s \in Seq(S), NEW i \in 1 .. Len(s)
  PROVE  /\ RemoveAt(s, i) \in Seq(S)
         /\ Len(RemoveAt(s, i)) = Len(s) - 1
         /\ \A k \in 1 .. Len(s) - 1 : RemoveAt(s, i)[k] = IF k < i THEN s[k] ELSE s[k + 1]
<1> DEFINE a == SubSeq(s, 1, i - 1)
           b == SubSeq(s, i + 1, Len(s))
<1>1. Len(s) \in Nat /\ \A k \in 1 .. Len(s) : s[k] \in S
    OBVIOUS
<1>2. a \in Seq(S) /\ Len(a) = i - 1 /\ \A k \in 1 .. i - 1 : a[k] = s[k]
  <2>1. /\ SubSeq(s, 1, i - 1) \in Seq(S)
        /\ Len(SubSeq(s, 1, i - 1)) = IF 1 <= i - 1 THEN (i - 1) - 1 + 1 ELSE 0
        /\ \A k \in 1 .. (i - 1) - 1 + 1 : SubSeq(s, 1, i - 1)[k] = s[1 + k - 1]
      BY <1>1, SubSeqProperties
  <2> QED
      BY <2>1, <1>1
<1>3. b \in Seq(S) /\ Len(b) = Len(s) - i /\ \A k \in 1 .. Len(s) - i : b[k] = s[i + k]
  <2>1. /\ SubSeq(s, i + 1, Len(s)) \in Seq(S)
        /\ Len(SubSeq(s, i + 1, Len(s))) = IF i + 1 <= Len(s) THEN Len(s) - (i + 1) + 1 ELSE 0
        /\ \A k \in 1 .. Len(s) - (i + 1) + 1 : SubSeq(s, i + 1, Len(s))[k] = s[(i + 1) + k - 1]
      BY <1>1, SubSeqProperties
  <2> QED
      BY <2>1, <1>1
<1>4. RemoveAt(s, i) = a \o b
    BY DEF RemoveAt
<1>5. /\ a \o b \in Seq(S)
      /\ Len(a \o b) = Len(a) + Len(b)
      /\ \A k \in 1 .. Len(a) + Len(b) : (a \o b)[k] = IF k <= Len(a) THEN a[k] ELSE b[k - Len(a)]
  <2> HIDE DEF a, b
  <2> QED
      BY <1>2, <1>3, ConcatProperties
<1> HIDE DEF a, b
<1>6. \A k \in 1 .. Len(s) - 1 : (a \o b)[k] = IF k < i THEN s[k] ELSE s[k + 1]
  <2> TAKE k \in 1 .. Len(s) - 1
  <2>1. CASE k < i
      BY <1>1, <1>2, <1>3, <1>5, <2>1
  <2>2. CASE ~(k < i)
    <3>1. (a \o b)[k] = b[k - (i - 1)]
        BY <1>1, <1>2, <1>3, <1>5, <2>2
    <3>2. k - (i - 1) \in 1 .. Len(s) - i /\ i + (k - (i - 1)) = k + 1
        BY <1>1, <2>2
    <3> QED
        BY <1>3, <2>2, <3>1, <3>2
  <2> QED
      BY <2>1, <2>2
<1> QED
    BY <1>1, <1>2, <1>3, <1>4, <1>5, <1>6

\* Where an element of a sequence is found when the one at i is gone (0: none
\* is), and where one of what is left comes from.
Moved(i, k) == IF i = 0 \/ k < i THEN k ELSE k - 1
Back(i, k) == IF i = 0 \/ k < i THEN k ELSE k + 1
Without(s, i) == IF i = 0 THEN s ELSE RemoveAt(s, i)

LEMMA WithoutPlaces ==
  ASSUME NEW S, NEW s \in Seq(S), NEW i \in 0 .. Len(s)
  PROVE  /\ Without(s, i) \in Seq(S)
         /\ Len(Without(s, i)) = IF i = 0 THEN Len(s) ELSE Len(s) - 1
         /\ \A k \in 1 .. Len(Without(s, i)) :
              /\ Back(i, k) \in 1 .. Len(s) \ {i}
              /\ Without(s, i)[k] = s[Back(i, k)]
              /\ Moved(i, Back(i, k)) = k
         /\ \A k \in 1 .. Len(s) \ {i} :
              /\ Moved(i, k) \in 1 .. Len(Without(s, i))
              /\ Without(s, i)[Moved(i, k)] = s[k]
<1>1. Len(s) \in Nat
    OBVIOUS
<1>2. CASE i = 0
    BY <1>1, <1>2 DEF Without, Back, Moved
<1>3. CASE i # 0
  <2>1. i \in 1 .. Len(s)
      BY <1>1, <1>3
  <2> DEFINE rest == RemoveAt(s, i)
  <2>2. /\ rest \in Seq(S)
        /\ Len(rest) = Len(s) - 1
        /\ \A k \in 1 .. Len(s) - 1 : rest[k] = IF k < i THEN s[k] ELSE s[k + 1]
      BY <2>1, RemoveAtPlaces
  <2>3. Without(s, i) = rest
      BY <1>3 DEF Without
  <2> HIDE DEF rest
  <2>4. \A k \in 1 .. Len(rest) :
          Back(i, k) \in 1 .. Len(s) \ {i} /\ rest[k] = s[Back(i, k)] /\ Moved(i, Back(i, k)) = k
    <3> TAKE k \in 1 .. Len(rest)
    <3>1. k \in 1 .. Len(s) - 1
        BY <2>2
    <3>2. CASE k < i
      <4>1. Back(i, k) = k /\ Moved(i, k) = k
          BY <3>2 DEF Back, Moved
      <4> QED
          BY <1>1, <2>1, <2>2, <3>1, <3>2, <4>1
    <3>3. CASE ~(k < i)
      <4>1. Back(i, k) = k + 1 /\ Moved(i, k + 1) = k
          BY <1>1, <1>3, <2>1, <3>1, <3>3 DEF Back, Moved
      <4> QED
          BY <1>1, <2>1, <2>2, <3>1, <3>3, <4>1
    <3> QED
        BY <3>2, <3>3
  <2>5. \A k \in 1 .. Len(s) \ {i} : Moved(i, k) \in 1 .. Len(rest) /\ rest[Moved(i, k)] = s[k]
    <3> TAKE k \in 1 .. Len(s) \ {i}
    <3>1. CASE k < i
      <4>1. Moved(i, k) = k
          BY <3>1 DEF Moved
      <4> QED
          BY <1>1, <2>1, <2>2, <3>1, <4>1
    <3>2. CASE ~(k < i)
      <4>1. Moved(i, k) = k - 1 /\ k - 1 \in 1 .. Len(s) - 1 /\ ~(k - 1 < i)
          BY <1>1, <1>3, <2>1, <3>2 DEF Moved
      <4> QED
          BY <1>1, <2>1, <2>2, <3>2, <4>1
    <3> QED
        BY <3>1, <3>2
  <2> QED
      BY <1>3, <2>2, <2>3, <2>4, <2>5
<1> QED
    BY <1>2, <1>3

\* A write moves its name to the end and leaves the order of the others.
LEMMA StampOrder ==
  ASSUME NEW S, NEW times, Order(times, S), NEW x \in S
  PROVE  /\ Order(Stamp(times, x), S)
         /\ At(Stamp(times, x), x) > 0
         /\ Stamp(times, x)[Len(Stamp(times, x))] = x
         /\ \A y : y # x =>
              /\ At(Stamp(times, x), y) < At(Stamp(times, x), x)
              /\ At(Stamp(times, x), y) > 0 <=> At(times, y) > 0
              /\ \A z : z # x => (At(Stamp(times, x), y) <= At(Stamp(times, x), z)
                                  <=> At(times, y) <= At(times, z))
<1> DEFINE i == At(times, x)
           rest == Without(times, i)
           new == Stamp(times, x)
<1>1. times \in Seq(S) /\ Len(times) \in Nat
      /\ \A j, k \in 1 .. Len(times) : times[j] = times[k] => j = k
    BY DEF Order, IsInjective
<1>2. /\ i \in 0 .. Len(times)
      /\ i > 0 => times[i] = x
      /\ \A k \in 1 .. Len(times) : times[k] = x => i = k
    BY AtPlace
<1>3. new = Append(rest, x)
    BY DEF Stamp, Without
<1> HIDE DEF i
<1>4. /\ rest \in Seq(S)
      /\ Len(rest) = IF i = 0 THEN Len(times) ELSE Len(times) - 1
      /\ \A k \in 1 .. Len(rest) :
           Back(i, k) \in 1 .. Len(times) \ {i} /\ rest[k] = times[Back(i, k)] /\ Moved(i, Back(i, k)) = k
      /\ \A k \in 1 .. Len(times) \ {i} : Moved(i, k) \in 1 .. Len(rest) /\ rest[Moved(i, k)] = times[k]
  <2>1. times \in Seq(S) /\ i \in 0 .. Len(times)
      BY <1>1, <1>2
  <2>2. rest \in Seq(S) /\ Len(rest) = IF i = 0 THEN Len(times) ELSE Len(times) - 1
      BY <2>1, WithoutPlaces
  <2>3. \A k \in 1 .. Len(rest) :
          /\ Back(i, k) \in 1 .. Len(times) \ {i}
          /\ rest[k] = times[Back(i, k)]
          /\ Moved(i, Back(i, k)) = k
      BY <2>1, WithoutPlaces
  <2>4. \A k \in 1 .. Len(times) \ {i} : Moved(i, k) \in 1 .. Len(rest) /\ rest[Moved(i, k)] = times[k]
      BY <2>1, WithoutPlaces
  <2> QED
      BY <2>2, <2>3, <2>4
<1> HIDE DEF rest, new
<1>5. /\ new \in Seq(S) /\ Len(new) = Len(rest) + 1 /\ Len(rest) \in Nat /\ new[Len(new)] = x
      /\ \A k \in 1 .. Len(rest) : new[k] = rest[k]
    BY <1>3, <1>4
<1>6. \A k \in 1 .. Len(rest) : rest[k] # x
    BY <1>2, <1>4, ZenonT(60)
<1>7. \A j, k \in 1 .. Len(rest) : rest[j] = rest[k] => j = k
    BY <1>1, <1>4, SMTT(30)
<1>8. IsInjective(new)
  <2>1. DOMAIN new = 1 .. Len(rest) + 1
      BY <1>5
  <2> QED
      BY <2>1, <1>5, <1>6, <1>7 DEF IsInjective
<1>9. Order(new, S)
    BY <1>5, <1>8 DEF Order
<1>10. At(new, x) = Len(rest) + 1
    BY <1>5, <1>9, AtPlace
<1>11. \A y : y # x => /\ At(times, y) \in 0 .. Len(times)
                       /\ At(times, y) = 0 \/ At(times, y) # i
                       /\ At(new, y) = IF At(times, y) = 0 THEN 0 ELSE Moved(i, At(times, y))
  <2> TAKE y
  <2> HAVE y # x
  <2>1. /\ At(times, y) \in 0 .. Len(times)
        /\ At(times, y) > 0 => times[At(times, y)] = y
        /\ \A k \in 1 .. Len(times) : times[k] = y => At(times, y) = k
      BY AtPlace
  <2>2. /\ At(new, y) \in 0 .. Len(new)
        /\ At(new, y) > 0 => new[At(new, y)] = y
        /\ \A k \in 1 .. Len(new) : new[k] = y => At(new, y) = k
      BY <1>9, AtPlace
  <2>3. CASE At(times, y) = 0
    <3>1. At(new, y) # 0 => FALSE
      <4> HAVE At(new, y) # 0
      <4>1. At(new, y) \in 1 .. Len(rest) /\ rest[At(new, y)] = y
          BY <1>5, <2>2
      <4>2. \E k \in 1 .. Len(times) : times[k] = y
          BY <1>4, <4>1
      <4> QED
          BY <2>1, <2>3, <4>2
    <3> QED
        BY <2>1, <2>3, <3>1
  <2>4. CASE At(times, y) # 0
    <3> DEFINE k == At(times, y)
    <3>1. k \in 1 .. Len(times) /\ times[k] = y
        BY <1>1, <2>1, <2>4
    <3> HIDE DEF k
    <3>2. k # i
        BY <1>1, <1>2, <3>1
    <3>3. Moved(i, k) \in 1 .. Len(rest) /\ rest[Moved(i, k)] = y
        BY <1>4, <3>1, <3>2
    <3>4. new[Moved(i, k)] = y /\ Moved(i, k) \in 1 .. Len(new)
        BY <1>5, <3>3
    <3> QED
        BY <2>1, <2>2, <2>4, <3>2, <3>4 DEF k
  <2> QED
      BY <2>3, <2>4
<1>12. \A y : y # x =>
         /\ At(new, y) \in 0 .. Len(rest)
         /\ At(new, y) > 0 <=> At(times, y) > 0
  <2> TAKE y
  <2> HAVE y # x
  <2>1. /\ At(times, y) \in 0 .. Len(times)
        /\ At(times, y) = 0 \/ At(times, y) # i
        /\ At(new, y) = IF At(times, y) = 0 THEN 0 ELSE Moved(i, At(times, y))
      BY <1>11
  <2>2. CASE At(times, y) = 0
      BY <1>5, <2>1, <2>2
  <2>3. CASE At(times, y) # 0
    <3>1. Moved(i, At(times, y)) \in 1 .. Len(rest)
        BY <1>1, <1>4, <2>1, <2>3
    <3> QED
        BY <1>1, <1>5, <2>1, <2>3, <3>1
  <2> QED
      BY <2>2, <2>3
<1>13. \A y, z : y # x /\ z # x => (At(new, y) <= At(new, z) <=> At(times, y) <= At(times, z))
    BY <1>1, <1>2, <1>11 DEF Moved
<1> QED
    BY <1>5, <1>9, <1>10, <1>12, <1>13 DEF new

----------------------------------------------------------------------------
(***************************************************************************)
(* The invariant                                                           *)
(***************************************************************************)
Time(x) == TimeIn(ledger, x)
Report == [times : Seq(ReportFiles), draft : Drafts \cup {NoText}, polished : Polishings \cup {NoText},
           review : DraftVerdicts \cup {"none"}, final : FinalVerdicts \cup {"none"}]
Ledger == [round : 1 .. MaxRounds, run : Runs \cup {NoRun}, earlier : SUBSET Runs, times : Seq(LedgerTimes)]
Call == [phase : Phases, copy : Ledger]
Flow == [node : Nodes \cup {"idle"}, counts : [Nodes -> 0 .. NodeLimit], run : Runs \cup {NoRun},
         touched : BOOLEAN, rendered : BOOLEAN, grew : BOOLEAN, done : BOOLEAN,
         read : Packages \cup {"none"}]

CaseTyped ==
  /\ ledger \in Ledger /\ Order(ledger.times, LedgerTimes)
  /\ package \in Packages
  /\ checklist \in IntakeVerdicts \cup {"none"}
  /\ report \in [Runs -> Report]
  /\ \A r \in Runs : Order(report[r].times, ReportFiles)
  /\ calls \in [Processes -> Call] /\ \A c \in Processes : Order(calls[c].copy.times, LedgerTimes)
  /\ untimed \in BOOLEAN
FlowTyped == flow \in Flow /\ stop \in Stops \cup {"none"}

\* A review that is not older than its draft found a draft that passes the
\* self-check, whatever it says of it.
DraftsReviewed ==
  \A r \in Runs : Has(r, "review") /\ Touched(r, "review") >= Touched(r, "draft") => ~DraftProblems(r)

\* A final review that nothing has overtaken found a text that passes its own.
FinalsSound ==
  \A r \in Runs :
    /\ Has(r, "final") /\ Touched(r, "final") >= Touched(r, "draft")
    /\ Touched(r, "final") >= Touched(r, "polished") /\ Touched(r, "final") >= Touched(r, "pdf")
    => ~PolishedProblems(r)

\* What the node at work may count on, whatever the front does meanwhile.
AtWork ==
  /\ flow.node = "review_draft" => flow.run \in Runs /\ ~DraftProblems(flow.run)
  /\ flow.node = "review_final" => flow.run \in Runs /\ ~PolishedProblems(flow.run)
  /\ flow.node = "polish" => flow.run \in Runs /\ Has(flow.run, "draft") /\ DraftPassed(flow.run)

\* Where the program is in a ledger call, and what the copies of the calls
\* hold: a copy the front saves has no check that is newer than its write, so
\* it cannot be mistaken for a checked ledger; the copy of a registration has.
Checked(l) == TimeIn(l, "written") <= TimeIn(l, "checked") /\ TimeIn(l, "checked") > 0
CallFits ==
  /\ flow.node = "idle" => calls["program"].phase = "none"
  /\ calls["program"].phase = "loaded" => flow.node = "review_intake"
  /\ calls["program"].phase = "changed" /\ ~flow.done => flow.node = "review_intake"
  /\ flow.node = "run" /\ calls["program"].phase # "none" =>
       checklist = "RUNNABLE" /\ Checked(calls["program"].copy)
  /\ flow.node = "run" /\ (~flow.done \/ calls["program"].phase = "changed") =>
       flow.read \in Packages /\ (flow.read = package \/ untimed \/ ~Checked(ledger))
  /\ calls["front"].phase = "changed" => ~Checked(calls["front"].copy)

OrchestratorInv == CaseTyped /\ FlowTyped /\ DraftsReviewed /\ FinalsSound /\ AtWork /\ CallFits

(***************************************************************************)
(* What the status says of the files                                       *)
(***************************************************************************)
LEMMA TimesNat ==
  ASSUME CaseTyped
  PROVE  /\ \A x : Time(x) \in Nat
         /\ \A r \in Runs : \A f : Touched(r, f) \in Nat
BY AtPlace DEF CaseTyped, Time, TimeIn, Touched, Order

ReportStatuses == {"ran", "drafted", "reviewed", "polished", "delivered"}

LEMMA ReportStatusMeans ==
  ASSUME NEW r
  PROVE  /\ ReportStatus(r) \in ReportStatuses
         /\ ReportStatus(r) \in {"reviewed", "polished", "delivered"} => Has(r, "draft") /\ DraftPassed(r)
         /\ ReportStatus(r) \in {"polished", "delivered"} => ~(Touched(r, "polished") < Touched(r, "review"))
         /\ ReportStatus(r) = "delivered" => FinalPassed(r)
BY DEF ReportStatus, ReportStatuses

LEMMA StatusMeans ==
  ASSUME CaseTyped
  PROVE  /\ Status \in {"intake", "intake_ok"} \cup ReportStatuses
         /\ Status \in ReportStatuses => ledger.run \in Runs /\ Status = ReportStatus(ledger.run)
         /\ Status = "intake_ok" =>
              checklist = "RUNNABLE" /\ ~(Time("written") > Time("checked")) /\ Time("checked") > 0
<1>1. Time("written") \in Nat /\ Time("checked") \in Nat /\ Time("registered") \in Nat
    BY TimesNat
<1>2. ledger.run \in Runs \cup {NoRun}
    BY DEF CaseTyped, Ledger
<1>3. CASE ledger.run # NoRun /\ Time("written") > Time("checked")
    BY <1>3 DEF Status, StatusBy, Time, ReportStatuses
<1>4. CASE ledger.run # NoRun /\ ~(Time("written") > Time("checked"))
  <2>1. Status = IF checklist = "RUNNABLE" /\ Time("registered") > 0 /\ Time("checked") > Time("registered")
                 THEN "intake_ok" ELSE ReportStatus(ledger.run)
      BY <1>4 DEF Status, StatusBy, Time
  <2> QED
      BY <1>1, <1>2, <1>4, <2>1, ReportStatusMeans DEF ReportStatuses
<1>5. CASE ledger.run = NoRun
  <2>1. Status = IF checklist = "RUNNABLE" /\ Time("checked") > Time("written") THEN "intake_ok" ELSE "intake"
      BY <1>5 DEF Status, StatusBy, Time
  <2> QED
      BY <1>1, <1>5, <2>1 DEF ReportStatuses
<1> QED
    BY <1>3, <1>4, <1>5

LEMMA ReturnMeans ==
  ASSUME CaseTyped
  PROVE  /\ PendingReturn \in {"none", "front", "analysis", "polish"}
         /\ PendingReturn = "polish" => Status = "polished"
<1>1. Status = "drafted" \/ Status = "polished" => ledger.run \in Runs
    BY StatusMeans DEF ReportStatuses
<1>2. /\ Status = "drafted" => report[ledger.run].review \in DraftVerdicts \cup {"none"}
      /\ Status = "polished" => report[ledger.run].final \in FinalVerdicts \cup {"none"}
    BY <1>1 DEF CaseTyped, Report
<1>0. StatusBy(ledger) = Status
    BY DEF Status
<1>3. CASE Status = "intake"
    BY <1>0, <1>3 DEF PendingReturn, ReturnBy
<1>4. CASE Status = "drafted"
    BY <1>0, <1>2, <1>4, LedgerAssumption DEF PendingReturn, ReturnBy, DraftVerdicts
<1>5. CASE Status = "polished"
    BY <1>0, <1>2, <1>5, LedgerAssumption DEF PendingReturn, ReturnBy, FinalVerdicts
<1>6. CASE Status \notin {"intake", "drafted", "polished"}
    BY <1>0, <1>6 DEF PendingReturn, ReturnBy
<1> QED
    BY <1>3, <1>4, <1>5, <1>6

(***************************************************************************)
(* decide and advance: a node is entered only when the files call for it.  *)
(***************************************************************************)
LEMMA WantedMeans ==
  ASSUME CaseTyped, NEW redo \in {"none", "analysis"}, NEW wanted, wanted = Wanted(redo, Status, PendingReturn)
  PROVE  /\ wanted \in Nodes
         /\ wanted = "review_draft" => Status \in ReportStatuses /\ ~DraftProblems(ledger.run)
         /\ wanted = "review_final" => Status \in {"polished", "delivered"} /\ ~PolishedProblems(ledger.run)
         /\ wanted = "polish" => Status \in {"reviewed", "polished", "delivered"}
<1>1. PendingReturn \in {"none", "front", "analysis", "polish"}
      /\ (PendingReturn = "polish" => Status = "polished")
    BY ReturnMeans
<1>2. Status \in {"intake", "intake_ok", "ran", "drafted", "reviewed", "polished", "delivered"}
    BY StatusMeans DEF ReportStatuses
<1>3. CASE redo = "analysis"
    BY <1>3 DEF Wanted, Nodes, AgentNodes
<1>4. CASE redo = "none" /\ PendingReturn \in Nodes
  <2>1. wanted = PendingReturn
      BY <1>4 DEF Wanted
  <2> QED
      BY <1>1, <1>4, <2>1
<1>5. CASE redo = "none" /\ PendingReturn \notin Nodes
  <2>1. /\ Status = "intake" => wanted = "review_intake"
        /\ Status = "intake_ok" => wanted = "run"
        /\ Status = "ran" => wanted = "analysis"
        /\ Status = "reviewed" => wanted = "polish"
        /\ Status = "drafted" => wanted = IF DraftProblems(ledger.run) THEN "analysis" ELSE "review_draft"
        /\ Status \in {"polished", "delivered"} =>
             wanted = IF PolishedProblems(ledger.run) THEN "polish" ELSE "review_final"
      BY <1>5 DEF Wanted
  <2> QED
      BY <1>2, <2>1 DEF Nodes, AgentNodes, ReportStatuses
<1> QED
    BY <1>3, <1>4, <1>5

LEMMA StopForMeans ==
  ASSUME NEW redo, NEW counts \in [Nodes -> 0 .. NodeLimit], NEW status, NEW back, NEW wanted \in Nodes
  PROVE  LET reason == StopFor(redo, counts, status, back, wanted)
         IN /\ reason \in Stops \cup {"none"}
            /\ reason = "none" => counts[wanted] < NodeLimit
<1>1. counts[wanted] \in 0 .. NodeLimit /\ NodeLimit \in Nat
    BY OrchestratorAssumption
<1> QED
    BY <1>1 DEF StopFor, Stops

LEMMA IdleTyped ==
  ASSUME CaseTyped
  PROVE  Idle \in Flow /\ Idle.node = "idle"
<1>1. 0 \in 0 .. NodeLimit
    BY OrchestratorAssumption
<1> QED
    BY <1>1 DEF Idle, Flow, CaseTyped

LEMMA AdvanceSound ==
  ASSUME CaseTyped, DraftsReviewed, FinalsSound, CallFits, UNCHANGED ledgerVars,
         calls["program"].phase = "none", NEW node, NEW redo \in {"none", "analysis"}, NEW counts \in [Nodes -> 0 .. NodeLimit],
         Advance(node, redo, counts)
  PROVE  FlowTyped' /\ AtWork' /\ CallFits'
<1> DEFINE wanted == Wanted(redo, Status, PendingReturn)
           reason == StopFor(redo, counts, Status, PendingReturn, wanted)
<1>1. GoTo(node, counts, wanted, reason)
    BY DEF Advance, Decided
<1>0. calls' = calls /\ ledger' = ledger /\ package' = package /\ checklist' = checklist /\ untimed' = untimed
    BY DEF Advance, ledgerVars
<1>2. /\ wanted \in Nodes
      /\ wanted = "review_draft" => Status \in ReportStatuses /\ ~DraftProblems(ledger.run)
      /\ wanted = "review_final" => Status \in {"polished", "delivered"} /\ ~PolishedProblems(ledger.run)
      /\ wanted = "polish" => Status \in {"reviewed", "polished", "delivered"}
    BY WantedMeans
<1>3. reason \in Stops \cup {"none"} /\ (reason = "none" => counts[wanted] < NodeLimit)
    BY <1>2, StopForMeans
<1> HIDE DEF wanted, reason
<1>4. stop' \in Stops \cup {"none"}
    BY <1>1, <1>3 DEF GoTo, StopAfter, Stops
<1>5. CASE stop' # "none"
  <2>1. flow' = Idle
      BY <1>1, <1>5 DEF GoTo
  <2> QED
      BY <1>0, <1>4, <2>1, IdleTyped DEF FlowTyped, AtWork, CallFits
<1>6. CASE stop' = "none"
  <2>1. reason = "none" /\ Enter(wanted, counts)
      BY <1>1, <1>6 DEF GoTo, StopAfter
  <2>2. flow' = [node |-> wanted, counts |-> [counts EXCEPT ![wanted] = @ + 1], run |-> ledger.run,
                 touched |-> FALSE, rendered |-> FALSE, grew |-> FALSE, done |-> FALSE,
                 read |-> InputOf(wanted)]
      BY <2>1 DEF Enter
  <2>3. [counts EXCEPT ![wanted] = @ + 1] \in [Nodes -> 0 .. NodeLimit]
    <3>1. counts[wanted] + 1 \in 0 .. NodeLimit
        BY <1>2, <1>3, <2>1, OrchestratorAssumption
    <3> QED
        BY <1>2, <3>1
  <2>4. ledger.run \in Runs \cup {NoRun} /\ package \in Packages
      BY DEF CaseTyped, Ledger
  <2>5. FlowTyped'
    <3>1. InputOf(wanted) \in Packages \cup {"none"}
        BY <2>4 DEF InputOf
    <3> QED
        BY <1>2, <1>4, <2>2, <2>3, <2>4, <3>1 DEF FlowTyped, Flow
  <2>6. Status \in ReportStatuses =>
          /\ ledger.run \in Runs
          /\ Status \in {"reviewed", "polished", "delivered"} =>
               Has(ledger.run, "draft") /\ DraftPassed(ledger.run)
      BY StatusMeans, ReportStatusMeans
  <2>7. AtWork'
    <3>1. flow'.node = wanted /\ flow'.run = ledger.run
        BY <2>2
    <3>2. report' = report /\ ledger' = ledger
        BY DEF ledgerVars
    <3> QED
        BY <1>2, <2>6, <3>1, <3>2
        DEF AtWork, ReportStatuses, DraftProblems, PolishedProblems, TextProblems, Has, Touched, DraftPassed
  <2>8. CallFits'
    <3>1. flow'.node = wanted /\ flow'.read = InputOf(wanted) /\ wanted # "idle"
        BY <1>2, <2>2 DEF Nodes, AgentNodes
    <3> QED
        BY <1>0, <2>4, <3>1 DEF CallFits, InputOf
  <2> QED
      BY <2>5, <2>7, <2>8
<1> QED
    BY <1>5, <1>6

(***************************************************************************)
(* The writes                                                              *)
(***************************************************************************)
\* A write of the file f of a run: the others keep their order.
LEMMA FileWritten ==
  ASSUME CaseTyped, NEW r \in Runs, NEW f \in ReportFiles, report' \in [Runs -> Report],
         report'[r].times = Stamp(report[r].times, f),
         \A q \in Runs \ {r} : report'[q] = report[q]
  PROVE  /\ \A q \in Runs : Order(report'[q].times, ReportFiles)
         /\ Has(r, f)'
         /\ \A g : g # f =>
              /\ ~(Touched(r, g)' >= Touched(r, f)')
              /\ Has(r, g)' <=> Has(r, g)
              /\ \A h : h # f => (Touched(r, g)' <= Touched(r, h)' <=> Touched(r, g) <= Touched(r, h))
         /\ \A q \in Runs : \A g : Touched(q, g)' \in Nat
         /\ \A q \in Runs \ {r} : \A g : Touched(q, g)' = Touched(q, g) /\ (Has(q, g)' <=> Has(q, g))
<1>1. Order(report[r].times, ReportFiles)
    BY DEF CaseTyped
<1>2. /\ Order(Stamp(report[r].times, f), ReportFiles)
      /\ At(Stamp(report[r].times, f), f) > 0
      /\ \A y : y # f =>
           /\ At(Stamp(report[r].times, f), y) < At(Stamp(report[r].times, f), f)
           /\ At(Stamp(report[r].times, f), y) > 0 <=> At(report[r].times, y) > 0
           /\ \A z : z # f => (At(Stamp(report[r].times, f), y) <= At(Stamp(report[r].times, f), z)
                               <=> At(report[r].times, y) <= At(report[r].times, z))
    BY <1>1, StampOrder
<1>3. \A q \in Runs : Order(report'[q].times, ReportFiles)
    BY <1>2 DEF CaseTyped
<1>4. \A q \in Runs : \A g : At(report'[q].times, g) \in Nat
    BY <1>3, AtPlace DEF Order
<1>5. /\ Has(r, f)'
      /\ \A g : g # f =>
           /\ ~(Touched(r, g)' >= Touched(r, f)')
           /\ Has(r, g)' <=> Has(r, g)
           /\ \A h : h # f => (Touched(r, g)' <= Touched(r, h)' <=> Touched(r, g) <= Touched(r, h))
  <2>1. \A g : At(report'[r].times, g) \in Nat
      BY <1>4
  <2> QED
      BY <1>2, <2>1 DEF Has, Touched
<1>6. \A q \in Runs \ {r} : \A g : Touched(q, g)' = Touched(q, g) /\ (Has(q, g)' <=> Has(q, g))
    BY DEF Has, Touched
<1> QED
    BY <1>3, <1>4, <1>5, <1>6 DEF Touched

\* What FileWritten says of the writes of this system: the file and the text it
\* holds change together, of one run.
OneFile(r, f, new) ==
  /\ new \in Report
  /\ new.times = Stamp(report[r].times, f)
  /\ report' = [report EXCEPT ![r] = new]

LEMMA OneFileWritten ==
  ASSUME CaseTyped, NEW r \in Runs, NEW f \in ReportFiles, NEW new, OneFile(r, f, new)
  PROVE  /\ report' \in [Runs -> Report] /\ report'[r] = new
         /\ \A q \in Runs \ {r} : report'[q] = report[q]
         /\ \A q \in Runs : Order(report'[q].times, ReportFiles)
         /\ Has(r, f)'
         /\ \A g : g # f =>
              /\ ~(Touched(r, g)' >= Touched(r, f)')
              /\ Has(r, g)' <=> Has(r, g)
              /\ \A h : h # f => (Touched(r, g)' <= Touched(r, h)' <=> Touched(r, g) <= Touched(r, h))
         /\ \A q \in Runs : \A g : Touched(q, g)' \in Nat
         /\ \A q \in Runs \ {r} : \A g : Touched(q, g)' = Touched(q, g) /\ (Has(q, g)' <=> Has(q, g))
<1>1. /\ report' \in [Runs -> Report] /\ report'[r] = new
      /\ \A q \in Runs \ {r} : report'[q] = report[q]
    BY DEF OneFile, CaseTyped
<1>2. report'[r].times = Stamp(report[r].times, f)
    BY <1>1 DEF OneFile
<1> QED
    BY <1>1, <1>2, FileWritten

LEMMA StampTyped ==
  ASSUME CaseTyped, NEW r \in Runs, NEW f \in ReportFiles
  PROVE  Stamp(report[r].times, f) \in Seq(ReportFiles)
BY StampOrder DEF CaseTyped, Order

LEMMA DraftWritten ==
  ASSUME OrchestratorInv, NEW r \in Runs, NEW t \in Drafts,
         report' = [Written("draft", r) EXCEPT ![r].draft = t]
  PROVE  report' \in [Runs -> Report] /\ DraftsReviewed' /\ FinalsSound'
         /\ \A q \in Runs : Order(report'[q].times, ReportFiles)
<1> DEFINE times == Stamp(report[r].times, "draft")
           new == [report[r] EXCEPT !.times = times, !.draft = t]
<1>1. CaseTyped /\ report[r] \in Report /\ "draft" \in ReportFiles
    BY DEF OrchestratorInv, CaseTyped, ReportFiles
<1>2. OneFile(r, "draft", new)
  <2>1. times \in Seq(ReportFiles)
      BY <1>1, StampTyped
  <2>2. report' = [report EXCEPT ![r] = new]
      BY <1>1 DEF Written, Report, CaseTyped
  <2> HIDE DEF times
  <2>3. /\ new \in Report /\ new.times = times
        /\ new.draft = t /\ new.polished = report[r].polished
      BY <1>1, <2>1 DEF Report
  <2> QED
      BY <2>2, <2>3 DEF OneFile, times
<1> HIDE DEF new
<1>3. /\ report' \in [Runs -> Report] /\ \A q \in Runs \ {r} : report'[q] = report[q]
      /\ \A q \in Runs : Order(report'[q].times, ReportFiles)
      /\ \A g : g # "draft" => ~(Touched(r, g)' >= Touched(r, "draft")')
      /\ \A q \in Runs \ {r} : \A g : Touched(q, g)' = Touched(q, g) /\ (Has(q, g)' <=> Has(q, g))
    BY <1>1, <1>2, OneFileWritten
<1>4. ~(Touched(r, "review")' >= Touched(r, "draft")') /\ ~(Touched(r, "final")' >= Touched(r, "draft")')
    BY <1>3
<1>5. DraftsReviewed'
    BY <1>3, <1>4 DEF OrchestratorInv, DraftsReviewed, DraftProblems
<1>6. FinalsSound'
    BY <1>3, <1>4 DEF OrchestratorInv, FinalsSound, PolishedProblems, TextProblems
<1> QED
    BY <1>3, <1>5, <1>6

LEMMA ReviewWritten ==
  ASSUME OrchestratorInv, NEW r \in Runs, ~DraftProblems(r), NEW v \in DraftVerdicts,
         report' = [Written("review", r) EXCEPT ![r].review = v]
  PROVE  report' \in [Runs -> Report] /\ DraftsReviewed' /\ FinalsSound' /\ ~DraftProblems(r)'
         /\ \A q \in Runs : Order(report'[q].times, ReportFiles)
<1> DEFINE times == Stamp(report[r].times, "review")
           new == [report[r] EXCEPT !.times = times, !.review = v]
<1>1. CaseTyped /\ report[r] \in Report /\ "review" \in ReportFiles
    BY DEF OrchestratorInv, CaseTyped, ReportFiles
<1>2. OneFile(r, "review", new) /\ new.draft = report[r].draft /\ new.polished = report[r].polished
  <2>1. times \in Seq(ReportFiles)
      BY <1>1, StampTyped
  <2>2. report' = [report EXCEPT ![r] = new]
      BY <1>1 DEF Written, Report, CaseTyped
  <2> HIDE DEF times
  <2>3. /\ new \in Report /\ new.times = times
        /\ new.draft = report[r].draft /\ new.polished = report[r].polished
      BY <1>1, <2>1 DEF Report
  <2> QED
      BY <2>2, <2>3 DEF OneFile, times
<1> HIDE DEF new
<1>3. /\ report' \in [Runs -> Report] /\ report'[r] = new
      /\ \A q \in Runs \ {r} : report'[q] = report[q]
      /\ \A q \in Runs : Order(report'[q].times, ReportFiles)
      /\ \A g : g # "review" =>
              /\ Has(r, g)' <=> Has(r, g)
              /\ \A h : h # "review" => (Touched(r, g)' <= Touched(r, h)' <=> Touched(r, g) <= Touched(r, h))
      /\ \A q \in Runs : \A g : Touched(q, g)' \in Nat
      /\ \A q \in Runs \ {r} : \A g : Touched(q, g)' = Touched(q, g) /\ (Has(q, g)' <=> Has(q, g))
    BY <1>1, <1>2, OneFileWritten
<1>4. ~DraftProblems(r)' /\ (TextProblems(r)' <=> TextProblems(r))
    BY <1>2, <1>3 DEF DraftProblems, TextProblems
<1>5. DraftsReviewed'
    BY <1>3, <1>4 DEF OrchestratorInv, DraftsReviewed, DraftProblems
<1>6. \A q \in Runs : \A g : Touched(q, g) \in Nat
    BY <1>1, TimesNat
<1>7. /\ Has(r, "final")' <=> Has(r, "final")
      /\ Touched(r, "draft")' <= Touched(r, "final")' <=> Touched(r, "draft") <= Touched(r, "final")
      /\ Touched(r, "polished")' <= Touched(r, "final")' <=> Touched(r, "polished") <= Touched(r, "final")
      /\ Touched(r, "pdf")' <= Touched(r, "final")' <=> Touched(r, "pdf") <= Touched(r, "final")
      /\ Touched(r, "polished")' <= Touched(r, "pdf")' <=> Touched(r, "polished") <= Touched(r, "pdf")
    BY <1>3
<1>8. \A g : Touched(r, g) \in Nat /\ Touched(r, g)' \in Nat
    BY <1>3, <1>6
<1>9. /\ Has(r, "final")' /\ Touched(r, "final")' >= Touched(r, "draft")'
      /\ Touched(r, "final")' >= Touched(r, "polished")' /\ Touched(r, "final")' >= Touched(r, "pdf")'
      => ~PolishedProblems(r)'
    BY <1>4, <1>7, <1>8 DEF OrchestratorInv, FinalsSound, PolishedProblems
<1>10. FinalsSound'
    BY <1>3, <1>9 DEF OrchestratorInv, FinalsSound, PolishedProblems, TextProblems
<1> QED
    BY <1>3, <1>4, <1>5, <1>10

\* The polished text and its PDF: a final review is older from here on.
LEMMA PolishWritten ==
  ASSUME OrchestratorInv, NEW r \in Runs, NEW f \in {"polished", "pdf"}, NEW t,
         \/ f = "polished" /\ t \in Polishings /\ report' = [Written(f, r) EXCEPT ![r].polished = t]
         \/ f = "pdf" /\ report' = Written(f, r),
         Has(r, "draft"), DraftPassed(r)
  PROVE  report' \in [Runs -> Report] /\ DraftsReviewed' /\ FinalsSound'
         /\ Has(r, "draft")' /\ DraftPassed(r)'
         /\ \A q \in Runs : Order(report'[q].times, ReportFiles)
<1> DEFINE times == Stamp(report[r].times, f)
           new == IF f = "polished" THEN [report[r] EXCEPT !.times = times, !.polished = t]
                                    ELSE [report[r] EXCEPT !.times = times]
<1>1. CaseTyped /\ report[r] \in Report /\ f \in ReportFiles
    BY DEF OrchestratorInv, CaseTyped, ReportFiles
<1>2. OneFile(r, f, new) /\ new.draft = report[r].draft /\ new.review = report[r].review
  <2>1. times \in Seq(ReportFiles)
      BY <1>1, StampTyped
  <2>2. report' = [report EXCEPT ![r] = new]
    <3>1. CASE f = "polished"
        BY <1>1, <3>1 DEF Written, Report, CaseTyped
    <3>2. CASE f = "pdf"
        BY <1>1, <3>2 DEF Written, Report, CaseTyped
    <3> QED
        BY <3>1, <3>2
  <2> HIDE DEF times
  <2>3. /\ new \in Report /\ new.times = times
        /\ new.draft = report[r].draft /\ new.review = report[r].review
      BY <1>1, <2>1 DEF Report
  <2> QED
      BY <2>2, <2>3 DEF OneFile, times
<1> HIDE DEF new
<1>3. /\ report' \in [Runs -> Report] /\ report'[r] = new
      /\ \A q \in Runs \ {r} : report'[q] = report[q]
      /\ \A q \in Runs : Order(report'[q].times, ReportFiles)
      /\ \A g : g # f =>
              /\ ~(Touched(r, g)' >= Touched(r, f)')
              /\ Has(r, g)' <=> Has(r, g)
              /\ \A h : h # f => (Touched(r, g)' <= Touched(r, h)' <=> Touched(r, g) <= Touched(r, h))
      /\ \A q \in Runs : \A g : Touched(q, g)' \in Nat
      /\ \A q \in Runs \ {r} : \A g : Touched(q, g)' = Touched(q, g) /\ (Has(q, g)' <=> Has(q, g))
    BY <1>1, <1>2, OneFileWritten
<1>4. \A q \in Runs : \A g : Touched(q, g) \in Nat
    BY <1>1, TimesNat
<1>5. "draft" # f /\ "review" # f /\ "final" # f
    OBVIOUS
<1>6. /\ Has(r, "draft")' <=> Has(r, "draft")
      /\ Has(r, "review")' <=> Has(r, "review")
      /\ Touched(r, "draft")' <= Touched(r, "review")' <=> Touched(r, "draft") <= Touched(r, "review")
      /\ ~(Touched(r, "final")' >= Touched(r, f)')
    BY <1>3, <1>5
<1>7. /\ Touched(r, "draft") \in Nat /\ Touched(r, "review") \in Nat
      /\ Touched(r, "draft")' \in Nat /\ Touched(r, "review")' \in Nat
    BY <1>3, <1>4
<1>8. DraftProblems(r)' <=> DraftProblems(r)
    BY <1>2, <1>3 DEF DraftProblems
<1>9. Has(r, "draft")' /\ DraftPassed(r)'
    BY <1>2, <1>3, <1>6, <1>7 DEF DraftPassed
<1>10. DraftsReviewed'
    BY <1>3, <1>6, <1>7, <1>8 DEF OrchestratorInv, DraftsReviewed, DraftProblems
<1>11. FinalsSound'
  <2>1. ~(Touched(r, "final")' >= Touched(r, "polished")') \/ ~(Touched(r, "final")' >= Touched(r, "pdf")')
      BY <1>6
  <2> QED
      BY <1>3, <2>1 DEF OrchestratorInv, FinalsSound, PolishedProblems, TextProblems
<1> QED
    BY <1>3, <1>9, <1>10, <1>11

LEMMA FinalWritten ==
  ASSUME OrchestratorInv, NEW r \in Runs, ~PolishedProblems(r), NEW v \in FinalVerdicts,
         report' = [Written("final", r) EXCEPT ![r].final = v]
  PROVE  report' \in [Runs -> Report] /\ DraftsReviewed' /\ FinalsSound' /\ ~PolishedProblems(r)'
         /\ \A q \in Runs : Order(report'[q].times, ReportFiles)
<1> DEFINE times == Stamp(report[r].times, "final")
           new == [report[r] EXCEPT !.times = times, !.final = v]
<1>1. CaseTyped /\ report[r] \in Report /\ "final" \in ReportFiles
    BY DEF OrchestratorInv, CaseTyped, ReportFiles
<1>2. OneFile(r, "final", new) /\ new.draft = report[r].draft /\ new.polished = report[r].polished
  <2>1. times \in Seq(ReportFiles)
      BY <1>1, StampTyped
  <2>2. report' = [report EXCEPT ![r] = new]
      BY <1>1 DEF Written, Report, CaseTyped
  <2> HIDE DEF times
  <2>3. /\ new \in Report /\ new.times = times
        /\ new.draft = report[r].draft /\ new.polished = report[r].polished
      BY <1>1, <2>1 DEF Report
  <2> QED
      BY <2>2, <2>3 DEF OneFile, times
<1> HIDE DEF new
<1>3. /\ report' \in [Runs -> Report] /\ report'[r] = new
      /\ \A q \in Runs \ {r} : report'[q] = report[q]
      /\ \A q \in Runs : Order(report'[q].times, ReportFiles)
      /\ \A g : g # "final" =>
              /\ Has(r, g)' <=> Has(r, g)
              /\ \A h : h # "final" => (Touched(r, g)' <= Touched(r, h)' <=> Touched(r, g) <= Touched(r, h))
      /\ \A q \in Runs : \A g : Touched(q, g)' \in Nat
      /\ \A q \in Runs \ {r} : \A g : Touched(q, g)' = Touched(q, g) /\ (Has(q, g)' <=> Has(q, g))
    BY <1>1, <1>2, OneFileWritten
<1>4. \A g : Touched(r, g) \in Nat /\ Touched(r, g)' \in Nat
    BY <1>1, <1>3, TimesNat
<1>5. /\ Has(r, "review")' <=> Has(r, "review")
      /\ Touched(r, "draft")' <= Touched(r, "review")' <=> Touched(r, "draft") <= Touched(r, "review")
      /\ Touched(r, "polished")' <= Touched(r, "pdf")' <=> Touched(r, "polished") <= Touched(r, "pdf")
    BY <1>3
<1>6. (DraftProblems(r)' <=> DraftProblems(r)) /\ (TextProblems(r)' <=> TextProblems(r))
    BY <1>2, <1>3 DEF DraftProblems, TextProblems
<1>7. ~PolishedProblems(r)'
    BY <1>4, <1>5, <1>6 DEF PolishedProblems
<1>8. Has(r, "review")' /\ Touched(r, "review")' >= Touched(r, "draft")' => ~DraftProblems(r)'
    BY <1>4, <1>5, <1>6 DEF OrchestratorInv, DraftsReviewed
<1>9. DraftsReviewed'
    BY <1>3, <1>8 DEF OrchestratorInv, DraftsReviewed, DraftProblems
<1>10. FinalsSound'
    BY <1>3, <1>7 DEF OrchestratorInv, FinalsSound, PolishedProblems, TextProblems
<1> QED
    BY <1>3, <1>7, <1>9, <1>10

(***************************************************************************)
(* The steps                                                               *)
(***************************************************************************)
LEMMA NoCallTyped == NoCall \in Call /\ Order(NoCall.copy.times, LedgerTimes)
<1>1. << >> \in Seq(LedgerTimes) /\ Len(<< >>) = 0
    OBVIOUS
<1>2. NoCall \in Call /\ NoCall.copy.times = << >>
    BY <1>1, LedgerAssumption DEF NoCall, NewRound, Call, Ledger, Phases
<1> QED
    BY <1>1, <1>2 DEF Order, IsInjective

LEMMA OrchestratorInit == Init => OrchestratorInv
<1> SUFFICES ASSUME Init
             PROVE  OrchestratorInv
    OBVIOUS
<1>1. << >> \in Seq(ReportFiles) /\ << >> \in Seq(LedgerTimes) /\ Len(<< >>) = 0
    OBVIOUS
<1>2. Order(<< >>, ReportFiles) /\ Order(<< >>, LedgerTimes)
    BY <1>1 DEF Order, IsInjective
<1>3. NoReport \in Report /\ NoReport.times = << >>
    BY <1>1 DEF NoReport, Report
<1>4. ledger \in Ledger /\ ledger.times = << >>
    BY <1>1, LedgerAssumption DEF Init, LedgerInit, NewRound, Ledger
<1>5. CaseTyped
    BY <1>2, <1>3, <1>4, NoCallTyped DEF Init, LedgerInit, CaseTyped
<1>6. FlowTyped /\ AtWork /\ CallFits
    BY <1>5, IdleTyped DEF Init, LedgerInit, NoCall, Processes, FlowTyped, AtWork, CallFits
<1>7. \A r \in Runs : \A f : ~Has(r, f)
  <2>1. \A f : At(<< >>, f) = 0
      BY <1>1 DEF At
  <2> QED
      BY <1>3, <2>1 DEF Init, LedgerInit, Has
<1> QED
    BY <1>5, <1>6, <1>7 DEF OrchestratorInv, DraftsReviewed, FinalsSound

LEMMA ReportKept ==
  ASSUME DraftsReviewed, FinalsSound, report' = report
  PROVE  /\ DraftsReviewed' /\ FinalsSound'
         /\ \A r, f : Has(r, f)' = Has(r, f) /\ Touched(r, f)' = Touched(r, f)
         /\ \A r : /\ DraftProblems(r)' = DraftProblems(r) /\ PolishedProblems(r)' = PolishedProblems(r)
                   /\ DraftPassed(r)' = DraftPassed(r)
BY DEF DraftsReviewed, FinalsSound, Has, Touched, DraftProblems, PolishedProblems, TextProblems, DraftPassed

\* A decision over unchanged files, and the end of the run.
LEMMA AdvanceStep ==
  ASSUME OrchestratorInv, UNCHANGED ledgerVars, calls["program"].phase = "none",
         NEW node, NEW redo \in {"none", "analysis"}, NEW counts \in [Nodes -> 0 .. NodeLimit],
         Advance(node, redo, counts)
  PROVE  OrchestratorInv'
<1>1. CaseTyped' /\ DraftsReviewed' /\ FinalsSound'
    BY ReportKept DEF OrchestratorInv, CaseTyped, ledgerVars, Advance
<1>2. FlowTyped' /\ AtWork' /\ CallFits'
    BY AdvanceSound DEF OrchestratorInv
<1> QED
    BY <1>1, <1>2 DEF OrchestratorInv

LEMMA StopStep ==
  ASSUME OrchestratorInv, UNCHANGED ledgerVars, NEW reason \in Stops \cup {"none"}, StopWith(reason)
  PROVE  OrchestratorInv'
<1>0. CaseTyped /\ calls' = [calls EXCEPT !["program"] = NoCall]
    BY DEF OrchestratorInv, StopWith, Drops
<1>1. CaseTyped' /\ DraftsReviewed' /\ FinalsSound'
    BY <1>0, NoCallTyped, ReportKept DEF OrchestratorInv, CaseTyped, ledgerVars
<1>2. FlowTyped' /\ AtWork' /\ CallFits'
    BY <1>0, IdleTyped DEF OrchestratorInv, StopWith, FlowTyped, AtWork, CallFits, NoCall, CaseTyped, Processes, ledgerVars
<1> QED
    BY <1>1, <1>2 DEF OrchestratorInv

\* An agent's step changes its node's notes and neither node, run nor what was read.
LEMMA NotedKeeps ==
  ASSUME FlowTyped, NEW field, stop' = stop,
         Noted(field) \/ flow' = [flow EXCEPT !.grew = TRUE] \/ flow' = flow
  PROVE  /\ FlowTyped'
         /\ flow'.node = flow.node /\ flow'.run = flow.run /\ flow'.read = flow.read
         /\ flow'.done = flow.done
<1>1. (flow.rendered \/ field = "pdf") \in BOOLEAN
    OBVIOUS
<1> QED
    BY <1>1 DEF Noted, FlowTyped, Flow

\* Nor does it touch the ledger or a call.
LEMMA CallsKept ==
  ASSUME CallFits, UNCHANGED <<ledger, package, checklist, calls, untimed>>,
         flow'.node = flow.node, flow'.done = flow.done, flow'.read = flow.read
  PROVE  CallFits'
BY DEF CallFits

\* A save replaces the ledger by a copy that is one.
LEMMA SavedTyped ==
  ASSUME CaseTyped, NEW c \in Processes, Saves(c), untimed' \in BOOLEAN
  PROVE  CaseTyped'
<1>1. calls[c] \in Call /\ ledger' = calls[c].copy
    BY DEF CaseTyped, Saves
<1>2. ledger' \in Ledger /\ Order(ledger'.times, LedgerTimes)
    BY <1>1 DEF CaseTyped, Call
<1>3. calls' \in [Processes -> Call] /\ \A d \in Processes : Order(calls'[d].copy.times, LedgerTimes)
    BY NoCallTyped DEF CaseTyped, Saves
<1> QED
    BY <1>2, <1>3 DEF CaseTyped, Saves

\* A copy changed in its times is a ledger.
LEMMA TimedTyped ==
  ASSUME NEW l \in Ledger, Order(l.times, LedgerTimes), NEW x \in LedgerTimes
  PROVE  /\ Timed(l, x) \in Ledger /\ Order(Timed(l, x).times, LedgerTimes)
         /\ Timed(l, x).times = Stamp(l.times, x)
<1>1. Order(Stamp(l.times, x), LedgerTimes)
    BY StampOrder
<1>2. Stamp(l.times, x) \in Seq(LedgerTimes)
    BY <1>1 DEF Order
<1>3. Timed(l, x).times = Stamp(l.times, x) /\ Timed(l, x) \in Ledger
    BY <1>2 DEF Timed, Ledger
<1> QED
    BY <1>1, <1>3

\* The call of c holds the copy l from now on.
LEMMA CalledTyped ==
  ASSUME CaseTyped, NEW c \in Processes, NEW phase \in Phases, NEW l \in Ledger, Order(l.times, LedgerTimes),
         calls' = [calls EXCEPT ![c] = [phase |-> phase, copy |-> l]]
  PROVE  /\ calls' \in [Processes -> Call] /\ \A d \in Processes : Order(calls'[d].copy.times, LedgerTimes)
         /\ calls'[c] = [phase |-> phase, copy |-> l]
         /\ \A d \in Processes \ {c} : calls'[d] = calls[d]
<1>1. [phase |-> phase, copy |-> l] \in Call
    BY DEF Call
<1>2. calls'[c] = [phase |-> phase, copy |-> l] /\ \A d \in Processes \ {c} : calls'[d] = calls[d]
    BY DEF CaseTyped
<1> QED
    BY <1>1, <1>2 DEF CaseTyped

LEMMA WorkStep ==
  ASSUME OrchestratorInv, Agent
  PROVE  OrchestratorInv'
<1>0. CaseTyped /\ FlowTyped /\ DraftsReviewed /\ FinalsSound /\ AtWork /\ CallFits
      /\ "program" \in Processes /\ "front" \in Processes
    BY DEF OrchestratorInv, Processes
<1>1. CASE WorkIntake
  <2>1. flow.node = "review_intake" /\ report' = report /\ package' = package
        /\ calls'["front"] = calls["front"]
    <3>1. \/ Working({"review_intake"}) /\ Loads("program")
          \/ \E v \in IntakeVerdicts : ReviewIntake(v)
          \/ ~flow.done /\ SaveProgram
        BY <1>1 DEF WorkIntake
    <3> QED
        BY <1>0, <3>1
        DEF Working, Loads, ReviewIntake, Changes, SaveProgram, Saves, CallFits, ledgerVars, CaseTyped, Processes
  <2>2. FlowTyped' /\ flow'.node = "review_intake"
      BY <1>0, <1>1, <2>1, NotedKeeps DEF WorkIntake
  <2>3. CaseTyped'
    <3>1. CASE Loads("program")
      <4>1. /\ ledger \in Ledger /\ Order(ledger.times, LedgerTimes) /\ "loaded" \in Phases
            /\ calls' = [calls EXCEPT !["program"] = [phase |-> "loaded", copy |-> ledger]]
          BY <1>0, <3>1 DEF CaseTyped, Loads, Phases
      <4> QED
          BY <1>0, <3>1, <4>1, CalledTyped DEF CaseTyped, Loads, ledgerVars
    <3>2. CASE \E v \in IntakeVerdicts : ReviewIntake(v)
      <4>1. PICK v \in IntakeVerdicts : ReviewIntake(v)
          BY <3>2
      <4> DEFINE l == Timed(calls["program"].copy, "checked")
      <4>2. l \in Ledger /\ Order(l.times, LedgerTimes) /\ "changed" \in Phases
          BY <1>0, TimedTyped DEF CaseTyped, Call, LedgerTimes, Phases
      <4>3. calls' = [calls EXCEPT !["program"] = [phase |-> "changed", copy |-> l]]
          BY <4>1 DEF ReviewIntake, Changes
      <4> HIDE DEF l
      <4>4. calls' \in [Processes -> Call] /\ \A d \in Processes : Order(calls'[d].copy.times, LedgerTimes)
          BY <1>0, <4>2, <4>3, CalledTyped
      <4> QED
          BY <1>0, <4>1, <4>4 DEF CaseTyped, ReviewIntake
    <3>3. CASE SaveProgram
      <4>1. Saves("program") /\ untimed' \in BOOLEAN
          BY <1>0, <3>3 DEF SaveProgram, CaseTyped
      <4> QED
          BY <1>0, <4>1, SavedTyped
    <3> QED
        BY <1>1, <3>1, <3>2, <3>3 DEF WorkIntake
  <2>4. CallFits'
      BY <1>0, <2>1, <2>2 DEF CallFits
  <2> QED
      BY <1>0, <2>1, <2>2, <2>3, <2>4, ReportKept DEF OrchestratorInv, AtWork
<1>2. CASE WorkDraft
  <2>1. PICK t \in Drafts : WriteReport(t)
      BY <1>2 DEF WorkDraft
  <2>2. /\ ledger.run \in Runs
        /\ UNCHANGED <<ledger, package, checklist, calls, untimed>>
      BY <1>0, <2>1 DEF WriteReport, CaseTyped, Ledger
  <2>3. report' \in [Runs -> Report] /\ DraftsReviewed' /\ FinalsSound'
        /\ \A q \in Runs : Order(report'[q].times, ReportFiles)
      BY <2>1, <2>2, DraftWritten DEF WriteReport
  <2>4. FlowTyped' /\ flow'.node = "analysis" /\ CallFits'
      BY <1>0, <1>2, <2>2, NotedKeeps, CallsKept DEF WorkDraft, Working
  <2> QED
      BY <1>0, <2>2, <2>3, <2>4 DEF OrchestratorInv, AtWork, CaseTyped
<1>3. CASE WorkReview
  <2>1. PICK v \in DraftVerdicts : ReviewDraft(v)
      BY <1>3 DEF WorkReview
  <2> DEFINE r == ledger.run
  <2>2. /\ r \in Runs /\ ~DraftProblems(r) /\ flow.run = r
        /\ UNCHANGED <<ledger, package, checklist, calls, untimed>>
      BY <1>0, <1>3, <2>1 DEF ReviewDraft, WorkReview, Working, GivenRun, AtWork
  <2>3. report' \in [Runs -> Report] /\ DraftsReviewed' /\ FinalsSound' /\ report'[r].draft.sound
        /\ \A q \in Runs : Order(report'[q].times, ReportFiles)
    <3>1. report' = [Written("review", r) EXCEPT ![r].review = v]
        BY <2>1 DEF ReviewDraft
    <3>2. \A q \in Runs : ~DraftProblems(q) /\ report' = [Written("review", q) EXCEPT ![q].review = v] =>
            /\ report' \in [Runs -> Report] /\ DraftsReviewed' /\ FinalsSound' /\ report'[q].draft.sound
            /\ \A p \in Runs : Order(report'[p].times, ReportFiles)
        BY ReviewWritten DEF DraftProblems
    <3> QED
        BY <2>2, <3>1, <3>2
  <2>4. FlowTyped' /\ flow'.node = "review_draft" /\ flow'.run = r /\ CallFits'
      BY <1>0, <1>3, <2>2, NotedKeeps, CallsKept DEF WorkReview, Working
  <2> QED
      BY <1>0, <2>2, <2>3, <2>4 DEF OrchestratorInv, AtWork, CaseTyped, DraftProblems
<1>4. CASE WorkPolish
  <2>0. PICK field : Noted(field) \/ flow' = [flow EXCEPT !.grew = TRUE]
      BY <1>4 DEF WorkPolish
  <2>1. FlowTyped' /\ flow'.node = "polish" /\ flow'.run = flow.run /\ CallFits'
    <3>1. UNCHANGED <<ledger, package, checklist, calls, untimed>>
        BY <1>4 DEF WorkPolish, WritePolished, EditPolished, RenderPdf, ledgerVars
    <3> QED
        BY <1>0, <1>4, <2>0, <3>1, NotedKeeps, CallsKept DEF WorkPolish, Working
  <2>2. flow.node = "polish" /\ flow.run \in Runs /\ Has(flow.run, "draft") /\ DraftPassed(flow.run)
      BY <1>0, <1>4 DEF WorkPolish, Working, AtWork
  <2>3. CASE UNCHANGED ledgerVars
    <3>1. calls' = calls
        BY <1>4 DEF WorkPolish, WritePolished, EditPolished, RenderPdf
    <3> QED
        BY <1>0, <2>1, <2>2, <2>3, <3>1, ReportKept DEF ledgerVars, OrchestratorInv, AtWork, CaseTyped
  <2>4. CASE ~UNCHANGED ledgerVars
    <3>1. /\ UNCHANGED <<ledger, package, checklist, calls, untimed>>
          /\ \E r \in Runs, f \in {"polished", "pdf"} :
                /\ r = flow.run
                /\ \/ f = "polished" /\ \E t \in Polishings : report' = [Written(f, r) EXCEPT ![r].polished = t]
                   \/ f = "pdf" /\ report' = Written(f, r)
      <4>1. CASE \E t \in Polishings : (GivenRun /\ WritePolished(t)) \/ EditPolished(flow.run, t)
          BY <2>2, <4>1 DEF GivenRun, WritePolished, EditPolished
      <4>2. CASE RenderPdf(flow.run)
          BY <2>2, <4>2 DEF RenderPdf
      <4> QED
          BY <1>4, <2>4, <4>1, <4>2 DEF WorkPolish
    <3>2. PICK r \in Runs, f \in {"polished", "pdf"} :
            /\ r = flow.run
            /\ \/ f = "polished" /\ \E t \in Polishings : report' = [Written(f, r) EXCEPT ![r].polished = t]
               \/ f = "pdf" /\ report' = Written(f, r)
        BY <3>1
    <3>3. report' \in [Runs -> Report] /\ DraftsReviewed' /\ FinalsSound'
          /\ Has(r, "draft")' /\ DraftPassed(r)'
          /\ \A q \in Runs : Order(report'[q].times, ReportFiles)
        BY <2>2, <3>2, PolishWritten
    <3>4. CaseTyped'
        BY <1>0, <3>1, <3>3 DEF CaseTyped
    <3>5. AtWork'
        BY <2>1, <3>2, <3>3 DEF AtWork
    <3> QED
        BY <2>1, <3>3, <3>4, <3>5 DEF OrchestratorInv
  <2> QED
      BY <2>3, <2>4
<1>5. CASE WorkFinal
  <2>1. PICK v \in FinalVerdicts : ReviewFinal(v)
      BY <1>5 DEF WorkFinal
  <2>2. /\ flow.run \in Runs /\ ~PolishedProblems(flow.run) /\ flow.run = ledger.run
        /\ UNCHANGED <<ledger, package, checklist, calls, untimed>>
      BY <1>0, <1>5, <2>1 DEF ReviewFinal, WorkFinal, Working, GivenRun, AtWork
  <2>3. PICK r \in Runs : r = flow.run
      BY <2>2
  <2>4. report' \in [Runs -> Report] /\ DraftsReviewed' /\ FinalsSound' /\ ~PolishedProblems(r)'
        /\ \A q \in Runs : Order(report'[q].times, ReportFiles)
      BY <2>1, <2>2, <2>3, FinalWritten DEF ReviewFinal
  <2>5. FlowTyped' /\ flow'.node = "review_final" /\ flow'.run = r /\ CallFits'
      BY <1>0, <1>5, <2>2, <2>3, NotedKeeps, CallsKept DEF WorkFinal, Working
  <2>6. AtWork'
      BY <2>4, <2>5 DEF AtWork
  <2> QED
      BY <1>0, <2>2, <2>4, <2>5, <2>6 DEF OrchestratorInv, CaseTyped
<1>6. CASE ReportBug
    BY <1>0, <1>6, CallsKept, ReportKept DEF ReportBug, BugAppend, OrchestratorInv, CaseTyped, FlowTyped, AtWork
<1> QED
    BY <1>1, <1>2, <1>3, <1>4, <1>5, <1>6 DEF Agent

\* The last call of a node: a registration, or a counted revision.
LEMMA LastCallTyped ==
  ASSUME FlowTyped, LastCall
  PROVE  /\ FlowTyped'
         /\ flow'.node = flow.node /\ flow'.run = flow.run /\ flow'.read = flow.read /\ flow'.done
BY DEF LastCall, FlowTyped, Flow

\* A registration neither makes nor unmakes a checked ledger.
LEMMA RegisteredChecked ==
  ASSUME NEW l \in Ledger, Order(l.times, LedgerTimes), NEW r \in Runs
  PROVE  /\ Registered(l, r) \in Ledger /\ Order(Registered(l, r).times, LedgerTimes)
         /\ Checked(Registered(l, r)) <=> Checked(l)
<1> DEFINE times == Stamp(l.times, "registered")
<1>1. Timed(l, "registered") \in Ledger /\ Timed(l, "registered").times = times /\ Order(times, LedgerTimes)
    BY TimedTyped DEF LedgerTimes
<1>2. Registered(l, r) \in Ledger /\ Registered(l, r).times = times
    BY <1>1 DEF Registered, Ledger
<1>3. /\ At(times, "checked") > 0 <=> At(l.times, "checked") > 0
      /\ At(times, "written") <= At(times, "checked") <=> At(l.times, "written") <= At(l.times, "checked")
    BY StampOrder DEF LedgerTimes
<1> QED
    BY <1>1, <1>2, <1>3 DEF Checked, TimeIn

LEMMA RegisterStep ==
  ASSUME OrchestratorInv, NEW r \in Runs, Working({"run"}), RoundSetRun(r), LastCall
  PROVE  OrchestratorInv'
<1> DEFINE l == Registered(ledger, r)
<1>1. CaseTyped /\ FlowTyped /\ DraftsReviewed /\ FinalsSound /\ AtWork /\ CallFits
      /\ "program" \in Processes /\ "front" \in Processes /\ "changed" \in Phases
    BY DEF OrchestratorInv, Processes, Phases
<1>2. /\ ledger' = ledger /\ package' = package /\ checklist' = checklist /\ report' = report /\ untimed' = untimed
      /\ calls' = [calls EXCEPT !["program"] = [phase |-> "changed", copy |-> l]]
    BY DEF RoundSetRun, LoadsAndChanges, ledgerVars
<1>3. l \in Ledger /\ Order(l.times, LedgerTimes) /\ (Checked(l) <=> Checked(ledger))
    BY <1>1, RegisteredChecked DEF CaseTyped
<1> HIDE DEF l
<1>4. /\ calls' \in [Processes -> Call] /\ \A d \in Processes : Order(calls'[d].copy.times, LedgerTimes)
      /\ calls'["program"].copy = l /\ calls'["program"].phase = "changed" /\ calls'["front"] = calls["front"]
    BY <1>1, <1>2, <1>3, CalledTyped
<1>5. CaseTyped'
    BY <1>1, <1>2, <1>4 DEF CaseTyped
<1>6. /\ FlowTyped' /\ flow'.node = "run" /\ flow'.read = flow.read /\ flow'.done
      /\ flow.node = "run" /\ ~flow.done /\ calls["program"].phase = "none"
    BY <1>1, LastCallTyped DEF Working
<1>7. checklist = "RUNNABLE" /\ Checked(ledger)
  <2>1. checklist = "RUNNABLE" /\ ~(Time("written") > Time("checked")) /\ Time("checked") > 0
      BY <1>1, StatusMeans DEF RoundSetRun, CanSetRun
  <2>2. Time("written") \in Nat /\ Time("checked") \in Nat
      BY <1>1, TimesNat
  <2> QED
      BY <2>1, <2>2 DEF Checked, Time
<1>8. CallFits'
    BY <1>1, <1>2, <1>3, <1>4, <1>6, <1>7 DEF CallFits, Checked
<1>9. AtWork'
    BY <1>1, <1>2, <1>6 DEF AtWork
<1> QED
    BY <1>1, <1>2, <1>5, <1>6, <1>8, <1>9, ReportKept DEF OrchestratorInv

LEMMA ReviseStep ==
  ASSUME OrchestratorInv, flow.node \in ReviewNodes, RoundRevise, LastCall
  PROVE  OrchestratorInv'
<1>1. CaseTyped /\ FlowTyped /\ DraftsReviewed /\ FinalsSound /\ AtWork /\ CallFits
      /\ "program" \in Processes /\ "front" \in Processes /\ "changed" \in Phases
    BY DEF OrchestratorInv, Processes, Phases
<1>2. /\ ledger' = ledger /\ package' = package /\ checklist' = checklist /\ report' = report /\ untimed' = untimed
      /\ calls' = [calls EXCEPT !["program"] = [phase |-> "changed", copy |-> ledger]]
    BY DEF RoundRevise, LoadsAndChanges, ledgerVars
<1>3. /\ calls' \in [Processes -> Call] /\ \A d \in Processes : Order(calls'[d].copy.times, LedgerTimes)
      /\ calls'["program"].phase = "changed" /\ calls'["front"] = calls["front"]
  <2>1. ledger \in Ledger /\ Order(ledger.times, LedgerTimes)
      BY <1>1 DEF CaseTyped
  <2> QED
      BY <1>1, <1>2, <2>1, CalledTyped
<1>4. CaseTyped'
    BY <1>1, <1>2, <1>3 DEF CaseTyped
<1>5. /\ FlowTyped' /\ flow'.node = flow.node /\ flow'.run = flow.run /\ flow'.read = flow.read /\ flow'.done
    BY <1>1, LastCallTyped
<1>6. flow.node # "run" /\ flow.node # "idle"
    BY DEF ReviewNodes
<1>7. CallFits'
    BY <1>1, <1>2, <1>3, <1>5, <1>6 DEF CallFits, Checked
<1>8. AtWork'
    BY <1>1, <1>2, <1>5, ReportKept DEF AtWork
<1> QED
    BY <1>1, <1>2, <1>4, <1>5, <1>7, <1>8, ReportKept DEF OrchestratorInv

LEMMA SaveLastStep ==
  ASSUME OrchestratorInv, SaveLast
  PROVE  OrchestratorInv'
<1>1. CaseTyped /\ FlowTyped /\ DraftsReviewed /\ FinalsSound /\ AtWork /\ CallFits
      /\ "program" \in Processes /\ "front" \in Processes
    BY DEF OrchestratorInv, Processes
<1>2. /\ flow.done /\ flow' = flow /\ stop' = stop /\ Saves("program") /\ untimed' = untimed
      /\ report' = report /\ package' = package /\ checklist' = checklist
    BY DEF SaveLast, SaveProgram, Saves
<1>3. CaseTyped'
    BY <1>1, <1>2, SavedTyped DEF CaseTyped
<1>4. calls'["program"].phase = "none" /\ calls'["front"] = calls["front"]
    BY <1>1, <1>2 DEF Saves, NoCall, CaseTyped
<1>5. CallFits'
    BY <1>1, <1>2, <1>4 DEF CallFits, Checked
<1> QED
    BY <1>1, <1>2, <1>3, <1>5, ReportKept DEF OrchestratorInv, FlowTyped, AtWork

\* What the front does to the files, to the ledger and to its own call.
LEMMA FrontStep ==
  ASSUME OrchestratorInv, FrontWorks
  PROVE  OrchestratorInv'
<1>1. CaseTyped /\ FlowTyped /\ DraftsReviewed /\ FinalsSound /\ AtWork /\ CallFits
      /\ "program" \in Processes /\ "front" \in Processes /\ Phases = {"none", "loaded", "changed"}
    BY DEF OrchestratorInv, Processes, Phases
<1>2. report' = report /\ checklist' = checklist /\ flow' = flow /\ stop' = stop
    BY DEF FrontWorks, Loads, WriteIntake, RoundNew, SaveFront, Saves, Drops, ClearDefect, ledgerVars
<1>3. FlowTyped' /\ DraftsReviewed' /\ FinalsSound' /\ AtWork'
    BY <1>1, <1>2, ReportKept DEF FlowTyped, AtWork
<1>4. CaseTyped' /\ CallFits'
  <2>0. /\ calls["front"].copy \in Ledger /\ Order(calls["front"].copy.times, LedgerTimes)
        /\ ledger \in Ledger /\ Order(ledger.times, LedgerTimes)
      BY <1>1 DEF CaseTyped, Call
  <2>1. CASE Loads("front")
    <3>1. /\ calls' = [calls EXCEPT !["front"] = [phase |-> "loaded", copy |-> ledger]]
          /\ UNCHANGED ledgerVars
        BY <2>1 DEF Loads
    <3> QED
        BY <1>1, <1>2, <2>0, <3>1, CalledTyped DEF CaseTyped, CallFits, ledgerVars
  <2>2. CASE \E p \in Packages : WriteIntake(p)
    <3> DEFINE l == Timed(calls["front"].copy, "written")
    <3>1. /\ calls' = [calls EXCEPT !["front"] = [phase |-> "changed", copy |-> l]]
          /\ package' \in Packages /\ untimed' = TRUE /\ ledger' = ledger
        BY <2>2 DEF WriteIntake, Changes
    <3>2. l \in Ledger /\ Order(l.times, LedgerTimes) /\ l.times = Stamp(calls["front"].copy.times, "written")
        BY <2>0, TimedTyped DEF LedgerTimes
    <3>3. ~Checked(l)
      <4> DEFINE old == calls["front"].copy.times
      <4>1. /\ At(Stamp(old, "written"), "written") = Len(Stamp(old, "written"))
            /\ At(Stamp(old, "written"), "checked") < Len(Stamp(old, "written"))
            /\ At(Stamp(old, "written"), "checked") \in Nat
            /\ At(Stamp(old, "written"), "written") \in Nat
          BY <2>0, StampOrder, AtPlace DEF LedgerTimes
      <4> QED
          BY <3>2, <4>1 DEF Checked, TimeIn
    <3> HIDE DEF l
    <3>4. /\ calls' \in [Processes -> Call] /\ \A d \in Processes : Order(calls'[d].copy.times, LedgerTimes)
          /\ calls'["front"].copy = l /\ calls'["program"] = calls["program"]
        BY <1>1, <3>1, <3>2, CalledTyped
    <3> QED
        BY <1>1, <1>2, <3>1, <3>3, <3>4 DEF CaseTyped, CallFits
  <2>3. CASE RoundNew
    <3> DEFINE f == calls["front"].copy
               l == NewRound(f.round + 1, f.earlier \cup ({f.run} \ {NoRun}))
    <3>1. /\ calls' = [calls EXCEPT !["front"] = [phase |-> "changed", copy |-> l]]
          /\ UNCHANGED ledgerVars /\ f.round < MaxRounds
        BY <2>3 DEF RoundNew, Changes
    <3>2. << >> \in Seq(LedgerTimes) /\ Len(<< >>) = 0
        OBVIOUS
    <3>3. Order(<< >>, LedgerTimes) /\ At(<< >>, "checked") = 0
        BY <3>2 DEF Order, IsInjective, At
    <3>4. f.round + 1 \in 1 .. MaxRounds /\ f.earlier \cup ({f.run} \ {NoRun}) \in SUBSET Runs
        BY <2>0, <3>1, LedgerAssumption DEF Ledger
    <3>5. l \in Ledger /\ l.times = << >>
        BY <3>2, <3>4 DEF NewRound, Ledger
    <3> HIDE DEF l
    <3>6. Order(l.times, LedgerTimes) /\ ~Checked(l)
        BY <3>3, <3>5 DEF Checked, TimeIn
    <3>7. /\ calls' \in [Processes -> Call] /\ \A d \in Processes : Order(calls'[d].copy.times, LedgerTimes)
          /\ calls'["front"].copy = l /\ calls'["program"] = calls["program"]
        BY <1>1, <3>1, <3>5, <3>6, CalledTyped
    <3> QED
        BY <1>1, <1>2, <3>1, <3>6, <3>7 DEF CaseTyped, CallFits, ledgerVars
  <2>4. CASE SaveFront
    <3>1. /\ Saves("front") /\ untimed' \in BOOLEAN /\ package' = package
          /\ calls["front"].phase = "changed" /\ ledger' = calls["front"].copy
        BY <2>4 DEF SaveFront, Saves
    <3>2. CaseTyped'
        BY <1>1, <3>1, SavedTyped
    <3>3. ~Checked(calls["front"].copy)
        BY <1>1, <3>1 DEF CallFits
    <3>4. calls'["front"].phase = "none" /\ calls'["program"] = calls["program"]
        BY <1>1, <3>1 DEF Saves, NoCall, CaseTyped
    <3> QED
        BY <1>1, <1>2, <3>1, <3>2, <3>3, <3>4 DEF CallFits
  <2>5. CASE Drops("front") /\ UNCHANGED ledgerVars
    <3>1. /\ calls' = [calls EXCEPT !["front"] = NoCall]
          /\ ledger' = ledger /\ package' = package /\ untimed' = untimed
        BY <2>5 DEF Drops, ledgerVars
    <3>2. /\ calls' \in [Processes -> Call] /\ \A d \in Processes : Order(calls'[d].copy.times, LedgerTimes)
          /\ calls'["front"].phase = "none" /\ calls'["program"] = calls["program"]
        BY <1>1, <3>1, NoCallTyped DEF CaseTyped, NoCall
    <3> QED
        BY <1>1, <1>2, <3>1, <3>2 DEF CaseTyped, CallFits
  <2>6. CASE \E b \in bugs.open : ClearDefect(b.agent, b.symptom)
      BY <1>1, <1>2, <2>6 DEF ClearDefect, CaseTyped, CallFits
  <2> QED
      BY <2>1, <2>2, <2>3, <2>4, <2>5, <2>6 DEF FrontWorks
<1> QED
    BY <1>3, <1>4 DEF OrchestratorInv

LEMMA OrchestratorStep ==
  ASSUME OrchestratorInv, [Next]_vars
  PROVE  OrchestratorInv'
<1>0. flow.counts \in [Nodes -> 0 .. NodeLimit] /\ CallFits
    BY DEF OrchestratorInv, FlowTyped, Flow
<1>1. CASE Agent
    BY <1>1, WorkStep
<1>2. CASE StartRun
  <2>1. [n \in Nodes |-> 0] \in [Nodes -> 0 .. NodeLimit]
      BY OrchestratorAssumption
  <2> QED
      BY <1>0, <1>2, <2>1, AdvanceStep DEF StartRun, CallFits
<1>3. CASE FinishAgent
  <2> DEFINE issue == flow.node = "polish" /\ flow.grew /\ ~flow.rendered
  <2>1. calls["program"].phase = "none"
      BY <1>3 DEF FinishAgent, Working
  <2>2. CASE UNCHANGED ledgerVars /\ Advance("polish", "analysis", flow.counts)
      BY <1>0, <2>1, <2>2, AdvanceStep
  <2>3. CASE UNCHANGED ledgerVars /\ StopWith(IF OpenDefects # {} THEN "system_defect" ELSE "agent_failed")
    <3>1. (IF OpenDefects # {} THEN "system_defect" ELSE "agent_failed") \in Stops \cup {"none"}
        BY DEF Stops
    <3> QED
        BY <2>3, <3>1, StopStep
  <2>4. CASE flow.node \in ReviewNodes /\ RoundRevise /\ LastCall
      BY <2>4, ReviseStep
  <2>5. CASE UNCHANGED ledgerVars /\ Advance(flow.node, "none", flow.counts)
      BY <1>0, <2>1, <2>5, AdvanceStep
  <2> QED
      BY <1>3, <2>2, <2>3, <2>4, <2>5 DEF FinishAgent
<1>4. CASE FailAgent
  <2>1. UNCHANGED ledgerVars /\ \E reason \in Stops \cup {"none"} : StopWith(reason)
      BY <1>4 DEF FailAgent, Stops
  <2> QED
      BY <2>1, StopStep
<1>5. CASE FinishRun
  <2>1. flow.read \in Packages /\ Working({"run"})
      BY <1>0, <1>5 DEF FinishRun, Working, CallFits
  <2>2. RunOf[flow.read] \in Runs
      BY <2>1, LedgerAssumption
  <2>3. CASE RoundSetRun(RunOf[flow.read]) /\ LastCall
      BY <2>1, <2>2, <2>3, RegisterStep
  <2>4. CASE UNCHANGED ledgerVars /\ (StopWith("need_front") \/ StopWith("agent_failed"))
    <3>1. \E reason \in Stops \cup {"none"} : StopWith(reason)
        BY <2>4 DEF Stops
    <3> QED
        BY <2>4, <3>1, StopStep
  <2> QED
      BY <1>5, <2>3, <2>4 DEF FinishRun
<1>6. CASE GoOn
    BY <1>0, <1>6, AdvanceStep DEF GoOn
<1>7. CASE FailRun
  <2>1. UNCHANGED ledgerVars /\ \E reason \in Stops \cup {"none"} : StopWith(reason)
      BY <1>7 DEF FailRun, Stops
  <2> QED
      BY <2>1, StopStep
<1>8. CASE Interrupt
  <2>1. UNCHANGED ledgerVars /\ \E reason \in Stops \cup {"none"} : StopWith(reason)
      BY <1>8 DEF Interrupt
  <2> QED
      BY <2>1, StopStep
<1>9. CASE FrontWorks
    BY <1>9, FrontStep
<1>10. CASE UNCHANGED vars
    BY <1>0, <1>10, CallsKept, ReportKept DEF vars, OrchestratorInv, CaseTyped, FlowTyped, AtWork
<1>11. CASE SaveLast
    BY <1>11, SaveLastStep
<1> QED
    BY <1>1, <1>2, <1>3, <1>4, <1>5, <1>6, <1>7, <1>8, <1>9, <1>10, <1>11 DEF Next, Program

----------------------------------------------------------------------------
(***************************************************************************)
(* The theorems                                                            *)
(***************************************************************************)
\* The inductive invariant: types, no node entered more often than its limit,
\* and what the checklists and the node at work say of the report.
THEOREM OrchestratorSound == Spec => []OrchestratorInv
<1>1. Init => OrchestratorInv
    BY OrchestratorInit
<1>2. OrchestratorInv /\ [Next]_vars => OrchestratorInv'
    BY OrchestratorStep
<1> QED
    BY <1>1, <1>2, PTL DEF Spec

\* A report shown as delivered passes its own self-check and its draft's,
\* whatever the front and the agents wrote and however runs were interrupted.
THEOREM DeliveredIsSound == Spec => []DeliveredSound
<1>1. OrchestratorInv => DeliveredSound
  <2> SUFFICES ASSUME OrchestratorInv, Status = "delivered"
               PROVE  ~DraftProblems(ledger.run) /\ ~PolishedProblems(ledger.run)
      BY DEF DeliveredSound
  <2> DEFINE r == ledger.run
  <2>1. CaseTyped
      BY DEF OrchestratorInv
  <2>2. r \in Runs /\ ReportStatus(r) = "delivered"
      BY <2>1, StatusMeans DEF ReportStatuses
  <2>3. /\ Has(r, "draft") /\ DraftPassed(r) /\ FinalPassed(r)
        /\ ~(Touched(r, "polished") < Touched(r, "review"))
      BY <2>2, ReportStatusMeans
  <2>4. \A f : Touched(r, f) \in Nat
      BY <2>1, <2>2, TimesNat
  <2> HIDE DEF r
  <2>5. /\ Has(r, "review") /\ Touched(r, "review") >= Touched(r, "draft")
        /\ Has(r, "final") /\ Touched(r, "final") >= Touched(r, "polished")
        /\ Touched(r, "final") >= Touched(r, "pdf")
      BY <2>3 DEF DraftPassed, FinalPassed
  <2>6. Touched(r, "final") >= Touched(r, "draft")
      BY <2>3, <2>4, <2>5
  <2> QED
      BY <2>2, <2>5, <2>6 DEF OrchestratorInv, DraftsReviewed, FinalsSound, r
<1> QED
    BY <1>1, OrchestratorSound, PTL

\* What the check of round_set_run is worth without a lock: a save that undoes
\* no other, while no write of the front is without its time, registers a run
\* of the package that stands, under a RUNNABLE checklist.
THEOREM RegisteredIsAsRead == Spec => RegisteredAsRead
<1>1. OrchestratorInv =>
        (flow.node = "run" /\ SaveProgram =>
          /\ checklist = "RUNNABLE"
          /\ ledger' = Registered(ledger, RunOf[flow.read]) /\ ~untimed => flow.read = package)
  <2> SUFFICES ASSUME OrchestratorInv, flow.node = "run", SaveProgram
               PROVE  /\ checklist = "RUNNABLE"
                      /\ ledger' = Registered(ledger, RunOf[flow.read]) /\ ~untimed => flow.read = package
      OBVIOUS
  <2>1. CaseTyped /\ CallFits
      BY DEF OrchestratorInv
  <2>2. calls["program"].phase = "changed" /\ ledger' = calls["program"].copy
      BY DEF SaveProgram, Saves
  <2>3. /\ checklist = "RUNNABLE" /\ Checked(calls["program"].copy)
        /\ flow.read \in Packages /\ (flow.read = package \/ untimed \/ ~Checked(ledger))
      BY <2>1, <2>2 DEF CallFits
  <2>4. ledger' = Registered(ledger, RunOf[flow.read]) => Checked(ledger)
    <3>1. RunOf[flow.read] \in Runs /\ ledger \in Ledger /\ Order(ledger.times, LedgerTimes)
        BY <2>1, <2>3, LedgerAssumption DEF CaseTyped
    <3>2. Checked(Registered(ledger, RunOf[flow.read])) <=> Checked(ledger)
        BY <3>1, RegisteredChecked
    <3> QED
        BY <2>2, <2>3, <3>2
  <2> QED
      BY <2>3, <2>4
<1> QED
    BY <1>1, OrchestratorSound, PTL DEF RegisteredAsRead

\* The polished text changes only over a draft a POLISHABLE checklist followed.
THEOREM PolishedIsReviewed == Spec => ReviewBeforePolish
<1>1. OrchestratorInv /\ [Next]_vars =>
        [\A r \in Runs : report'[r].polished # report[r].polished =>
            /\ report[r].review = "POLISHABLE"
            /\ At(report[r].times, "review") > At(report[r].times, "draft")]_vars
  <2> SUFFICES ASSUME OrchestratorInv, Next, NEW r \in Runs, report'[r].polished # report[r].polished
               PROVE  /\ report[r].review = "POLISHABLE"
                      /\ At(report[r].times, "review") > At(report[r].times, "draft")
      BY DEF vars
  <2>0. CaseTyped /\ FlowTyped /\ AtWork /\ report \in [Runs -> Report]
      BY DEF OrchestratorInv, CaseTyped
  <2>1. report' # report
      OBVIOUS
  <2>2. ~(FrontWorks \/ WorkIntake \/ ReportBug)
      BY <2>1 DEF FrontWorks, Loads, WriteIntake, RoundNew, SaveFront, Saves, ClearDefect, WorkIntake, ReviewIntake,
                  SaveProgram, ReportBug, BugAppend, ledgerVars
  <2>3. ~(StartRun \/ FinishAgent \/ FailAgent \/ FinishRun \/ SaveLast \/ GoOn \/ FailRun \/ Interrupt)
      BY <2>1 DEF StartRun, FinishAgent, FailAgent, FinishRun, SaveLast, SaveProgram, Saves, GoOn, FailRun, Interrupt,
                  ledgerVars, RoundSetRun, RoundRevise, LoadsAndChanges
  <2>4. ~(WorkDraft \/ WorkReview \/ WorkFinal)
    <3>1. ledger.run \in Runs \cup {NoRun}
        BY <2>0 DEF CaseTyped, Ledger
    <3>2. \A q \in Runs : \A t \in Drafts : report' = [Written("draft", q) EXCEPT ![q].draft = t]
                            => report'[r].polished = report[r].polished
        BY <2>0 DEF Written, Report
    <3>3. \A q \in Runs : \A v : report' = [Written("review", q) EXCEPT ![q].review = v]
                            => report'[r].polished = report[r].polished
        BY <2>0 DEF Written, Report
    <3>4. \A q \in Runs : \A v : report' = [Written("final", q) EXCEPT ![q].final = v]
                            => report'[r].polished = report[r].polished
        BY <2>0 DEF Written, Report
    <3> QED
        BY <3>1, <3>2, <3>3, <3>4 DEF WorkDraft, WorkReview, WorkFinal, WriteReport, ReviewDraft, ReviewFinal
  <2>5. WorkPolish
      BY <2>2, <2>3, <2>4 DEF Next, Agent, Program
  <2>6. flow.run \in Runs /\ Has(flow.run, "draft") /\ DraftPassed(flow.run)
      BY <2>0, <2>5 DEF WorkPolish, Working, AtWork
  <2>7. r = flow.run
    <3>1. \A q \in Runs : \A t : report' = [Written("polished", q) EXCEPT ![q].polished = t] => r = q
        BY <2>0 DEF Written, Report
    <3>2. \A q \in Runs : report' = Written("pdf", q) => FALSE
        BY <2>0 DEF Written, Report
    <3> QED
        BY <2>1, <2>5, <2>6, <3>1, <3>2
        DEF WorkPolish, WritePolished, EditPolished, RenderPdf, GivenRun, ledgerVars
  <2>8. At(report[r].times, "review") # At(report[r].times, "draft")
      BY <2>0, <2>6, <2>7, AtDistinct DEF CaseTyped, Has
  <2>9. Touched(r, "review") \in Nat /\ Touched(r, "draft") \in Nat
      BY <2>0, TimesNat
  <2> QED
      BY <2>6, <2>7, <2>8, <2>9 DEF DraftPassed, Touched
<1> QED
    BY <1>1, OrchestratorSound, PTL DEF Spec, ReviewBeforePolish
=============================================================================
