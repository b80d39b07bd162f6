------------------------- MODULE SessionAlertsProofs -------------------------
(***************************************************************************)
(* Theorems about SessionAlerts, for any sessions, sweeps, limits and      *)
(* clocks.                                                                 *)
(***************************************************************************)
EXTENDS SessionAlerts, FiniteSetTheorems, TLAPS

-----------------------------------------------------------------------------
(* The shared transaction.                                                 *)

LEMMA ReconcileType ==
  ASSUME AlertsTypeOK, NEW found, NEW managed, ReconcileAlertEvents(found, managed)
  PROVE  AlertsTypeOK'
BY DEF AlertsTypeOK, ReconcileAlertEvents

\* A producer leaves alone what it does not manage and did not find.
LEMMA ReconcileIsConfined ==
  ASSUME NEW found, NEW managed, ReconcileAlertEvents(found, managed),
         NEW f \in Fingerprints, f \notin found, SourceOfAlert[f] \notin managed
  PROVE  alert'[f] = alert[f]
BY DEF ReconcileAlertEvents, Resolves

\* Of what it manages, exactly what it found is active afterwards.
LEMMA ReconcileIsExact ==
  ASSUME AlertsTypeOK, NEW found, NEW managed, ReconcileAlertEvents(found, managed),
         NEW f \in Fingerprints, SourceOfAlert[f] \in managed
  PROVE  alert'[f] = "active" <=> f \in found
BY DEF AlertsTypeOK, ReconcileAlertEvents, Resolves

LEMMA SourcesDiffer ==
  /\ \A f \in Fingerprints \ Others : f \in Sessions \X Codes /\ SourceOfAlert[f] = "agent_registry"
  /\ \A f \in Fingerprints \cap Others : f \notin Sessions \X Codes /\ SourceOfAlert[f] = "collector"
  /\ Others \subseteq Fingerprints
  /\ Sessions \X Codes \subseteq Fingerprints \ Others
BY AlertAssumption

-----------------------------------------------------------------------------
(* Type correctness.                                                       *)

LEMMA InitType == Init => TypeOK
<1> SUFFICES ASSUME Init PROVE TypeOK
  OBVIOUS
<1>1. 0 \in Time /\ 0 \in 0..MaxReports
  BY AlertAssumption DEF Time
<1>2. AlertsTypeOK
  BY DEF Init, AlertsInit, AlertsTypeOK
<1>3. sweep \in [Sweeps -> InFlight \cup {Idle}] /\ overlapped \in BOOLEAN
  BY DEF Init
<1>4. /\ clock \in Time /\ reports \in 0..MaxReports
      /\ seen \in [Sessions -> Time] /\ changed \in [Sessions -> Time]
      /\ updated \in [Sessions -> Time]
  BY <1>1 DEF Init
<1>5. /\ status \in [Sessions -> Statuses \cup {"none"}]
      /\ slipped \in [Sessions -> Nat]
      /\ listed \in [Sessions -> BOOLEAN]
      /\ episodes \in [Fingerprints -> Nat]
  BY DEF Init
<1> QED
  BY <1>2, <1>3, <1>4, <1>5 DEF TypeOK

LEMMA EpisodesType ==
  ASSUME episodes \in [Fingerprints -> Nat], CountEpisodes
  PROVE  episodes' \in [Fingerprints -> Nat]
BY DEF CountEpisodes

LEMMA SlipsType ==
  ASSUME slipped \in [Sessions -> Nat], NEW s \in Sessions, Slips(s)
  PROVE  slipped' \in [Sessions -> Nat]
BY DEF Slips

LEMMA TickType == ASSUME TypeOK, Tick PROVE TypeOK'
<1>1. episodes' \in [Fingerprints -> Nat]
  BY EpisodesType DEF Tick, TypeOK
<1>2. clock' \in Time
  BY AlertAssumption DEF Tick, TypeOK, Time
<1> QED
  BY <1>1, <1>2 DEF Tick, TypeOK, rows, alertVars, AlertsTypeOK

LEMMA ReportType ==
  ASSUME TypeOK, NEW s \in Sessions, NEW st \in Statuses, Report(s, st)
  PROVE  TypeOK'
<1>1. episodes' \in [Fingerprints -> Nat] /\ slipped' \in [Sessions -> Nat]
  BY EpisodesType, SlipsType DEF Report, TypeOK
<1>2. reports' \in 0..MaxReports
  BY AlertAssumption DEF Report, TypeOK
<1> QED
  BY <1>1, <1>2 DEF Report, TypeOK, alertVars, AlertsTypeOK

LEMMA SetArchivedType ==
  ASSUME TypeOK, NEW s \in Sessions, NEW archived \in BOOLEAN, SetArchived(s, archived)
  PROVE  TypeOK'
<1>1. episodes' \in [Fingerprints -> Nat] /\ slipped' \in [Sessions -> Nat]
  BY EpisodesType, SlipsType DEF SetArchived, TypeOK
<1>2. reports' \in 0..MaxReports
  BY AlertAssumption DEF SetArchived, TypeOK
<1> QED
  BY <1>1, <1>2 DEF SetArchived, TypeOK, alertVars, AlertsTypeOK

LEMMA CollectorReconcilesType ==
  ASSUME TypeOK, NEW found \in SUBSET Others, CollectorReconciles(found)
  PROVE  TypeOK'
<1>1. AlertsTypeOK'
  BY ReconcileType DEF CollectorReconciles, TypeOK
<1>2. reports' \in 0..MaxReports
  BY AlertAssumption DEF CollectorReconciles, TypeOK
<1> QED
  BY <1>1, <1>2 DEF CollectorReconciles, TypeOK

\* What is known of a sweep by the step it is at.
LEMMA RowType == ASSUME TypeOK, NEW s \in Sessions PROVE RowOf(s) \in Row
BY DEF TypeOK, RowOf, Row

LEMMA BegunSweep ==
  ASSUME TypeOK, NEW q \in Sweeps, sweep[q].step = "begun"
  PROVE  sweep[q] = [step |-> "begun", now |-> sweep[q].now] /\ sweep[q].now \in Time
BY DEF TypeOK, InFlight, Idle

LEMMA ReadSweep ==
  ASSUME TypeOK, NEW q \in Sweeps, sweep[q].step = "read"
  PROVE  /\ sweep[q] = [step |-> "read", now |-> sweep[q].now, left |-> sweep[q].left,
                        found |-> sweep[q].found]
         /\ sweep[q].now \in Time
         /\ sweep[q].left \in [DOMAIN sweep[q].left -> Row]
         /\ DOMAIN sweep[q].left \subseteq Sessions
         /\ sweep[q].found \subseteq Sessions \X Codes
BY DEF TypeOK, InFlight, Idle

LEMMA SweepType ==
  ASSUME TypeOK, NEW q \in Sweeps, Sweep(q)
  PROVE  TypeOK'
<1>1. CASE SweepBegin(q)
  <2>1. [step |-> "begun", now |-> clock] \in InFlight
    BY DEF InFlight, TypeOK
  <2> QED
    BY <1>1, <2>1 DEF SweepBegin, TypeOK, rows, alertVars, AlertsTypeOK
<1>2. CASE SweepRead(q)
  <2>1. PICK ss \in SUBSET Sessions :
          sweep' = [sweep EXCEPT ![q] =
            [step |-> "read", now |-> sweep[q].now, left |-> [s \in ss |-> RowOf(s)], found |-> {}]]
    BY <1>2 DEF SweepRead
  <2>2. [s \in ss |-> RowOf(s)] \in [ss -> Row]
    BY RowType
  <2>3. sweep[q].now \in Time
    BY <1>2, BegunSweep DEF SweepRead
  <2>4. [step |-> "read", now |-> sweep[q].now, left |-> [s \in ss |-> RowOf(s)], found |-> {}]
          \in InFlight
    BY <2>2, <2>3 DEF InFlight
  <2> QED
    BY <1>2, <2>1, <2>4 DEF SweepRead, TypeOK, rows, alertVars, AlertsTypeOK
<1>4. ASSUME NEW s \in Sessions, SweepView(q, s) PROVE TypeOK'
  <2> DEFINE left == sweep[q].left
             rest == Restrict(left, DOMAIN left \ {s})
             found == sweep[q].found \cup Alarming(s, left[s], sweep[q].now)
  <2>1. /\ sweep[q].step = "read" /\ s \in DOMAIN left
        /\ sweep' = [sweep EXCEPT ![q] =
             [step |-> "read", now |-> sweep[q].now, left |-> rest, found |-> found]]
    BY <1>4 DEF SweepView
  <2>2. /\ sweep[q] = [step |-> "read", now |-> sweep[q].now, left |-> left,
                       found |-> sweep[q].found]
        /\ sweep[q].now \in Time /\ left \in [DOMAIN left -> Row] /\ DOMAIN left \subseteq Sessions
        /\ sweep[q].found \subseteq Sessions \X Codes
    BY <2>1, ReadSweep
  <2>3. rest \in [DOMAIN left \ {s} -> Row] /\ DOMAIN left \ {s} \subseteq Sessions
    BY <2>2 DEF Restrict
  <2>4. found \subseteq Sessions \X Codes
    BY <2>2 DEF Alarming
  <2> HIDE DEF left, rest, found
  <2>6. [step |-> "read", now |-> sweep[q].now, left |-> rest, found |-> found] \in InFlight
    BY <2>2, <2>3, <2>4 DEF InFlight
  <2> QED
    BY <1>4, <2>1, <2>6 DEF SweepView, TypeOK, rows, alertVars, AlertsTypeOK
<1>3. CASE SweepWrite(q)
  <2>1. AlertsTypeOK'
    BY <1>3, ReconcileType DEF SweepWrite, TypeOK
  <2> QED
    BY <1>3, <2>1 DEF SweepWrite, SweepEnds, TypeOK, rows
<1> QED
  BY <1>1, <1>2, <1>3, <1>4 DEF Sweep

LEMMA NextType == TypeOK /\ [Next]_vars => TypeOK'
<1> SUFFICES ASSUME TypeOK, [Next]_vars PROVE TypeOK'
  OBVIOUS
<1>1. CASE UNCHANGED vars
  BY <1>1 DEF vars, rows, alertVars, TypeOK, AlertsTypeOK
<1> QED
  BY <1>1, TickType, ReportType, SetArchivedType, CollectorReconcilesType, SweepType DEF Next

(* Clock, rows, sweeps and the table keep their types, for any limit.      *)
THEOREM AlertsTypeCorrect == Spec => []TypeOK
<1> QED
  BY InitType, NextType, PTL DEF Spec

-----------------------------------------------------------------------------
(* One alert per session: what a sweep finds has one code per session,     *)
(* since the effective status of a row decides it, and what it writes      *)
(* replaces every alert of the registry.                                   *)

OnePerSession(alerts) == \A f, g \in alerts : f[1] = g[1] => f = g

FindingsInv ==
  /\ \A q \in Sweeps : sweep[q].step = "read" =>
       /\ sweep[q].found \subseteq (Sessions \ DOMAIN sweep[q].left) \X Codes
       /\ OnePerSession(sweep[q].found)
  /\ OneAlertPerSession

LEMMA AlarmingIsOnePerSession ==
  ASSUME NEW s, NEW row, NEW now
  PROVE  /\ Alarming(s, row, now) \subseteq {s} \X Codes
         /\ OnePerSession(Alarming(s, row, now))
<1>1. ASSUME NEW c \in Codes, NEW d \in Codes, Condition(s, row, c, now), Condition(s, row, d, now)
      PROVE  c = d
  BY <1>1 DEF Condition, Codes
<1>2. ASSUME NEW f \in Alarming(s, row, now), NEW g \in Alarming(s, row, now) PROVE f = g
  <2>1. PICK c \in Codes : f = <<s, c>> /\ Condition(s, row, c, now)
    BY DEF Alarming
  <2>2. PICK d \in Codes : g = <<s, d>> /\ Condition(s, row, d, now)
    BY DEF Alarming
  <2> QED
    BY <1>1, <2>1, <2>2
<1> QED
  BY <1>2 DEF Alarming, OnePerSession

LEMMA FindingsUnchanged ==
  ASSUME FindingsInv, UNCHANGED <<sweep, alert>>
  PROVE  FindingsInv'
BY DEF FindingsInv, OneAlertPerSession, Active, OnePerSession

LEMMA CollectorKeepsFindings ==
  ASSUME TypeOK, FindingsInv, NEW found \in SUBSET Others, CollectorReconciles(found)
  PROVE  FindingsInv'
<1>1. \A f \in Fingerprints \ Others : alert'[f] = alert[f]
  BY SourcesDiffer, ReconcileIsConfined DEF CollectorReconciles
<1> QED
  BY <1>1 DEF CollectorReconciles, FindingsInv, OneAlertPerSession, Active, OnePerSession

LEMMA SweepKeepsFindings ==
  ASSUME TypeOK, FindingsInv, NEW q \in Sweeps, Sweep(q)
  PROVE  FindingsInv'
<1>1. CASE SweepBegin(q)
  <2>1. \A p \in Sweeps : sweep'[p].step = "read" => sweep'[p] = sweep[p]
    BY <1>1 DEF SweepBegin, TypeOK
  <2> QED
    BY <1>1, <2>1 DEF SweepBegin, FindingsInv, OneAlertPerSession, Active, alertVars
<1>2. CASE SweepRead(q)
  <2>1. \A p \in Sweeps : sweep'[p] = sweep[p] \/ sweep'[p].found = {}
    BY <1>2 DEF SweepRead, TypeOK
  <2> QED
    BY <1>2, <2>1 DEF SweepRead, FindingsInv, OneAlertPerSession, OnePerSession, Active, alertVars
<1>4. ASSUME NEW s \in Sessions, SweepView(q, s) PROVE FindingsInv'
  <2> DEFINE left == sweep[q].left
             seenThere == Alarming(s, left[s], sweep[q].now)
  <2>1. /\ sweep[q].step = "read" /\ s \in DOMAIN left /\ alert' = alert
        /\ sweep' = [sweep EXCEPT ![q] =
             [step |-> "read", now |-> sweep[q].now, left |-> Restrict(left, DOMAIN left \ {s}),
              found |-> sweep[q].found \cup seenThere]]
    BY <1>4 DEF SweepView, alertVars
  <2>2. /\ sweep'[q].found = sweep[q].found \cup seenThere
        /\ DOMAIN sweep'[q].left = DOMAIN left \ {s}
    BY <2>1, ReadSweep DEF TypeOK, Restrict
  <2>3. \A p \in Sweeps \ {q} : sweep'[p] = sweep[p]
    BY <2>1 DEF TypeOK
  <2>4. /\ sweep[q].found \subseteq (Sessions \ DOMAIN left) \X Codes
        /\ OnePerSession(sweep[q].found)
    BY <2>1 DEF FindingsInv
  <2>5. seenThere \subseteq {s} \X Codes /\ OnePerSession(seenThere)
    BY AlarmingIsOnePerSession
  <2> HIDE DEF left, seenThere
  <2>6. sweep'[q].found \subseteq (Sessions \ DOMAIN sweep'[q].left) \X Codes
    BY <2>1, <2>2, <2>4, <2>5
  <2>7. \A f \in sweep[q].found, g \in seenThere : f[1] # g[1]
    BY <2>1, <2>4, <2>5
  <2>8. OnePerSession(sweep'[q].found)
    BY <2>2, <2>4, <2>5, <2>7 DEF OnePerSession
  <2> QED
    BY <2>1, <2>3, <2>6, <2>8 DEF FindingsInv, OneAlertPerSession, Active
<1>3. CASE SweepWrite(q)
  <2>1. \A p \in Sweeps : sweep'[p].step = "read" => sweep'[p] = sweep[p]
    BY <1>3 DEF SweepWrite, SweepEnds, TypeOK, Idle
  <2>2. (Active \ Others)' \subseteq sweep[q].found
    BY <1>3, SourcesDiffer, ReconcileIsExact DEF SweepWrite, Active, TypeOK
  <2>3. OnePerSession(sweep[q].found)
    BY <1>3 DEF SweepWrite, FindingsInv
  <2> QED
    BY <2>1, <2>2, <2>3 DEF FindingsInv, OneAlertPerSession, OnePerSession
<1> QED
  BY <1>1, <1>2, <1>3, <1>4 DEF Sweep

(* However sweeps overlap, a session has one active alert at most.         *)
THEOREM SessionsHaveOneAlert == Spec => []OneAlertPerSession
<1>1. Init => FindingsInv
  BY DEF Init, AlertsInit, FindingsInv, OneAlertPerSession, Active, Idle
<1>2. TypeOK /\ FindingsInv /\ [Next]_vars => FindingsInv'
  <2> SUFFICES ASSUME TypeOK, FindingsInv, [Next]_vars PROVE FindingsInv'
    OBVIOUS
  <2>1. CASE UNCHANGED vars
    BY <2>1, FindingsUnchanged DEF vars, alertVars
  <2>2. CASE Tick
    BY <2>2, FindingsUnchanged DEF Tick, alertVars
  <2>3. ASSUME NEW s \in Sessions, NEW st \in Statuses, Report(s, st) PROVE FindingsInv'
    BY <2>3, FindingsUnchanged DEF Report, alertVars
  <2>4. ASSUME NEW s \in Sessions, NEW archived \in BOOLEAN, SetArchived(s, archived)
        PROVE  FindingsInv'
    BY <2>4, FindingsUnchanged DEF SetArchived, alertVars
  <2> QED
    BY <2>1, <2>2, <2>3, <2>4, CollectorKeepsFindings, SweepKeepsFindings DEF Next
<1>3. FindingsInv => OneAlertPerSession
  BY DEF FindingsInv
<1> QED
  BY <1>1, <1>2, <1>3, AlertsTypeCorrect, PTL DEF Spec

-----------------------------------------------------------------------------
(* Every step touches the alerts of one producer only.                     *)
THEOREM ProducersAreSeparate == Spec => SourcesAreSeparate
<1> DEFINE Separate ==
      (\E f \in Others : alert'[f] # alert[f]) =>
        \A f \in Fingerprints \ Others : alert'[f] = alert[f]
<1>1. TypeOK /\ [Next]_vars => [Separate]_vars
  <2> SUFFICES ASSUME TypeOK, [Next]_vars PROVE [Separate]_vars
    OBVIOUS
  <2>1. CASE UNCHANGED alert
    BY <2>1
  <2>2. ASSUME NEW found \in SUBSET Others, CollectorReconciles(found) PROVE Separate
    BY <2>2, SourcesDiffer, ReconcileIsConfined DEF CollectorReconciles
  <2>3. ASSUME NEW q \in Sweeps, SweepWrite(q) PROVE Separate
    <3>1. sweep[q].found \subseteq Sessions \X Codes
      BY <2>3, ReadSweep DEF SweepWrite
    <3>2. \A f \in Others : alert'[f] = alert[f]
      BY <2>3, <3>1, SourcesDiffer, ReconcileIsConfined DEF SweepWrite
    <3> QED
      BY <3>2
  <2>4. CASE Next
    BY <2>1, <2>2, <2>3, <2>4
    DEF Next, Tick, Report, SetArchived, Sweep, SweepBegin, SweepRead, SweepView, alertVars
  <2> QED
    BY <2>4 DEF vars
<1> QED
  BY <1>1, AlertsTypeCorrect, PTL DEF Spec, SourcesAreSeparate

-----------------------------------------------------------------------------
(***************************************************************************)
(* Occurrences.  A condition that holds without an active alert has come   *)
(* up more often than it was counted, or its row slipped by a sweep: the   *)
(* alert is behind.  The same goes for what a sweep in flight will make of *)
(* a session, as long as it is the only one: what it has found is active   *)
(* or behind, what it missed is behind, and the row that it still holds is *)
(* the present one, unless every alert of the session is behind.           *)
(***************************************************************************)

Holds(s, c) == listed[s] /\ Condition(s, RowOf(s), c, clock)
Sees(s, c, now) == listed[s] /\ Condition(s, RowOf(s), c, now)
Behind(s, c) == occurrences[<<s, c>>] < episodes[<<s, c>>] + slipped[s]

AlertInv(s, c) ==
  /\ occurrences[<<s, c>>] <= episodes[<<s, c>>] + slipped[s]
  /\ Holds(s, c) => alert[<<s, c>>] = "active" \/ Behind(s, c)
RowsInv == \A s \in Sessions, c \in Codes : AlertInv(s, c)

Missed(s, c, now) == Holds(s, c) /\ ~Sees(s, c, now)
BegunInv(q, s, c) == sweep[q].now <= clock /\ (Missed(s, c, sweep[q].now) => Behind(s, c))
LeftInv(q, s) ==
  \/ \A c \in Codes : Behind(s, c)
  \/ /\ sweep[q].left[s] = RowOf(s) /\ listed[s]
     /\ \A c \in Codes : Missed(s, c, sweep[q].now) => Behind(s, c)
ViewedInv(q, s, c) ==
  /\ <<s, c>> \in sweep[q].found => alert[<<s, c>>] = "active" \/ Behind(s, c)
  /\ (Holds(s, c) /\ <<s, c>> \notin sweep[q].found) => Behind(s, c)
SweepInv(q, s) ==
  /\ sweep[q].step = "begun" => \A c \in Codes : BegunInv(q, s, c)
  /\ sweep[q].step = "read" =>
       /\ sweep[q].now <= clock
       /\ s \in DOMAIN sweep[q].left =>
            LeftInv(q, s) /\ \A c \in Codes : <<s, c>> \notin sweep[q].found
       /\ s \notin DOMAIN sweep[q].left => \A c \in Codes : ViewedInv(q, s, c)
SweepsInv == \A q \in Sweeps, s \in Sessions : SweepInv(q, s)

EpisodesInv == ~overlapped => RowsInv /\ SweepsInv

LEMMA RegistryIsApart ==
  /\ \A s \in Sessions, c \in Codes : <<s, c>> \in Fingerprints \ Others
  /\ \A f \in Fingerprints \ Others : \E s \in Sessions, c \in Codes : f = <<s, c>>
  /\ \A s \in Sessions, c \in Codes : SourceOfAlert[<<s, c>>] = "agent_registry"
BY AlertAssumption

LEMMA ConditionsHold ==
  ASSUME NEW s \in Sessions, NEW c \in Codes
  PROVE  <<s, c>> \in Conditions <=> Holds(s, c)
BY DEF Conditions, Alarming, ListedSessions, Holds

LEMMA ConditionsHoldNext ==
  ASSUME NEW s \in Sessions, NEW c \in Codes
  PROVE  <<s, c>> \in Conditions' <=> Holds(s, c)'
BY DEF Conditions, Alarming, ListedSessions, Holds

LEMMA CountsAreNat ==
  ASSUME TypeOK, NEW s \in Sessions, NEW c \in Codes
  PROVE  /\ occurrences[<<s, c>>] \in Nat /\ episodes[<<s, c>>] \in Nat /\ slipped[s] \in Nat
BY RegistryIsApart DEF TypeOK, AlertsTypeOK

\* A step that neither reads nor writes the table: what comes up is counted, and
\* so is what slips by a sweep.
Counting ==
  /\ CountEpisodes
  /\ UNCHANGED <<alertVars, sweep>>
  /\ clock' \in Time /\ clock <= clock'
  /\ \A s \in Sessions :
       /\ slipped'[s] \in Nat /\ slipped[s] <= slipped'[s]
       /\ \/ RowOf(s)' = RowOf(s) /\ listed'[s] = listed[s]
          \/ slipped'[s] > slipped[s]
          \/ \A q \in Sweeps : ~(sweep[q].step = "read" /\ s \in DOMAIN sweep[q].left)
  /\ \A s \in Sessions, c \in Codes, now \in Time :
       (Holds(s, c) /\ Holds(s, c)' /\ Sees(s, c, now)) => Sees(s, c, now)'

LEMMA CountingKeepsAlert ==
  ASSUME TypeOK, TypeOK', Counting, NEW s \in Sessions, NEW c \in Codes, AlertInv(s, c)
  PROVE  /\ AlertInv(s, c)'
         /\ Behind(s, c) => Behind(s, c)'
         /\ (Holds(s, c)' /\ ~Holds(s, c)) => Behind(s, c)'
         /\ slipped'[s] > slipped[s] => Behind(s, c)'
<1> DEFINE f == <<s, c>>
<1>1. /\ occurrences'[f] = occurrences[f] /\ alert'[f] = alert[f]
      /\ slipped[s] <= slipped'[s]
  BY DEF Counting, alertVars
<1>2. /\ occurrences[f] \in Nat /\ episodes[f] \in Nat /\ slipped[s] \in Nat /\ slipped'[s] \in Nat
  BY CountsAreNat DEF Counting
<1>3. /\ f \in Conditions <=> Holds(s, c)
      /\ f \in Conditions' <=> Holds(s, c)'
  BY ConditionsHold, ConditionsHoldNext
<1>4. episodes'[f] = IF Holds(s, c)' /\ ~Holds(s, c) THEN episodes[f] + 1 ELSE episodes[f]
  BY <1>3, RegistryIsApart DEF Counting, CountEpisodes
<1>5. occurrences[f] <= episodes[f] + slipped[s]
  BY DEF AlertInv
<1>6. /\ Behind(s, c) <=> occurrences[f] < episodes[f] + slipped[s]
      /\ Behind(s, c)' <=> occurrences'[f] < episodes'[f] + slipped'[s]
  BY DEF Behind
<1>7. Holds(s, c) => alert[f] = "active" \/ Behind(s, c)
  BY DEF AlertInv
<1> HIDE DEF f
<1>8. Behind(s, c) => Behind(s, c)'
  BY <1>1, <1>2, <1>4, <1>6
<1>9. (Holds(s, c)' /\ ~Holds(s, c)) => Behind(s, c)'
  BY <1>1, <1>2, <1>4, <1>5, <1>6
<1>10. slipped'[s] > slipped[s] => Behind(s, c)'
  BY <1>1, <1>2, <1>4, <1>5, <1>6
<1>11. occurrences'[f] <= episodes'[f] + slipped'[s]
  BY <1>1, <1>2, <1>4, <1>5
<1>12. Holds(s, c)' => alert'[f] = "active" \/ Behind(s, c)'
  BY <1>1, <1>7, <1>8, <1>9
<1>13. AlertInv(s, c)'
  BY <1>11, <1>12 DEF AlertInv, f
<1> QED
  BY <1>8, <1>9, <1>10, <1>13

LEMMA CountingKeepsSweep ==
  ASSUME TypeOK, TypeOK', Counting, RowsInv, NEW q \in Sweeps, NEW s \in Sessions, SweepInv(q, s)
  PROVE  SweepInv(q, s)'
<1>0. sweep' = sweep /\ UNCHANGED alertVars /\ clock <= clock' /\ clock \in Nat /\ clock' \in Nat
  BY AlertAssumption DEF Counting, TypeOK, Time
<1>1. \A c \in Codes :
        /\ Behind(s, c) => Behind(s, c)'
        /\ (Holds(s, c)' /\ ~Holds(s, c)) => Behind(s, c)'
        /\ slipped'[s] > slipped[s] => Behind(s, c)'
  BY CountingKeepsAlert DEF RowsInv
<1>2. ASSUME NEW now \in Time, NEW c \in Codes, Missed(s, c, now) => Behind(s, c)
      PROVE  Missed(s, c, now)' => Behind(s, c)'
  BY <1>1, <1>2 DEF Counting, Missed
<1>3. ASSUME sweep[q].step = "begun" PROVE \A c \in Codes : BegunInv(q, s, c)'
  <2>0. sweep[q].now \in Time
    BY <1>3, BegunSweep
  <2>1. sweep[q].now \in Time /\ sweep[q].now \in Nat
    BY <2>0, AlertAssumption DEF Time
  <2> QED
    BY <1>0, <1>2, <1>3, <2>1 DEF SweepInv, BegunInv
<1>4. ASSUME sweep[q].step = "read"
      PROVE  /\ sweep[q].now <= clock'
             /\ s \in DOMAIN sweep[q].left =>
                  LeftInv(q, s)' /\ \A c \in Codes : <<s, c>> \notin sweep[q].found
             /\ s \notin DOMAIN sweep[q].left => \A c \in Codes : ViewedInv(q, s, c)'
  <2>0. sweep[q].now \in Time
    BY <1>4, ReadSweep
  <2>1. sweep[q].now \in Time /\ sweep[q].now \in Nat
    BY <2>0, AlertAssumption DEF Time
  <2>2. sweep[q].now <= clock'
    BY <1>0, <1>4, <2>1 DEF SweepInv
  <2>3. ASSUME s \in DOMAIN sweep[q].left PROVE LeftInv(q, s)'
    <3>1. LeftInv(q, s)
      BY <1>4, <2>3 DEF SweepInv
    <3>2. CASE \A c \in Codes : Behind(s, c)
      BY <1>1, <3>2 DEF LeftInv
    <3>3. CASE slipped'[s] > slipped[s]
      BY <1>1, <3>3 DEF LeftInv
    <3>4. CASE RowOf(s)' = RowOf(s) /\ listed'[s] = listed[s] /\ ~\A c \in Codes : Behind(s, c)
      <4>1. /\ sweep[q].left[s] = RowOf(s) /\ listed[s]
            /\ \A c \in Codes : Missed(s, c, sweep[q].now) => Behind(s, c)
        BY <3>1, <3>4 DEF LeftInv
      <4>2. \A c \in Codes : Missed(s, c, sweep[q].now)' => Behind(s, c)'
        BY <1>0, <1>2, <2>1, <4>1
      <4> QED
        BY <1>0, <3>4, <4>1, <4>2 DEF LeftInv
    <3> QED
      BY <1>4, <2>3, <3>2, <3>3, <3>4 DEF Counting
  <2>4. ASSUME s \notin DOMAIN sweep[q].left, NEW c \in Codes PROVE ViewedInv(q, s, c)'
    <3>1. ViewedInv(q, s, c)
      BY <1>4, <2>4 DEF SweepInv
    <3> QED
      BY <1>0, <1>1, <3>1 DEF ViewedInv, alertVars
  <2> QED
    BY <1>4, <2>2, <2>3, <2>4 DEF SweepInv
<1> QED
  BY <1>0, <1>3, <1>4 DEF SweepInv

LEMMA CountingKeepsEpisodes ==
  ASSUME TypeOK, TypeOK', EpisodesInv, Counting, overlapped' = overlapped
  PROVE  EpisodesInv'
<1> SUFFICES ASSUME RowsInv, SweepsInv PROVE RowsInv' /\ SweepsInv'
  BY DEF EpisodesInv
<1>1. RowsInv'
  BY CountingKeepsAlert DEF RowsInv
<1>2. SweepsInv'
  BY CountingKeepsSweep DEF SweepsInv
<1> QED
  BY <1>1, <1>2

\* Time makes no condition of a row false that holds now and then.
LEMMA TickCounts == ASSUME TypeOK, TypeOK', Tick PROVE Counting
<1>1. /\ clock' = clock + 1 /\ clock' \in Time /\ clock \in Nat
      /\ UNCHANGED <<rows, sweep, alertVars, slipped>> /\ CountEpisodes
  BY AlertAssumption DEF Tick, TypeOK, Time
<1>2. \A s \in Sessions : RowOf(s)' = RowOf(s) /\ listed'[s] = listed[s]
  BY <1>1 DEF RowOf, rows
<1>3. ASSUME NEW s \in Sessions, NEW c \in Codes, NEW now \in Time,
             Holds(s, c), Holds(s, c)', Sees(s, c, now)
      PROVE  Sees(s, c, now)'
  BY <1>2, <1>3 DEF Holds, Sees, Condition
<1>4. \A s \in Sessions : slipped'[s] \in Nat /\ slipped[s] <= slipped'[s]
  BY <1>1 DEF TypeOK
<1> QED
  BY <1>1, <1>2, <1>3, <1>4 DEF Counting

\* A change of a row that some sweep still holds is counted.
LEMMA SlipsCount ==
  ASSUME TypeOK, NEW x \in Sessions, Slips(x)
  PROVE  \A s \in Sessions :
           /\ slipped'[s] \in Nat /\ slipped[s] <= slipped'[s]
           /\ \/ s # x
              \/ slipped'[s] > slipped[s]
              \/ \A q \in Sweeps : ~(sweep[q].step = "read" /\ s \in DOMAIN sweep[q].left)
<1>1. slipped \in [Sessions -> Nat]
  BY DEF TypeOK
<1>2. CASE \E q \in Sweeps : sweep[q].step = "read" /\ x \in DOMAIN sweep[q].left
  <2>1. slipped' = [slipped EXCEPT ![x] = slipped[x] + 1]
    BY <1>2 DEF Slips
  <2> QED
    BY <1>1, <2>1
<1>3. CASE ~\E q \in Sweeps : sweep[q].step = "read" /\ x \in DOMAIN sweep[q].left
  <2>1. slipped' = slipped
    BY <1>3 DEF Slips
  <2> QED
    BY <1>1, <1>3, <2>1
<1> QED
  BY <1>2, <1>3

LEMMA ReportCounts ==
  ASSUME TypeOK, TypeOK', NEW x \in Sessions, NEW st \in Statuses, Report(x, st)
  PROVE  Counting
<1>1. /\ clock' = clock /\ clock' \in Time /\ clock \in Nat
      /\ UNCHANGED <<sweep, alertVars>> /\ CountEpisodes /\ Slips(x)
  BY AlertAssumption DEF Report, TypeOK, Time
<1>2. \A s \in Sessions \ {x} : RowOf(s)' = RowOf(s) /\ listed'[s] = listed[s]
  BY DEF Report, RowOf, TypeOK
<1>3. ASSUME NEW s \in Sessions, NEW c \in Codes, NEW now \in Time,
             Holds(s, c), Holds(s, c)', Sees(s, c, now)
      PROVE  Sees(s, c, now)'
  <2>1. CASE c = "waiting_long"
    <3>1. status[s] = "waiting" /\ status'[s] = "waiting"
      BY <1>3, <2>1 DEF Holds, Condition, EffectiveStatus, RowOf
    <3>2. changed'[s] = changed[s]
      BY <3>1 DEF Report, TypeOK
    <3> QED
      BY <1>3, <2>1, <3>2 DEF Holds, Sees, Condition, RowOf
  <2>2. CASE c # "waiting_long"
    BY <1>3, <2>2 DEF Holds, Sees, Condition
  <2> QED
    BY <2>1, <2>2
<1>4. clock <= clock'
  BY <1>1
<1> QED
  BY <1>1, <1>2, <1>3, <1>4, SlipsCount DEF Counting

LEMMA SetArchivedCounts ==
  ASSUME TypeOK, TypeOK', NEW x \in Sessions, NEW archived \in BOOLEAN, SetArchived(x, archived)
  PROVE  Counting
<1>1. /\ clock' = clock /\ clock' \in Time /\ clock \in Nat
      /\ UNCHANGED <<status, seen, changed, sweep, alertVars>> /\ CountEpisodes /\ Slips(x)
  BY AlertAssumption DEF SetArchived, TypeOK, Time
<1>2. \A s \in Sessions \ {x} : RowOf(s)' = RowOf(s) /\ listed'[s] = listed[s]
  BY <1>1 DEF SetArchived, RowOf, TypeOK
<1>3. ASSUME NEW s \in Sessions, NEW c \in Codes, NEW now \in Time,
             Holds(s, c), Holds(s, c)', Sees(s, c, now)
      PROVE  Sees(s, c, now)'
  BY <1>1, <1>3 DEF Holds, Sees, Condition, EffectiveStatus, RowOf
<1>4. clock <= clock'
  BY <1>1
<1> QED
  BY <1>1, <1>2, <1>3, <1>4, SlipsCount DEF Counting

\* A step that changes neither rows nor counts leaves what the invariants say of
\* them, and a sweep that it leaves alone.
LEMMA SameRows ==
  ASSUME UNCHANGED <<clock, status, listed, seen, changed>>, NEW s, NEW c
  PROVE  /\ RowOf(s)' = RowOf(s)
         /\ Holds(s, c)' <=> Holds(s, c)
         /\ \A now : Sees(s, c, now)' <=> Sees(s, c, now)
         /\ \A now : Missed(s, c, now)' <=> Missed(s, c, now)
BY DEF RowOf, Holds, Sees, Missed, Condition, EffectiveStatus

LEMMA SameSweep ==
  ASSUME UNCHANGED <<clock, status, listed, seen, changed>>,
         NEW q \in Sweeps, NEW s \in Sessions, sweep'[q] = sweep[q], SweepInv(q, s),
         \A c \in Codes : /\ Behind(s, c)' <=> Behind(s, c)
                          /\ alert'[<<s, c>>] = alert[<<s, c>>]
  PROVE  SweepInv(q, s)'
<1>1. \A c \in Codes :
        /\ Holds(s, c)' <=> Holds(s, c)
        /\ \A now : Missed(s, c, now)' <=> Missed(s, c, now)
  BY SameRows
<1>2. RowOf(s)' = RowOf(s) /\ listed'[s] = listed[s]
  BY SameRows
<1>3. \A c \in Codes : BegunInv(q, s, c) => BegunInv(q, s, c)'
  BY <1>1 DEF BegunInv
<1>4. LeftInv(q, s) => LeftInv(q, s)'
  BY <1>1, <1>2 DEF LeftInv
<1>5. \A c \in Codes : ViewedInv(q, s, c) => ViewedInv(q, s, c)'
  BY <1>1 DEF ViewedInv
<1> QED
  BY <1>3, <1>4, <1>5 DEF SweepInv

LEMMA SameAlerts ==
  ASSUME UNCHANGED <<clock, status, listed, seen, changed>>, RowsInv,
         \A s \in Sessions, c \in Codes :
           /\ alert'[<<s, c>>] = alert[<<s, c>>] /\ occurrences'[<<s, c>>] = occurrences[<<s, c>>]
           /\ episodes'[<<s, c>>] = episodes[<<s, c>>] /\ slipped'[s] = slipped[s]
  PROVE  /\ RowsInv'
         /\ \A s \in Sessions, c \in Codes : Behind(s, c)' <=> Behind(s, c)
<1>1. \A s \in Sessions, c \in Codes : Behind(s, c)' <=> Behind(s, c)
  BY DEF Behind
<1>2. \A s \in Sessions, c \in Codes : Holds(s, c)' <=> Holds(s, c)
  BY SameRows
<1> QED
  BY <1>1, <1>2 DEF RowsInv, AlertInv

\* The collectors write other rows of the table.
LEMMA CollectorKeepsEpisodes ==
  ASSUME TypeOK, EpisodesInv, NEW found \in SUBSET Others, CollectorReconciles(found)
  PROVE  EpisodesInv'
<1>1. UNCHANGED <<clock, status, listed, seen, changed, sweep, episodes, slipped, overlapped>>
  BY DEF CollectorReconciles
<1>2. ASSUME NEW s \in Sessions, NEW c \in Codes
      PROVE  alert'[<<s, c>>] = alert[<<s, c>>] /\ occurrences'[<<s, c>>] = occurrences[<<s, c>>]
  <2> DEFINE f == <<s, c>>
  <2>1. f \in Fingerprints /\ f \notin found /\ SourceOfAlert[f] \notin {"collector"}
    BY RegistryIsApart, SourcesDiffer
  <2>2. ReconcileAlertEvents(found, {"collector"})
    BY DEF CollectorReconciles
  <2> HIDE DEF f
  <2>3. alert'[f] = alert[f]
    BY <2>1, <2>2, ReconcileIsConfined
  <2>4. occurrences'[f] = occurrences[f]
    BY <2>1, <2>2 DEF ReconcileAlertEvents, Counts
  <2> QED
    BY <2>3, <2>4 DEF f
<1> QED
  BY <1>1, <1>2, SameAlerts, SameSweep DEF EpisodesInv, SweepsInv

\* Steps of a sweep before its write.
LEMMA OtherSweeps ==
  ASSUME TypeOK, UNCHANGED <<clock, rows, alertVars, episodes, slipped, overlapped>>, EpisodesInv,
         NEW q \in Sweeps, \A p \in Sweeps \ {q} : sweep'[p] = sweep[p],
         RowsInv /\ SweepsInv => \A s \in Sessions : SweepInv(q, s)'
  PROVE  EpisodesInv'
<1>1. UNCHANGED <<clock, status, listed, seen, changed>> /\ alert' = alert /\ occurrences' = occurrences
  BY DEF rows, alertVars
<1> SUFFICES ASSUME RowsInv, SweepsInv PROVE RowsInv' /\ SweepsInv'
  BY DEF EpisodesInv
<1>2. RowsInv' /\ \A s \in Sessions, c \in Codes : Behind(s, c)' <=> Behind(s, c)
  BY <1>1, SameAlerts
<1>3. \A p \in Sweeps \ {q}, s \in Sessions : SweepInv(p, s)'
  BY <1>1, <1>2, SameSweep DEF SweepsInv
<1> QED
  BY <1>2, <1>3 DEF SweepsInv

\* A sweep that begins has the time of the conditions as they are.
LEMMA BeginKeepsEpisodes ==
  ASSUME TypeOK, EpisodesInv, NEW q \in Sweeps, SweepBegin(q)
  PROVE  EpisodesInv'
<1>1. UNCHANGED <<clock, rows, alertVars, episodes, slipped, overlapped>>
  BY DEF SweepBegin
<1>2. sweep'[q] = [step |-> "begun", now |-> clock] /\ \A p \in Sweeps \ {q} : sweep'[p] = sweep[p]
  BY DEF SweepBegin, TypeOK
<1>3. clock' \in Nat /\ clock' = clock
  BY <1>1, AlertAssumption DEF TypeOK, Time
<1>4. \A s \in Sessions : SweepInv(q, s)'
  BY <1>2, <1>3 DEF SweepInv, BegunInv, Missed, Holds, Sees
<1> QED
  BY <1>1, <1>2, <1>4, OtherSweeps

\* When the limit is no less than the number of sessions, a sweep reads them all.
LEMMA AllRowsAreRead ==
  ASSUME IsFiniteSet(Sessions), Cardinality(Sessions) <= Limit,
         NEW ss \in SUBSET Sessions, FirstRows(ss)
  PROVE  ss = ListedSessions
<1> SUFFICES ASSUME NEW s \in ListedSessions \ ss PROVE FALSE
  BY DEF FirstRows
<1>1. IsFiniteSet(ss) /\ Cardinality(ss) = Limit
  BY FS_Subset DEF FirstRows
<1>2. Cardinality(ss) <= Cardinality(Sessions) /\ (Cardinality(Sessions) = Cardinality(ss) => Sessions = ss)
  BY FS_Subset
<1>3. Cardinality(Sessions) \in Nat /\ Cardinality(ss) \in Nat
  BY <1>1, FS_CardinalityType
<1> QED
  BY <1>1, <1>2, <1>3, AlertAssumption DEF ListedSessions

\* The rows that it has then are the present ones.
LEMMA ReadKeepsEpisodes ==
  ASSUME TypeOK, EpisodesInv, IsFiniteSet(Sessions), Cardinality(Sessions) <= Limit,
         NEW q \in Sweeps, SweepRead(q)
  PROVE  EpisodesInv'
<1>1. /\ UNCHANGED <<clock, rows, alertVars, episodes, slipped, overlapped>>
      /\ sweep[q].step = "begun"
  BY DEF SweepRead
<1>2. sweep' = [sweep EXCEPT ![q] =
        [step |-> "read", now |-> sweep[q].now,
         left |-> [s \in ListedSessions |-> RowOf(s)], found |-> {}]]
  BY AllRowsAreRead DEF SweepRead
<1>3. /\ sweep'[q].step = "read" /\ sweep'[q].now = sweep[q].now /\ sweep'[q].found = {}
      /\ sweep'[q].left = [s \in ListedSessions |-> RowOf(s)]
      /\ \A p \in Sweeps \ {q} : sweep'[p] = sweep[p]
  BY <1>2 DEF TypeOK
<1>4. UNCHANGED <<clock, status, listed, seen, changed, episodes, slipped>>
      /\ alert' = alert /\ occurrences' = occurrences
  BY <1>1 DEF rows, alertVars
<1>5. ASSUME RowsInv, SweepsInv, NEW s \in Sessions PROVE SweepInv(q, s)'
  <2>1. /\ RowOf(s)' = RowOf(s)
        /\ \A c \in Codes : /\ Holds(s, c)' <=> Holds(s, c)
                            /\ \A now : Missed(s, c, now)' <=> Missed(s, c, now)
                            /\ Behind(s, c)' <=> Behind(s, c)
    BY <1>4, SameRows DEF Behind
  <2>2. \A c \in Codes : BegunInv(q, s, c)
    BY <1>1, <1>5 DEF SweepsInv, SweepInv
  <2>3. sweep[q].now <= clock
    BY <2>2 DEF BegunInv, Codes
  <2>4. CASE listed[s]
    <3>1. s \in DOMAIN sweep'[q].left /\ sweep'[q].left[s] = RowOf(s)'
      BY <1>3, <2>1, <2>4 DEF ListedSessions
    <3>2. LeftInv(q, s)'
      BY <1>3, <1>4, <2>1, <2>2, <2>4, <3>1 DEF LeftInv, BegunInv
    <3> QED
      BY <1>3, <1>4, <2>3, <3>1, <3>2 DEF SweepInv
  <2>5. CASE ~listed[s]
    <3>1. s \notin DOMAIN sweep'[q].left
      BY <1>3, <2>5 DEF ListedSessions
    <3>2. \A c \in Codes : ViewedInv(q, s, c)'
      BY <1>3, <1>4, <2>5 DEF ViewedInv, Holds
    <3> QED
      BY <1>3, <1>4, <2>3, <3>1, <3>2 DEF SweepInv
  <2> QED
    BY <2>4, <2>5
<1> QED
  BY <1>1, <1>3, <1>5, OtherSweeps

\* What a sweep finds in a present row is true now, and what it misses came up
\* after it began.
LEMMA ViewKeepsEpisodes ==
  ASSUME TypeOK, EpisodesInv, NEW q \in Sweeps, NEW x \in Sessions, SweepView(q, x)
  PROVE  EpisodesInv'
<1> DEFINE now == sweep[q].now
           row == sweep[q].left[x]
<1>1. /\ UNCHANGED <<clock, rows, alertVars, episodes, slipped, overlapped>>
      /\ sweep[q].step = "read" /\ x \in DOMAIN sweep[q].left
      /\ sweep' = [sweep EXCEPT ![q] =
           [step |-> "read", now |-> now,
            left |-> Restrict(sweep[q].left, DOMAIN sweep[q].left \ {x}),
            found |-> sweep[q].found \cup Alarming(x, row, now)]]
  BY DEF SweepView
<1>2. /\ sweep'[q].step = "read" /\ sweep'[q].now = now
      /\ sweep'[q].left = Restrict(sweep[q].left, DOMAIN sweep[q].left \ {x})
      /\ sweep'[q].found = sweep[q].found \cup Alarming(x, row, now)
      /\ \A p \in Sweeps \ {q} : sweep'[p] = sweep[p]
  BY <1>1, ReadSweep DEF TypeOK
<1>3. /\ DOMAIN sweep'[q].left = DOMAIN sweep[q].left \ {x}
      /\ \A s \in DOMAIN sweep'[q].left : sweep'[q].left[s] = sweep[q].left[s]
  BY <1>2 DEF Restrict
<1>4. UNCHANGED <<clock, status, listed, seen, changed, episodes, slipped>>
      /\ alert' = alert /\ occurrences' = occurrences
  BY <1>1 DEF rows, alertVars
<1>5. \A c \in Codes : <<x, c>> \in Alarming(x, row, now) <=> Condition(x, row, c, now)
  BY DEF Alarming
<1>6. \A s \in Sessions \ {x}, c \in Codes : <<s, c>> \notin Alarming(x, row, now)
  BY DEF Alarming
<1>7. now \in Nat /\ clock \in Nat /\ WaitAfter \in Nat /\ changed[x] \in Nat
  BY <1>1, ReadSweep, AlertAssumption DEF TypeOK, Time
<1> HIDE DEF now, row
<1>8. ASSUME RowsInv, SweepsInv, NEW s \in Sessions PROVE SweepInv(q, s)'
  <2>1. /\ RowOf(s)' = RowOf(s)
        /\ \A c \in Codes : /\ Holds(s, c)' <=> Holds(s, c)
                            /\ \A n : Missed(s, c, n)' <=> Missed(s, c, n)
                            /\ Behind(s, c)' <=> Behind(s, c)
    BY <1>4, SameRows DEF Behind
  <2>2. SweepInv(q, s) /\ now <= clock
    BY <1>1, <1>8 DEF SweepsInv, SweepInv, now
  <2>3. CASE s # x
    <3>1. s \in DOMAIN sweep'[q].left <=> s \in DOMAIN sweep[q].left
      BY <1>3, <2>3
    <3>2. \A c \in Codes : <<s, c>> \in sweep'[q].found <=> <<s, c>> \in sweep[q].found
      BY <1>2, <1>6, <2>3
    <3>3. ASSUME s \in DOMAIN sweep[q].left PROVE LeftInv(q, s)'
      <4>1. LeftInv(q, s)
        BY <1>1, <2>2, <3>3 DEF SweepInv
      <4> QED
        BY <1>2, <1>3, <1>4, <2>1, <3>1, <3>3, <4>1 DEF LeftInv, now
    <3>4. ASSUME s \notin DOMAIN sweep[q].left PROVE \A c \in Codes : ViewedInv(q, s, c)'
      <4>1. \A c \in Codes : ViewedInv(q, s, c)
        BY <1>1, <2>2, <3>4 DEF SweepInv
      <4> QED
        BY <1>4, <2>1, <3>2, <4>1 DEF ViewedInv
    <3> QED
      BY <1>1, <1>2, <1>4, <2>2, <3>1, <3>2, <3>3, <3>4 DEF SweepInv
  <2>4. CASE s = x
    <3>1. LeftInv(q, x) /\ \A c \in Codes : <<x, c>> \notin sweep[q].found
      BY <1>1, <2>2, <2>4 DEF SweepInv
    <3>2. \A c \in Codes : <<x, c>> \in sweep'[q].found <=> Condition(x, row, c, now)
      BY <1>2, <1>5, <3>1
    <3>3. ASSUME NEW c \in Codes PROVE ViewedInv(q, x, c)'
      <4>1. CASE Behind(x, c)
        BY <2>1, <2>4, <4>1 DEF ViewedInv
      <4>2. CASE ~Behind(x, c)
        <5>1. row = RowOf(x) /\ listed[x] /\ (Missed(x, c, now) => Behind(x, c))
          BY <3>1, <4>2 DEF LeftInv, row, now
        <5>2. Condition(x, row, c, now) <=> Sees(x, c, now)
          BY <5>1 DEF Sees
        <5>3. Sees(x, c, now) => Holds(x, c)
          BY <1>7, <2>2, <5>1 DEF Sees, Holds, Condition, RowOf
        <5>4. Holds(x, c) => alert[<<x, c>>] = "active" \/ Behind(x, c)
          BY <1>8 DEF RowsInv, AlertInv
        <5> QED
          BY <1>4, <2>1, <2>4, <3>2, <5>1, <5>2, <5>3, <5>4 DEF ViewedInv, Missed
      <4> QED
        BY <4>1, <4>2
    <3> QED
      BY <1>2, <1>3, <1>4, <2>2, <2>4, <3>3 DEF SweepInv
  <2> QED
    BY <2>3, <2>4
<1> QED
  BY <1>1, <1>2, <1>8, OtherSweeps

\* The only sweep in flight counts what is behind and leaves active what it found.
LEMMA WriteKeepsEpisodes ==
  ASSUME TypeOK, EpisodesInv, NEW q \in Sweeps, SweepWrite(q)
  PROVE  EpisodesInv'
<1> SUFFICES ASSUME ~overlapped' PROVE RowsInv' /\ SweepsInv'
  BY DEF EpisodesInv
<1>1. ~overlapped /\ \A p \in Sweeps : sweep'[p] = Idle
  BY DEF SweepWrite, SweepEnds, TypeOK
<1>2. SweepsInv'
  BY <1>1 DEF SweepsInv, SweepInv, Idle
<1>3. RowsInv /\ SweepsInv
  BY <1>1 DEF EpisodesInv
<1>4. UNCHANGED <<clock, rows, episodes, slipped>> /\ sweep[q].step = "read"
      /\ DOMAIN sweep[q].left = {}
      /\ ReconcileAlertEvents(sweep[q].found, {"agent_registry"})
  BY DEF SweepWrite
<1>5. ASSUME NEW s \in Sessions, NEW c \in Codes PROVE AlertInv(s, c)'
  <2> DEFINE f == <<s, c>>
             owed == episodes[f] + slipped[s]
  <2>1. Holds(s, c)' <=> Holds(s, c)
    BY <1>4, SameRows DEF rows
  <2>2. /\ occurrences[f] \in Nat /\ owed \in Nat /\ owed' = owed
        /\ occurrences'[f] = IF f \in sweep[q].found /\ alert[f] # "active"
                             THEN occurrences[f] + 1 ELSE occurrences[f]
    BY <1>4, RegistryIsApart, CountsAreNat DEF ReconcileAlertEvents, Counts
  <2>3. alert'[f] = "active" <=> f \in sweep[q].found
    BY <1>4, RegistryIsApart, ReconcileIsExact DEF TypeOK
  <2>4. ViewedInv(q, s, c) /\ AlertInv(s, c)
    BY <1>3, <1>4 DEF SweepsInv, SweepInv, RowsInv
  <2>5. /\ occurrences[f] <= owed
        /\ Behind(s, c) <=> occurrences[f] < owed
        /\ Behind(s, c)' <=> occurrences'[f] < owed'
        /\ AlertInv(s, c)' <=> /\ occurrences'[f] <= owed'
                               /\ Holds(s, c)' => alert'[f] = "active" \/ Behind(s, c)'
    BY <2>4 DEF Behind, AlertInv
  <2>6. /\ f \in sweep[q].found => alert[f] = "active" \/ Behind(s, c)
        /\ (Holds(s, c) /\ f \notin sweep[q].found) => Behind(s, c)
    BY <2>4 DEF ViewedInv
  <2> HIDE DEF f, owed
  <2> QED
    BY <2>1, <2>2, <2>3, <2>5, <2>6
<1>6. RowsInv'
  BY <1>5 DEF RowsInv
<1> QED
  BY <1>2, <1>6

LEMMA NextEpisodes ==
  ASSUME IsFiniteSet(Sessions), Cardinality(Sessions) <= Limit,
         TypeOK, TypeOK', EpisodesInv, [Next]_vars
  PROVE  EpisodesInv'
<1>1. CASE UNCHANGED vars
  <2>1. /\ UNCHANGED <<clock, status, listed, seen, changed, sweep, episodes, slipped, overlapped>>
        /\ alert' = alert /\ occurrences' = occurrences
    BY <1>1 DEF vars, rows, alertVars
  <2> QED
    BY <2>1, SameAlerts, SameSweep DEF EpisodesInv, SweepsInv
<1>2. CASE Tick
  BY <1>2, TickCounts, CountingKeepsEpisodes DEF Tick
<1>3. ASSUME NEW s \in Sessions, NEW st \in Statuses, Report(s, st) PROVE EpisodesInv'
  BY <1>3, ReportCounts, CountingKeepsEpisodes DEF Report
<1>4. ASSUME NEW s \in Sessions, NEW archived \in BOOLEAN, SetArchived(s, archived)
      PROVE  EpisodesInv'
  BY <1>4, SetArchivedCounts, CountingKeepsEpisodes DEF SetArchived
<1>5. ASSUME NEW q \in Sweeps, Sweep(q) PROVE EpisodesInv'
  BY <1>5, BeginKeepsEpisodes, ReadKeepsEpisodes, ViewKeepsEpisodes, WriteKeepsEpisodes DEF Sweep
<1> QED
  BY <1>1, <1>2, <1>3, <1>4, <1>5, CollectorKeepsEpisodes DEF Next

\* While a sweep reads all the sessions there are, the table counts an outage
\* twice only if two sweeps overlapped or the session's row changed behind the
\* back of one, and then once per change.
THEOREM OccurrencesCountEpisodes ==
  ASSUME IsFiniteSet(Sessions), Cardinality(Sessions) <= Limit
  PROVE  Spec => []OccurrencesAreEpisodes
<1>1. Init => EpisodesInv
  <2> SUFFICES ASSUME Init PROVE RowsInv /\ SweepsInv
    BY DEF EpisodesInv
  <2>1. ASSUME NEW s \in Sessions, NEW c \in Codes PROVE AlertInv(s, c)
    <3>1. <<s, c>> \in Fingerprints
      BY SourcesDiffer
    <3>2. /\ occurrences[<<s, c>>] = 0 /\ episodes[<<s, c>>] = 0 /\ slipped[s] = 0
          /\ ~listed[s]
      BY <3>1 DEF Init, AlertsInit
    <3>3. ~Holds(s, c)
      BY <3>2 DEF Holds
    <3> QED
      BY <3>2, <3>3 DEF AlertInv
  <2> QED
    BY <2>1 DEF Init, RowsInv, SweepsInv, SweepInv, Idle
<1>2. TypeOK /\ TypeOK' /\ EpisodesInv /\ [Next]_vars => EpisodesInv'
  BY NextEpisodes
<1>3. TypeOK /\ EpisodesInv => OccurrencesAreEpisodes
  <2> SUFFICES ASSUME TypeOK, EpisodesInv, NEW f \in Fingerprints \ Others, ~overlapped
               PROVE  ~(occurrences[f] > episodes[f] + slipped[f[1]])
    BY DEF OccurrencesAreEpisodes
  <2>1. PICK s \in Sessions, c \in Codes : f = <<s, c>>
    BY RegistryIsApart
  <2>2. /\ occurrences[f] <= episodes[f] + slipped[s] /\ occurrences[f] \in Nat
        /\ episodes[f] \in Nat /\ slipped[s] \in Nat /\ f[1] = s
    BY <2>1, CountsAreNat DEF EpisodesInv, RowsInv, AlertInv
  <2> QED
    BY <2>2
<1> QED
  BY <1>1, <1>2, <1>3, AlertsTypeCorrect, PTL DEF Spec
=============================================================================
