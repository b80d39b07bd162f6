-------------------------- MODULE DiscoveryProofs --------------------------
(***************************************************************************)
(* Proofs about Discovery, for every set of sessions and targets, and for  *)
(* every pair of intervals after which a session is lost and a source is   *)
(* stale.                                                                  *)
(***************************************************************************)
EXTENDS Discovery, TLAPS

-----------------------------------------------------------------------------
(* The invariant.                                                          *)

\* What codex alone goes through, and what there is to observe.
StepsInv ==
  /\ \A x \in Sources : listed[x] \subseteq SessionsOf[x]
  /\ step \in {"listing", "observing", "failing", "asleep"} => src = "codex"
  /\ step = "observing" => \A k \in todo \cap Carried : listing[k] \in Targets

TypeInv == TypeOK /\ StepsInv

\* The scan of codex in progress has registered this session.
Registered(s) ==
  /\ src = "codex"
  /\ s \in scan
  /\ \/ step = "registering" /\ s \notin todo
     \/ step \in {"listing", "observing", "reporting"}

\* What this scan has registered is no older than the scan, and what the newest
\* good scan has registered was no older than that scan when it was reported.
AgesInv ==
  \A s \in Codex :
    /\ Registered(s) => age[s] <= took
    /\ s \in good.scan /\ report["codex"].result # "error"
         => \/ age[s] <= report["codex"].age + good.took
            \/ report["codex"].age = Old

-----------------------------------------------------------------------------
(* Ages.                                                                   *)

\* Both intervals are below the ages that are told apart.
LEMMA OldBounds ==
  /\ Old \in Nat \ {0} /\ Unseen \in Nat /\ Unseen = Old + 1
  /\ LostAfter \in Nat /\ StaleAfter \in Nat /\ LostAfter < Old /\ StaleAfter < Old
BY DiscoveryAssumption DEF Old, Unseen

\* Growing older is monotone and stops at Old.
LEMMA OlderGrows ==
  ASSUME NEW m \in 0..Old, NEW n \in 0..Old
  PROVE  /\ Older(n) \in 0..Old /\ n <= Older(n)
         /\ m <= n => Older(m) <= Older(n)
         /\ Older(n) = Old \/ Older(n) = n + 1
         /\ Older(m) <= m + 1
BY OldBounds DEF Older

LEMMA SourcesAreFound ==
  ASSUME NEW x \in Sources
  PROVE  SessionsOf[x] \subseteq Found /\ SessionsOf["codex"] = Codex /\ "codex" \in Sources
BY DEF Sources, SessionsOf, Found

LEMMA SeenType ==
  ASSUME TypeOK, NEW s \in Found, Seen(s)
  PROVE  /\ age' \in [Found -> 0..Unseen] /\ age'[s] = 0
         /\ \A t \in Found : age'[t] \in {0, age[t]}
BY OldBounds DEF TypeOK, Seen

LEMMA ReportedType ==
  ASSUME TypeOK, NEW x \in Sources, NEW result \in {"ok", "error"}, Reported(x, result)
  PROVE  /\ report' \in [Sources -> [result : {"none", "ok", "error"}, age : 0..Old]]
         /\ report'[x].result = result /\ report'[x].age = 0
         /\ \A y \in Sources \ {x} : report'[y] = report[y]
BY OldBounds DEF TypeOK, Reported

LEMMA PassesType ==
  ASSUME TypeOK, Passes
  PROVE  /\ age' \in [Found -> 0..Unseen]
         /\ report' \in [Sources -> [result : {"none", "ok", "error"}, age : 0..Old]]
         /\ \A s \in Found : age'[s] = age[s] \/ (age[s] # Unseen /\ age'[s] = Older(age[s]))
         /\ \A x \in Sources : /\ report'[x].result = report[x].result
                               /\ report'[x].age = Older(report[x].age)
<1>1. \A n \in 0..Old : Older(n) \in 0..Old
  BY OldBounds DEF Older
<1>2. \A s \in Found : age[s] \in 0..Unseen /\ (age[s] # Unseen => age[s] \in 0..Old)
  <2>1. \A s \in Found : age[s] \in 0..Unseen
    BY DEF TypeOK
  <2> QED
    BY <2>1, OldBounds
<1>3. 0..Old \subseteq 0..Unseen
  BY OldBounds
<1>4. \A s \in Found :
        age'[s] = IF s \in Codex /\ age[s] # Unseen THEN Older(age[s]) ELSE age[s]
  BY DEF Passes
<1>5. age' \in [Found -> 0..Unseen]
  <2>1. age' = [s \in Found |->
                  IF s \in Codex /\ age[s] # Unseen THEN Older(age[s]) ELSE age[s]]
    BY DEF Passes
  <2> QED
    BY <1>1, <1>2, <1>3, <2>1
<1>6. \A x \in Sources : /\ report[x] \in [result : {"none", "ok", "error"}, age : 0..Old]
                         /\ report'[x] = [report[x] EXCEPT !.age = Older(@)]
  BY DEF Passes, TypeOK
<1>7. ASSUME NEW x \in Sources
      PROVE  /\ report'[x].result = report[x].result
             /\ report'[x].age = Older(report[x].age)
             /\ report'[x] \in [result : {"none", "ok", "error"}, age : 0..Old]
  <2>1. /\ report[x] \in [result : {"none", "ok", "error"}, age : 0..Old]
        /\ report'[x] = [report[x] EXCEPT !.age = Older(report[x].age)]
    BY <1>6
  <2>2. Older(report[x].age) \in 0..Old
    BY <1>1, <2>1
  <2> QED
    BY <2>1, <2>2
<1>8. report' \in [Sources -> [result : {"none", "ok", "error"}, age : 0..Old]]
  <2>1. report' = [x \in Sources |-> [report[x] EXCEPT !.age = Older(@)]]
    BY DEF Passes
  <2> QED
    BY <1>7, <2>1
<1> QED
  BY <1>4, <1>5, <1>7, <1>8

-----------------------------------------------------------------------------
(* The types.                                                              *)

LEMMA InitTypeInv == Init => TypeInv
<1> SUFFICES ASSUME Init PROVE TypeInv
  OBVIOUS
<1>1. carrier \in [Carried -> [target : Targets \cup {NoTarget}, status : {"unknown"} \cup Sights]]
  BY DEF Init, NoCarrier
<1>2. report \in [Sources -> [result : {"none", "ok", "error"}, age : 0..Old]]
  BY OldBounds DEF Init
<1>3. age \in [Found -> 0..Unseen] /\ took \in 0..Old /\ good \in [scan : SUBSET Codex, took : 0..Old]
  BY OldBounds DEF Init
<1>4. faults \in 0..MaxFaults /\ changes \in 0..MaxChanges
  BY DiscoveryAssumption DEF Init
<1>5. StepsInv
  BY DEF Init, StepsInv
<1> QED
  BY <1>1, <1>2, <1>3, <1>4, <1>5 DEF Init, TypeInv, TypeOK, Steps, Sources

\* One more fault or change stays within the bound.
LEMMA FaultType ==
  ASSUME TypeOK, Fault \/ UNCHANGED faults
  PROVE  faults' \in 0..MaxFaults
BY DiscoveryAssumption DEF TypeOK, Fault

LEMMA LoadCodexType ==
  ASSUME TypeInv, LoadCodex \/ LoadCodexFails
  PROVE  TypeInv'
<1>1. TypeOK /\ faults' \in 0..MaxFaults
  BY FaultType DEF TypeInv, LoadCodex, LoadCodexFails
<1>2. CASE LoadCodex
  <2>1. PICK found \in {listed["codex"], Index} : todo' = found /\ scan' = found
    BY <1>2 DEF LoadCodex
  <2>2. found \subseteq Codex /\ Codex \subseteq Found
    BY SourcesAreFound, DiscoveryAssumption DEF TypeInv, StepsInv, Found, Sources
  <2>3. took' = 0 /\ 0 \in 0..Old
    BY <1>2, OldBounds DEF LoadCodex
  <2> QED
    BY <1>1, <1>2, <2>1, <2>2, <2>3
       DEF TypeInv, TypeOK, StepsInv, LoadCodex, Goes, Steps, external, Sources
<1>3. CASE LoadCodexFails
  BY <1>1, <1>3 DEF TypeInv, TypeOK, StepsInv, LoadCodexFails, Goes, Steps, external, history
<1> QED
  BY <1>2, <1>3

LEMMA RegisterType ==
  ASSUME TypeInv, NEW s \in Found, RegisterCodex(s) \/ RegisterHermes(s)
  PROVE  TypeInv'
<1>1. TypeOK /\ faults' \in 0..MaxFaults
  BY FaultType DEF TypeInv, RegisterCodex, RegisterHermes, Answered, Failed
<1>2. age' \in [Found -> 0..Unseen]
  <2>1. Seen(s) \/ UNCHANGED age
    BY DEF RegisterCodex, RegisterHermes, Answered, Failed
  <2> QED
    BY <1>1, <2>1, SeenType DEF TypeOK
<1>3. CASE RegisterCodex(s)
  <2>1. /\ UNCHANGED <<external, carrier, report, src, listing, outcome, changes, history>>
        /\ todo' \subseteq todo /\ step' \in {"listing", "registering", "failing"} /\ src = "codex"
    BY <1>3 DEF RegisterCodex, Goes
  <2> QED
    BY <1>1, <1>2, <2>1 DEF TypeInv, TypeOK, StepsInv, Steps, external, history
<1>4. CASE RegisterHermes(s)
  <2>1. /\ UNCHANGED <<external, carrier, report, src, listing, changes, history>>
        /\ todo' \subseteq todo /\ step' \in {"registering", "reporting"}
        /\ outcome' \in {"ok", "error"}
    BY <1>1, <1>4 DEF RegisterHermes, Goes, TypeOK
  <2> QED
    BY <1>1, <1>2, <2>1 DEF TypeInv, TypeOK, StepsInv, Steps, external, history
<1> QED
  BY <1>3, <1>4

LEMMA ListSessionsType ==
  ASSUME TypeInv, ListSessions
  PROVE  TypeInv'
<1>1. TypeOK /\ faults' \in 0..MaxFaults
  BY FaultType DEF TypeInv, ListSessions
<1>2. /\ UNCHANGED <<external, carrier, age, report, src, outcome, changes, history>>
      /\ src = "codex"
      /\ \/ /\ listing' = entry /\ todo' = {k \in Carried \ archived : entry[k] # NoTarget}
            /\ step' \in {"reporting", "observing"}
         \/ UNCHANGED <<listing, todo>> /\ step' = "failing"
  BY DEF TypeInv, StepsInv, ListSessions, Goes
<1>3. listing' \in [Carried -> Targets \cup {NoTarget}] /\ todo' \subseteq Found \cup Carried
  BY <1>1, <1>2 DEF TypeOK
<1>4. step' = "observing" => \A k \in todo' \cap Carried : listing'[k] \in Targets
  BY <1>1, <1>2 DEF TypeOK
<1> QED
  BY <1>1, <1>2, <1>3, <1>4 DEF TypeInv, TypeOK, StepsInv, Steps, external, history

LEMMA ObserveType ==
  ASSUME TypeInv, NEW k \in Carried, Observe(k)
  PROVE  TypeInv'
<1>1. TypeOK /\ faults' \in 0..MaxFaults
  BY FaultType DEF TypeInv, Observe, Answered, Failed
<1>2. /\ UNCHANGED <<external, age, report, src, listing, outcome, changes, history>>
      /\ todo' \subseteq todo /\ step' \in {"observing", "reporting", "failing"}
      /\ src = "codex" /\ listing[k] \in Targets /\ step = "observing"
  BY DEF TypeInv, StepsInv, Observe, Goes
<1>3. Observed(k) \/ UNCHANGED carrier
  BY DEF Observe, Answered, Failed
<1>4. Observation(listing[k]) \in [target : Targets \cup {NoTarget}, status : {"unknown"} \cup Sights]
  BY <1>1, <1>2 DEF TypeOK, Observation
<1>5. carrier' \in [Carried -> [target : Targets \cup {NoTarget}, status : {"unknown"} \cup Sights]]
  BY <1>1, <1>3, <1>4 DEF TypeOK, Observed
<1> QED
  BY <1>1, <1>2, <1>5 DEF TypeInv, TypeOK, StepsInv, Steps, external, history

LEMMA ReportType ==
  ASSUME TypeInv, ReportCodex \/ ReportHermes \/ ReportFailure
  PROVE  TypeInv'
<1>1. TypeOK /\ faults' \in 0..MaxFaults
  BY FaultType DEF TypeInv, ReportCodex, ReportHermes, ReportFailure, Answered, Failed
<1>2. report' \in [Sources -> [result : {"none", "ok", "error"}, age : 0..Old]]
  <2>1. \/ UNCHANGED report
        \/ \E x \in Sources, result \in {"ok", "error"} : Reported(x, result)
    BY <1>1 DEF ReportCodex, ReportHermes, ReportFailure, Answered, Failed, Sources, TypeOK
  <2> QED
    BY <1>1, <2>1, ReportedType DEF TypeOK
<1>3. good' \in [scan : SUBSET Codex, took : 0..Old]
  BY <1>1 DEF TypeOK, ReportCodex, ReportHermes, ReportFailure, history
<1>4. /\ UNCHANGED <<external, carrier, age, todo, listing, outcome, changes, scan, took>>
      /\ src' \in Sources /\ step' \in {"loading", "failing", "exited", "asleep"}
      /\ step' \in {"failing", "asleep"} => src' = "codex"
  BY <1>1 DEF ReportCodex, ReportHermes, ReportFailure, ReportLost, NextSource, Goes, history,
     Sources, TypeOK
<1> QED
  BY <1>1, <1>2, <1>3, <1>4 DEF TypeInv, TypeOK, StepsInv, Steps, external

LEMMA LoadHermesType ==
  ASSUME TypeInv, LoadHermes
  PROVE  TypeInv'
<1>1. TypeOK /\ faults' \in 0..MaxFaults
  BY FaultType DEF TypeInv, LoadHermes
<1>2. /\ UNCHANGED <<external, carrier, age, report, src, listing, changes, history>>
      /\ todo' \in {todo, listed[src]} /\ step' \in {"reporting", "registering"}
      /\ outcome' \in {"ok", "error"}
  BY DEF LoadHermes, Goes
<1>3. todo' \subseteq Found \cup Carried
  BY <1>1, <1>2 DEF TypeOK
<1> QED
  BY <1>1, <1>2, <1>3 DEF TypeInv, TypeOK, StepsInv, Steps, external, history

LEMMA TimeType ==
  ASSUME TypeInv, Sleep \/ Slow \/ Crash \/ Systemd
  PROVE  TypeInv'
<1>1. TypeOK /\ faults' \in 0..MaxFaults
  BY FaultType DEF TypeInv, Sleep, Slow, Crash, Systemd
<1>2. Passes \/ UNCHANGED <<age, report>>
  BY DEF Sleep, Slow, Crash, Systemd, Restart
<1>3. /\ age' \in [Found -> 0..Unseen]
      /\ report' \in [Sources -> [result : {"none", "ok", "error"}, age : 0..Old]]
  BY <1>1, <1>2, PassesType DEF TypeOK
<1>4. took' \in 0..Old
  BY <1>1, OlderGrows DEF TypeOK, Sleep, Slow, Crash, Systemd, history
<1>5. /\ UNCHANGED <<external, carrier, listing, outcome, changes, scan, good>>
      /\ todo' \subseteq todo
      /\ \/ step' = step /\ src' = src /\ todo' = todo
         \/ step' \in {"loading", "exited"} /\ src' \in {src, "codex"}
  BY DEF Sleep, Slow, Crash, Systemd, Restart, Goes, watcher, history
<1> QED
  BY <1>1, <1>3, <1>4, <1>5 DEF TypeInv, TypeOK, StepsInv, Steps, Sources, external

LEMMA ChangesType ==
  ASSUME TypeInv, Changes
  PROVE  TypeInv'
<1>1. TypeOK /\ changes' \in 0..MaxChanges
  BY DiscoveryAssumption DEF TypeInv, TypeOK, Changes
<1>2. UNCHANGED <<carrier, age, report, watcher, faults, history>>
  BY DEF Changes
<1>3. /\ listed' \in [Sources -> SUBSET Found]
      /\ \A x \in Sources : listed'[x] \subseteq SessionsOf[x]
  <2>1. ASSUME NEW x \in Sources, NEW found \in SUBSET SessionsOf[x],
               listed' = [listed EXCEPT ![x] = found]
        PROVE  /\ listed' \in [Sources -> SUBSET Found]
               /\ \A y \in Sources : listed'[y] \subseteq SessionsOf[y]
    BY <1>1, <2>1, SourcesAreFound DEF TypeInv, TypeOK, StepsInv
  <2> QED
    BY <1>1, <2>1 DEF Changes, Reregister, Archives, TypeInv, TypeOK, StepsInv
<1>4. /\ sight' \in [Targets -> Sights]
      /\ entry' \in [Carried -> Targets \cup {NoTarget}]
      /\ archived' \subseteq Carried
  BY <1>1 DEF Changes, Reregister, Archives, TypeOK
<1> QED
  BY <1>1, <1>2, <1>3, <1>4 DEF TypeInv, TypeOK, StepsInv, watcher, history

LEMMA NextTypeInv == TypeInv /\ [Next]_vars => TypeInv'
<1>1. ASSUME TypeInv, UNCHANGED vars PROVE TypeInv'
  BY <1>1 DEF vars, external, watcher, history, TypeInv, TypeOK, StepsInv
<1> QED
  BY <1>1, LoadCodexType, RegisterType, ListSessionsType, ObserveType, ReportType,
     LoadHermesType, TimeType, ChangesType DEF Next, Scan

\* The watcher's variables keep their types.
THEOREM TypeCorrect == Spec => []TypeOK
<1>1. TypeInv => TypeOK
  BY DEF TypeInv
<1> QED
  BY InitTypeInv, NextTypeInv, <1>1, PTL DEF Spec

-----------------------------------------------------------------------------
(* The sources, and the sessions of codex.                                 *)

\* Whoever reports reports on the source it is at; time changes no result.
LEMMA ReportsAtHome ==
  ASSUME TypeInv, [Next]_vars, NEW x \in Sources, report'[x].result # report[x].result
  PROVE  src = x
<1>1. TypeOK
  BY DEF TypeInv
<1>2. ASSUME NEW y \in Sources, NEW result \in {"ok", "error"}, Reported(y, result)
      PROVE  x = y
  BY <1>1, <1>2, ReportedType
<1>3. CASE ReportCodex \/ ReportHermes \/ ReportFailure
  <2>1. Reported(src, "ok") \/ Reported(src, "error") \/ UNCHANGED report
    BY <1>1, <1>3 DEF ReportCodex, ReportHermes, ReportFailure, Answered, Failed, TypeInv,
       TypeOK, StepsInv
  <2> QED
    BY <1>1, <1>2, <2>1 DEF TypeOK
<1>4. CASE Sleep \/ Slow \/ Crash \/ Systemd
  <2>1. Passes \/ UNCHANGED report
    BY <1>4 DEF Sleep, Slow, Crash, Systemd, Restart
  <2> QED
    BY <1>1, <2>1, PassesType
<1>5. CASE \/ LoadCodex \/ LoadCodexFails \/ ListSessions \/ LoadHermes \/ Changes
           \/ \E s \in Found : RegisterCodex(s) \/ RegisterHermes(s)
           \/ \E k \in Carried : Observe(k)
           \/ UNCHANGED vars
  BY <1>5 DEF LoadCodex, LoadCodexFails, ListSessions, LoadHermes, Changes, RegisterCodex,
     RegisterHermes, Observe, vars
<1> QED
  BY <1>3, <1>4, <1>5 DEF Next, Scan

\* Whatever fails: a source is given a result only while it is scanned.
THEOREM FailuresAreAtHome == Spec => FailuresStayAtHome
<1>1. TypeInv /\ [Next]_vars
        => [\A x \in Sources : report'[x].result # report[x].result => src = x]_vars
  BY ReportsAtHome
<1> QED
  BY InitTypeInv, NextTypeInv, <1>1, PTL DEF Spec, FailuresStayAtHome

\* Time: the ages, the scan and the report grow older together.
LEMMA PassesKeepsAges ==
  ASSUME TypeInv, AgesInv, Passes, took' = took \/ took' = Older(took), UNCHANGED good,
         \A s \in Codex : Registered(s)' => Registered(s) /\ took' = Older(took)
  PROVE  AgesInv'
<1>1. TypeOK /\ Codex \subseteq Found /\ "codex" \in Sources
  BY DEF TypeInv, Found, Sources
<1>2. /\ \A s \in Found : age'[s] = age[s] \/ (age[s] # Unseen /\ age'[s] = Older(age[s]))
      /\ report'["codex"].result = report["codex"].result
      /\ report'["codex"].age = Older(report["codex"].age)
  BY <1>1, PassesType
<1>3. /\ report["codex"].age \in 0..Old /\ took \in 0..Old /\ good.took \in 0..Old
      /\ \A s \in Found : age[s] \in 0..Unseen
  BY <1>1 DEF TypeOK
<1> SUFFICES ASSUME NEW s \in Codex
             PROVE  /\ Registered(s)' => age'[s] <= took'
                    /\ s \in good.scan /\ report'["codex"].result # "error"
                         => \/ age'[s] <= report'["codex"].age + good.took
                            \/ report'["codex"].age = Old
  BY DEF AgesInv
<1>4. /\ age'[s] = age[s] \/ (age[s] # Unseen /\ age'[s] = Older(age[s]))
      /\ age[s] \in 0..Unseen /\ (age[s] # Unseen => age[s] \in 0..Old)
  BY <1>1, <1>2, <1>3, OldBounds
<1>5. Registered(s)' => age'[s] <= took'
  <2> SUFFICES ASSUME Registered(s)' PROVE age'[s] <= took'
    OBVIOUS
  <2>1. age[s] <= took /\ took' = Older(took)
    BY DEF AgesInv
  <2>2. age[s] \in 0..Old
    BY <1>3, <1>4, <2>1, OldBounds
  <2>3. Older(age[s]) <= Older(took) /\ took <= Older(took) /\ Older(took) \in 0..Old
    BY <1>3, <2>1, <2>2, OlderGrows
  <2> QED
    BY <1>3, <1>4, <2>1, <2>2, <2>3
<1>6. ASSUME s \in good.scan, report'["codex"].result # "error", report'["codex"].age # Old
      PROVE  age'[s] <= report'["codex"].age + good.took
  <2>1. /\ report'["codex"].age = report["codex"].age + 1 /\ report["codex"].age # Old
    BY <1>2, <1>3, <1>6, OlderGrows, OldBounds DEF Older
  <2>2. age[s] <= report["codex"].age + good.took
    BY <1>2, <1>6, <2>1 DEF AgesInv
  <2>3. age'[s] <= age[s] + 1
    BY <1>3, <1>4, OlderGrows, OldBounds
  <2>4. /\ age'[s] \in Nat /\ age[s] \in Nat
        /\ report["codex"].age \in Nat /\ good.took \in Nat
    BY <1>3, <1>4, OlderGrows, OldBounds
  <2> QED
    BY <2>1, <2>2, <2>3, <2>4
<1> QED
  BY <1>5, <1>6

\* A registration makes a session young, whatever becomes of the scan.
LEMMA RegisterKeepsAges ==
  ASSUME TypeInv, AgesInv, NEW s \in Found, RegisterCodex(s) \/ RegisterHermes(s)
  PROVE  AgesInv'
<1>1. TypeOK /\ Codex \subseteq Found /\ "codex" \in Sources
  BY DEF TypeInv, Found, Sources
<1>2. /\ UNCHANGED <<report, took, good, scan, src>>
      /\ Seen(s) \/ UNCHANGED age
  BY DEF RegisterCodex, RegisterHermes, Answered, Failed, history
<1>3. /\ \A t \in Codex : age'[t] \in {0, age[t]}
      /\ Seen(s) => age'[s] = 0
  BY <1>1, <1>2, SeenType
<1>4. \A t \in Codex : age[t] \in Nat
  BY <1>1, OldBounds DEF TypeOK
<1>5. took \in Nat /\ good.took \in Nat /\ report["codex"].age \in Nat
  BY <1>1, OldBounds DEF TypeOK
<1>6. ASSUME NEW t \in Codex, Registered(t)' PROVE age'[t] <= took
  <2>1. RegisterCodex(s)
    BY <1>2, <1>6 DEF Registered, RegisterHermes
  <2>2. Seen(s) /\ todo' = todo \ {s} /\ step = "registering"
        /\ step' = (IF todo = {s} THEN "listing" ELSE "registering")
    BY <1>6, <2>1 DEF RegisterCodex, Registered, Answered, Failed, Goes
  <2>3. t = s \/ Registered(t)
    BY <1>2, <1>6, <2>2 DEF Registered
  <2> QED
    BY <1>3, <1>4, <1>5, <2>2, <2>3 DEF AgesInv
<1> QED
  BY <1>2, <1>3, <1>4, <1>5, <1>6 DEF AgesInv

\* The steps of a scan that leave ages and reports alone.
LEMMA ScanKeepsAges ==
  ASSUME TypeInv, AgesInv, UNCHANGED <<age, report, took, good>>,
         \A s \in Codex : Registered(s)' => Registered(s)
  PROVE  AgesInv'
BY DEF AgesInv

LEMMA ReportKeepsAges ==
  ASSUME TypeInv, AgesInv, ReportCodex \/ ReportHermes \/ ReportFailure
  PROVE  AgesInv'
<1>1. TypeOK /\ "codex" \in Sources
  BY DEF TypeInv, Sources
<1>2. \A s \in Codex : ~Registered(s)'
  BY <1>1 DEF ReportCodex, ReportHermes, ReportFailure, ReportLost, NextSource, Goes, Registered
<1>3. age' = age /\ took' = took
  BY DEF ReportCodex, ReportHermes, ReportFailure, history
<1>4. CASE report'["codex"] = report["codex"] /\ good' = good
  BY <1>2, <1>3, <1>4 DEF AgesInv
<1>5. CASE ReportCodex /\ ~(report'["codex"] = report["codex"] /\ good' = good)
  <2>1. Reported("codex", "ok") /\ good' = [scan |-> scan, took |-> took] /\ step = "reporting"
        /\ src = "codex"
    BY <1>5 DEF ReportCodex, Answered
  <2>2. report'["codex"].age = 0 /\ took \in Nat
    BY <1>1, <2>1, ReportedType, OldBounds DEF TypeOK
  <2>3. \A s \in scan : Registered(s)
    BY <2>1 DEF Registered
  <2> QED
    BY <1>1, <1>2, <1>3, <2>1, <2>2, <2>3 DEF AgesInv
<1>6. CASE ReportFailure /\ ~(report'["codex"] = report["codex"])
  <2>1. Reported("codex", "error")
    BY <1>6 DEF ReportFailure, Answered
  <2>2. report'["codex"].result = "error"
    BY <1>1, <2>1, ReportedType
  <2> QED
    BY <1>2, <2>2 DEF AgesInv
<1>7. CASE ReportHermes
  <2>1. \/ UNCHANGED report
        \/ \E result \in {"ok", "error"} : Reported(src, result)
    BY <1>1, <1>7 DEF ReportHermes, Answered, Failed, TypeOK
  <2>2. report'["codex"] = report["codex"]
    BY <1>1, <1>7, <2>1, ReportedType DEF ReportHermes, TypeOK
  <2> QED
    BY <1>4, <1>7, <2>2 DEF ReportHermes, history
<1>8. ReportFailure => good' = good
  BY DEF ReportFailure, history
<1> QED
  BY <1>4, <1>5, <1>6, <1>7, <1>8

LEMMA NextAgesInv == TypeInv /\ AgesInv /\ [Next]_vars => AgesInv'
<1> SUFFICES ASSUME TypeInv, AgesInv, [Next]_vars PROVE AgesInv'
  OBVIOUS
<1>1. CASE LoadCodex
  <2>1. /\ UNCHANGED <<age, report, good>> /\ \A s \in Codex : ~Registered(s)'
    BY <1>1 DEF LoadCodex, Registered, Goes
  <2> QED
    BY <2>1 DEF AgesInv
<1>2. CASE LoadCodexFails \/ LoadHermes
  <2>1. UNCHANGED <<age, report, took, good>> /\ \A s \in Codex : ~Registered(s)'
    BY <1>2 DEF LoadCodexFails, LoadHermes, Registered, Goes, history
  <2> QED
    BY <2>1, ScanKeepsAges
<1>3. CASE ListSessions \/ \E k \in Carried : Observe(k)
  <2>1. /\ UNCHANGED <<age, report, src, history>> /\ step \in {"listing", "observing"}
        /\ step' \in {"reporting", "observing", "failing"}
    BY <1>3 DEF ListSessions, Observe, Goes
  <2>2. \A s \in Codex : Registered(s)' => Registered(s)
    BY <2>1 DEF Registered, history
  <2> QED
    BY <2>1, <2>2, ScanKeepsAges DEF history
<1>4. CASE Changes \/ UNCHANGED vars
  <2>1. UNCHANGED <<age, report, watcher, history>>
    BY <1>4 DEF Changes, vars
  <2>2. \A s \in Codex : Registered(s)' => Registered(s)
    BY <2>1 DEF Registered, watcher, history
  <2> QED
    BY <2>1, <2>2, ScanKeepsAges DEF history
<1>5. CASE Slow
  <2>1. /\ Passes /\ took' = Older(took) /\ UNCHANGED <<watcher, scan, good>>
    BY <1>5 DEF Slow
  <2>2. \A s \in Codex : Registered(s)' => Registered(s)
    BY <2>1 DEF Registered, watcher
  <2> QED
    BY <2>1, <2>2, PassesKeepsAges
<1>6. CASE Sleep \/ Crash \/ Systemd
  <2>1. /\ UNCHANGED history /\ step' \in {"loading", "exited"}
        /\ Passes \/ UNCHANGED <<age, report>>
    BY <1>6 DEF Sleep, Crash, Systemd, Restart, Goes
  <2>2. \A s \in Codex : ~Registered(s)'
    BY <2>1 DEF Registered
  <2> QED
    BY <2>1, <2>2, PassesKeepsAges, ScanKeepsAges DEF history
<1> QED
  BY <1>1, <1>2, <1>3, <1>4, <1>5, <1>6, RegisterKeepsAges, ReportKeepsAges DEF Next, Scan

LEMMA AgesAreEnough == TypeInv /\ AgesInv => LostSessionsWereNotFound
<1> SUFFICES ASSUME TypeInv, AgesInv, NEW s \in good.scan, Lost(s), StateOf("codex") = "running"
             PROVE  report["codex"].age + good.took > LostAfter
  BY DEF LostSessionsWereNotFound
<1>1. /\ s \in Codex /\ s \in Found /\ report["codex"].age \in Nat /\ good.took \in Nat
      /\ age[s] \in Nat
  BY OldBounds DEF TypeInv, TypeOK, Found, Sources
<1>2. report["codex"].result # "error" /\ ~(report["codex"].age > StaleAfter)
  BY DEF StateOf
<1>3. report["codex"].age # Old
  BY <1>1, <1>2, OldBounds
<1>4. age[s] <= report["codex"].age + good.took
  BY <1>1, <1>2, <1>3 DEF AgesInv
<1> QED
  BY <1>1, <1>4, OldBounds DEF Lost

\* Whatever the two limits: while codex-local is shown running, a session that
\* its newest good scan found is shown as lost only for the time that scan took.
THEOREM LostWereNotFound == Spec => []LostSessionsWereNotFound
<1>1. Init => AgesInv
  BY DEF Init, AgesInv, Registered
<1> QED
  BY InitTypeInv, NextTypeInv, NextAgesInv, AgesAreEnough, <1>1, PTL DEF Spec
=============================================================================
