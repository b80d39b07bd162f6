-------------------------- MODULE TurnRelayProofs --------------------------
(***************************************************************************)
(* Proofs about TurnRelay, for every number of runs and pages, and however *)
(* often processes restart and links break.                                *)
(***************************************************************************)
EXTENDS TurnRelay, TLAPS

USE DEF Pages

-----------------------------------------------------------------------------
(* The types, by what they are about, and what a page's source, stream and *)
(* pipe have to do with the run it follows.                                *)

RunTypes ==
  /\ status \in [Runs -> {"none", "running"} \cup Ends]
  /\ events \in [Runs -> Seq(Told)]
  /\ known \subseteq Runs
  /\ slot \in Runs \cup {NoRun}
  /\ failing \subseteq Runs
  /\ robbed \subseteq Runs
  /\ op \in [Runs -> {"none", "running"} \cup Outcomes]
  /\ broke \subseteq Runs

LinkTypes ==
  /\ streamRun \in [Pages -> Runs \cup {NoRun}]
  /\ link \in [Pages -> {"off", "open", "ended"}]
  /\ cursor \in [Pages -> Nat]
  /\ dropped \in [Pages -> Nat]
  /\ pipe \in [Pages -> Told \cup {"none"}]

PageTypes ==
  /\ shown \in [Pages -> BOOLEAN]
  /\ stored \in [Pages -> Runs \cup {NoRun}]
  /\ current \in [Pages -> Runs \cup {NoRun}]
  /\ source \in [Pages -> {"none", "opening", "open", "broken"}]
  /\ checks \in [Pages -> SUBSET Runs]
  /\ told \in [Pages -> SUBSET Runs]

StartTypes == start \in [Pages -> Starts]
Bounded == disturbances \in 0..MaxDisturbances

\* A page with a source or something in the pipe follows a run, and its open
\* source relays that run.  The buffer goes with the relay.
LinksInv ==
  \A p \in Pages :
    /\ source[p] # "none" \/ pipe[p] # "none" => current[p] \in Runs
    /\ source[p] = "open" => link[p] = "open" /\ streamRun[p] = current[p]
    /\ link[p] = "off" => dropped[p] = 0

\* A start has a run from the moment the bridge accepts it, and one that will be
\* answered to the page as it was finds it following nothing.
StartsInv ==
  \A p \in Pages :
    /\ start[p].step \in {"accepted", "recorded"} <=> start[p].run \in Runs
    /\ start[p].step # "idle" /\ start[p].page = "fresh" => current[p] = NoRun

Types == RunTypes /\ LinkTypes /\ PageTypes /\ StartTypes /\ Bounded
TypeInv == Types /\ LinksInv /\ StartsInv

\* The parts are the type invariant of the runs.
LEMMA TypesAreTypeOK == Types <=> TypeOK
BY DEF Types, TypeOK, RunTypes, LinkTypes, PageTypes, StartTypes, Bounded

\* The bound on disturbances is kept.
LEMMA DisturbType ==
  ASSUME Bounded, Disturb \/ UNCHANGED disturbances
  PROVE  Bounded'
BY RelayAssumption DEF Bounded, Disturb

\* An UPDATE of one row.
LEMMA RecordType ==
  ASSUME RunTypes, NEW r \in Runs, NEW outcome \in {"none", "running"} \cup Outcomes, Record(r, outcome)
  PROVE  /\ op' \in [Runs -> {"none", "running"} \cup Outcomes]
         /\ op'[r] = IF op[r] = "none" THEN "none" ELSE outcome
         /\ \A q \in Runs \ {r} : op'[q] = op[q]
BY DEF RunTypes, Record

\* What is written is found in the buffer, or was there.
LEMMA OutcomeCases ==
  ASSUME NEW p, NEW n, NEW r
  PROVE  Outcome(p, n, r) = op[r] \/ Outcome(p, n, r) \in Buffer(p, n) \cap Outcomes
BY DEF Outcome, Outcomes

\* A search of the buffer writes one row and lets the oldest events go.
LEMMA SearchesType ==
  ASSUME RunTypes, LinkTypes, NEW p \in Pages, NEW n \in Nat, streamRun[p] \in Runs, Searches(p, n)
  PROVE  /\ op' \in [Runs -> {"none", "running"} \cup Outcomes]
         /\ op'[streamRun[p]] = IF op[streamRun[p]] = "none" THEN "none"
                               ELSE Outcome(p, n, streamRun[p])
         /\ \A q \in Runs \ {streamRun[p]} : op'[q] = op[q]
         /\ dropped' \in [Pages -> Nat] /\ dropped'[p] \in dropped[p]..n
         /\ \A q \in Pages \ {p} : dropped'[q] = dropped[q]
<1> DEFINE r == streamRun[p]
           outcome == Outcome(p, n, r)
<1>1. op[r] \in {"none", "running"} \cup Outcomes
  BY DEF RunTypes
<1>2. Record(r, outcome) /\ outcome \in {"none", "running"} \cup Outcomes
  BY <1>1, OutcomeCases DEF Searches
<1>3. PICK gone \in dropped[p]..n : dropped' = [dropped EXCEPT ![p] = gone]
  BY DEF Searches
<1>4. dropped \in [Pages -> Nat] /\ gone \in Nat
  BY <1>3 DEF LinkTypes
<1>5. /\ dropped' \in [Pages -> Nat] /\ dropped'[p] \in dropped[p]..n
      /\ \A q \in Pages \ {p} : dropped'[q] = dropped[q]
  BY <1>3, <1>4
<1> HIDE DEF outcome
<1>6. /\ op' \in [Runs -> {"none", "running"} \cup Outcomes]
      /\ op'[r] = IF op[r] = "none" THEN "none" ELSE outcome
      /\ \A q \in Runs \ {r} : op'[q] = op[q]
  BY <1>2, RecordType
<1> QED
  BY <1>5, <1>6 DEF outcome

\* A relay that is over, and its buffer.
LEMMA RelayOverType ==
  ASSUME LinkTypes, NEW p \in Pages, RelayOver(p)
  PROVE  /\ streamRun' \in [Pages -> Runs \cup {NoRun}]
         /\ link' \in [Pages -> {"off", "open", "ended"}]
         /\ cursor' \in [Pages -> Nat]
         /\ dropped' \in [Pages -> Nat]
         /\ link'[p] = "off" /\ dropped'[p] = 0
         /\ \A q \in Pages \ {p} : /\ link'[q] = link[q] /\ streamRun'[q] = streamRun[q]
                                   /\ cursor'[q] = cursor[q] /\ dropped'[q] = dropped[q]
         /\ UNCHANGED runVars
BY DEF LinkTypes, RelayOver, Leave

\* A closed source takes its relay and the pipe with it.
LEMMA CloseSourceType ==
  ASSUME LinkTypes, PageTypes, NEW p \in Pages, CloseSource(p)
  PROVE  /\ LinkTypes'
         /\ source' \in [Pages -> {"none", "opening", "open", "broken"}]
         /\ link'[p] = "off" /\ dropped'[p] = 0 /\ source'[p] = "none" /\ pipe'[p] = "none"
         /\ \A q \in Pages \ {p} : /\ link'[q] = link[q] /\ streamRun'[q] = streamRun[q]
                                   /\ cursor'[q] = cursor[q] /\ dropped'[q] = dropped[q]
                                   /\ source'[q] = source[q] /\ pipe'[q] = pipe[q]
         /\ UNCHANGED runVars
<1>1. /\ pipe' \in [Pages -> Told \cup {"none"}] /\ pipe'[p] = "none"
      /\ \A q \in Pages \ {p} : pipe'[q] = pipe[q]
  BY DEF LinkTypes, CloseSource
<1>2. /\ source' \in [Pages -> {"none", "opening", "open", "broken"}] /\ source'[p] = "none"
      /\ \A q \in Pages \ {p} : source'[q] = source[q]
  BY DEF PageTypes, CloseSource
<1> QED
  BY <1>1, <1>2, RelayOverType DEF CloseSource, LinkTypes

\* A run is let go: the page keeps everything, or follows nothing any more.
LEMMA LetGoPages ==
  ASSUME PageTypes, NEW p \in Pages, NEW r, LetGo(p, r)
  PROVE  /\ stored' \in [Pages -> Runs \cup {NoRun}]
         /\ current' \in [Pages -> Runs \cup {NoRun}]
         /\ \A q \in Pages \ {p} : stored'[q] = stored[q] /\ current'[q] = current[q]
         /\ stored'[p] = IF stored[p] = r THEN NoRun ELSE stored[p]
         /\ current'[p] = IF shown[p] /\ current[p] = r THEN NoRun ELSE current[p]
BY DEF PageTypes, LetGo, Forget, linkVars

\* Links stay as they were, or are closed with the page following nothing.
LEMMA LetGoType ==
  ASSUME LinkTypes, PageTypes, LinksInv, NEW p \in Pages, NEW r, LetGo(p, r)
  PROVE  /\ LinkTypes' /\ LinksInv'
         /\ source' \in [Pages -> {"none", "opening", "open", "broken"}]
         /\ \A q \in Pages \ {p} : /\ dropped'[q] = dropped[q] /\ pipe'[q] = pipe[q]
                                   /\ streamRun'[q] = streamRun[q]
         /\ \/ UNCHANGED <<dropped, pipe, streamRun, current, source>>
            \/ dropped'[p] = 0 /\ pipe'[p] = "none" /\ current'[p] = NoRun
<1>2. CASE shown[p] /\ current[p] = r
  <2>1. /\ CloseSource(p) /\ current' = [current EXCEPT ![p] = NoRun]
    BY <1>2 DEF LetGo
  <2>2. /\ current'[p] = NoRun /\ \A q \in Pages \ {p} : current'[q] = current[q]
    BY <2>1 DEF PageTypes
  <2>3. LinksInv'
    BY <2>1, <2>2, CloseSourceType DEF LinksInv
  <2> QED
    BY <2>1, <2>2, <2>3, CloseSourceType
<1>3. CASE ~(shown[p] /\ current[p] = r)
  <2>1. UNCHANGED <<linkVars, dropped, current, pipe, source>>
    BY <1>3 DEF LetGo
  <2>2. LinkTypes' /\ LinksInv'
    BY <2>1 DEF LinkTypes, LinksInv, linkVars
  <2> QED
    BY <2>1, <2>2 DEF PageTypes, linkVars
<1> QED
  BY <1>2, <1>3

\* The initial states.
LEMMA InitTypeInv == RelayInit => TypeInv
<1> SUFFICES ASSUME RelayInit PROVE TypeInv
  OBVIOUS
<1>1. NoStart \in Starts /\ NoStart.step = "idle" /\ NoStart.run = NoRun
  BY DEF NoStart, Starts
<1>2. RunTypes
  BY DEF RelayInit, Init, RunTypes
<1>3. LinkTypes
  BY DEF RelayInit, Init, LinkTypes
<1>4. PageTypes
  BY DEF RelayInit, PageTypes
<1>5. StartTypes /\ Bounded
  BY <1>1, RelayAssumption DEF RelayInit, StartTypes, Bounded
<1>6. LinksInv
  BY DEF RelayInit, Init, LinksInv
<1>7. StartsInv
  BY <1>1, RelayAssumption DEF RelayInit, StartsInv
<1> QED
  BY <1>2, <1>3, <1>4, <1>5, <1>6, <1>7 DEF TypeInv, Types

-----------------------------------------------------------------------------
(* Every step keeps them.                                                  *)

\* One start moves, the others stay.
LEMMA StartMovesType ==
  ASSUME StartTypes, NEW p \in Pages, NEW to \in Starts, StartMoves(p, to)
  PROVE  /\ StartTypes' /\ start'[p] = to
         /\ \A q \in Pages \ {p} : start'[q] = start[q]
BY DEF StartTypes, StartMoves

\* What a start may become.
LEMMA StartsHere ==
  ASSUME StartTypes, NEW p \in Pages, NEW to,
         \/ to \in {NoStart, [NoStart EXCEPT !.step = "sent"]}
         \/ \E r \in Runs : to = [start[p] EXCEPT !.step = "accepted", !.run = r]
         \/ to = [start[p] EXCEPT !.step = "recorded"]
         \/ \E page \in {"stale", "gone"} : to = [start[p] EXCEPT !.page = page]
  PROVE  to \in Starts
<1>1. start[p] \in Starts /\ NoStart \in Starts
  BY DEF StartTypes, NoStart, Starts
<1> QED
  BY <1>1 DEF Starts

\* A step of the bridge.
LEMMA BridgeType ==
  ASSUME TypeInv, NEW r \in Runs, Bridge(r)
  PROVE  TypeInv'
<1>1. UNCHANGED <<linkVars, known, op, dropped, pipe, pageVars, broke>>
  BY DEF Bridge, BridgeFinishes, BridgeCompletes, BridgeFails, BridgeTellsFailure, BridgeTells,
     Complete, Fail, Emit, relayVars, bridgeVars
<1>2. Bounded'
  BY DisturbType DEF Bridge, BridgeFinishes, BridgeCompletes, BridgeFails, BridgeTellsFailure,
     BridgeTells, TypeInv, Types
<1>3. status' \in [Runs -> {"none", "running"} \cup Ends]
  BY DEF Bridge, BridgeFinishes, BridgeCompletes, BridgeFails, BridgeTellsFailure, BridgeTells,
     Complete, Fail, Emit, TypeInv, Types, RunTypes, Ends
<1>4. events' \in [Runs -> Seq(Told)]
  <2>1. events' = events \/ \E event \in Told : events' = [events EXCEPT ![r] = Append(@, event)]
    BY DEF Bridge, BridgeFinishes, BridgeCompletes, BridgeFails, BridgeTellsFailure, BridgeTells,
       Complete, Emit, Told, Ends
  <2>2. events \in [Runs -> Seq(Told)]
    BY DEF TypeInv, Types, RunTypes
  <2> QED
    BY <2>1, <2>2
<1>5. slot' \in Runs \cup {NoRun} /\ failing' \subseteq Runs /\ robbed' \subseteq Runs
  BY DEF Bridge, BridgeFinishes, BridgeCompletes, BridgeFails, BridgeTellsFailure, BridgeTells,
     FreesSlot, TypeInv, Types, RunTypes, relayVars, bridgeVars
<1>6. RunTypes'
  BY <1>1, <1>3, <1>4, <1>5 DEF TypeInv, Types, RunTypes
<1>7. LinkTypes' /\ LinksInv'
  BY <1>1 DEF TypeInv, Types, LinkTypes, LinksInv, linkVars, pageVars
<1>8. PageTypes' /\ StartTypes' /\ StartsInv'
  BY <1>1 DEF TypeInv, Types, PageTypes, StartTypes, StartsInv, pageVars
<1> QED
  BY <1>2, <1>6, <1>7, <1>8 DEF TypeInv, Types

\* Restarts of either process.
LEMMA RestartType ==
  ASSUME TypeInv, BridgeRestart \/ ConsoleRestart
  PROVE  TypeInv'
<1>1. Bounded'
  BY DisturbType DEF BridgeRestart, ConsoleRestart, TypeInv, Types
<1>2. RunTypes'
  BY DEF BridgeRestart, ConsoleRestart, LeaveAll, TypeInv, Types, RunTypes, contractVars, runVars,
     bridgeVars
<1>3. CASE BridgeRestart
  <2>1. UNCHANGED <<linkVars, dropped, pipe, pageVars>>
    BY <1>3 DEF BridgeRestart, contractVars, linkVars
  <2> QED
    BY <1>1, <1>2, <2>1 DEF TypeInv, Types, LinkTypes, PageTypes, StartTypes, LinksInv, StartsInv,
       linkVars, pageVars
<1>4. CASE ConsoleRestart
  <2>1. NoStart \in Starts /\ NoStart.step = "idle" /\ NoStart.run = NoRun /\ NoRun \notin Runs
    BY RelayAssumption DEF NoStart, Starts
  <2>2. LinkTypes'
    BY <1>4 DEF ConsoleRestart, LeaveAll, LinkTypes
  <2>3. PageTypes'
    <3>1. UNCHANGED <<shown, stored, current>>
      BY <1>4 DEF ConsoleRestart
    <3>2. /\ source' \in [Pages -> {"none", "opening", "open", "broken"}]
          /\ checks' \in [Pages -> SUBSET Runs]
          /\ told' \in [Pages -> SUBSET Runs]
      BY <1>4 DEF ConsoleRestart, TypeInv, Types, PageTypes
    <3> QED
      BY <3>1, <3>2 DEF TypeInv, Types, PageTypes
  <2>4. StartTypes' /\ StartsInv'
    BY <1>4, <2>1 DEF ConsoleRestart, StartTypes, StartsInv
  <2>5. LinksInv'
    BY <1>4 DEF ConsoleRestart, LeaveAll, TypeInv, LinksInv
  <2> QED
    BY <1>1, <1>2, <2>2, <2>3, <2>4, <2>5 DEF TypeInv, Types
<1> QED
  BY <1>3, <1>4

\* A turn is submitted, accepted, recorded, refused, lost or answered.
LEMMA StartingType ==
  ASSUME TypeInv, NEW p \in Pages, Submit(p) \/ Starting(p)
  PROVE  TypeInv'
<1>0. NoRun \notin Runs /\ NoStart.step = "idle" /\ NoStart.run = NoRun
      /\ RunTypes /\ LinkTypes /\ PageTypes /\ StartTypes /\ Bounded
  BY RelayAssumption DEF NoStart, TypeInv, Types
<1>1. ASSUME UNCHANGED <<linkVars, dropped, pipe, current, source>>
      PROVE  LinkTypes' /\ LinksInv'
  BY <1>1 DEF TypeInv, Types, LinkTypes, LinksInv, linkVars
<1>2. CASE Submit(p) \/ StartRefused(p) \/ StartFails(p)
  <2>1. /\ UNCHANGED <<contractVars, relayVars, shown, stored, current, source, checks, told, broke>>
        /\ Bounded'
    BY <1>0, <1>2, DisturbType DEF Submit, StartRefused, StartFails
  <2>2. RunTypes' /\ PageTypes'
    BY <1>0, <2>1 DEF RunTypes, PageTypes, contractVars, relayVars, bridgeVars
  <2>3. \/ StartMoves(p, NoStart)
        \/ StartMoves(p, [NoStart EXCEPT !.step = "sent"]) /\ current[p] = NoRun
    BY <1>2 DEF Submit, StartRefused, StartFails
  <2>4. /\ StartTypes' /\ \A q \in Pages \ {p} : start'[q] = start[q]
        /\ start'[p].step \in {"idle", "sent"} /\ start'[p].run = NoRun
        /\ start'[p].step # "idle" => current[p] = NoRun
    <3> DEFINE sent == [NoStart EXCEPT !.step = "sent"]
    <3>1. NoStart \in Starts /\ sent \in Starts
      BY <1>0, StartsHere
    <3>2. sent.step = "sent" /\ sent.run = NoRun
      BY DEF NoStart
    <3> HIDE DEF sent
    <3>3. StartMoves(p, NoStart) \/ (StartMoves(p, sent) /\ current[p] = NoRun)
      BY <2>3 DEF sent
    <3> QED
      BY <1>0, <3>1, <3>2, <3>3, StartMovesType
  <2>5. StartsInv'
    BY <1>0, <2>1, <2>4 DEF TypeInv, StartsInv
  <2> QED
    BY <1>1, <2>1, <2>2, <2>4, <2>5 DEF TypeInv, Types, contractVars, linkVars, relayVars
<1>3. ASSUME NEW r \in Runs, BridgeAccepts(p, r) PROVE TypeInv'
  <2>1. UNCHANGED <<events, linkVars, failing, robbed, op, dropped, pipe, shown, stored, current,
                    source, checks, told, disturbances, broke>>
    BY <1>3 DEF BridgeAccepts, Start
  <2>2. /\ known' \subseteq Runs /\ status' \in [Runs -> {"none", "running"} \cup Ends]
        /\ slot' \in Runs \cup {NoRun}
    BY <1>0, <1>3 DEF BridgeAccepts, Start, RunTypes
  <2>3. RunTypes' /\ PageTypes' /\ Bounded'
    BY <1>0, <2>1, <2>2 DEF RunTypes, PageTypes, Bounded
  <2> DEFINE to == [start[p] EXCEPT !.step = "accepted", !.run = r]
  <2>4. StartMoves(p, to) /\ start[p].step = "sent" /\ to \in Starts
    BY <1>0, <1>3, StartsHere DEF BridgeAccepts
  <2>5. to.step = "accepted" /\ to.run = r /\ to.page = start[p].page
    BY <1>0 DEF StartTypes, Starts
  <2>6. StartTypes' /\ start'[p] = to /\ \A q \in Pages \ {p} : start'[q] = start[q]
    BY <1>0, <2>4, StartMovesType
  <2> HIDE DEF to
  <2>7. StartsInv'
    BY <2>1, <2>4, <2>5, <2>6 DEF TypeInv, StartsInv
  <2> QED
    BY <1>1, <2>1, <2>3, <2>6, <2>7 DEF TypeInv, Types
<1>4. CASE RecordStart(p)
  <2>1. UNCHANGED <<contractVars, bridgeVars, dropped, pipe, shown, stored, current, source, checks,
                    told, disturbances, broke>>
    BY <1>4 DEF RecordStart
  <2>2. op' \in [Runs -> {"none", "running"} \cup Outcomes]
    BY <1>0, <1>4 DEF RecordStart, RunTypes
  <2>3. RunTypes' /\ PageTypes' /\ Bounded'
    BY <1>0, <2>1, <2>2 DEF RunTypes, PageTypes, Bounded, contractVars, bridgeVars
  <2> DEFINE to == [start[p] EXCEPT !.step = "recorded"]
  <2>4. StartMoves(p, to) /\ start[p].step = "accepted" /\ to \in Starts
    BY <1>0, <1>4, StartsHere DEF RecordStart
  <2>5. to.step = "recorded" /\ to.run = start[p].run /\ to.page = start[p].page
    BY <1>0 DEF StartTypes, Starts
  <2>6. StartTypes' /\ start'[p] = to /\ \A q \in Pages \ {p} : start'[q] = start[q]
    BY <1>0, <2>4, StartMovesType
  <2>7. StartsInv'
    BY <2>1, <2>4, <2>5, <2>6 DEF TypeInv, StartsInv
  <2> QED
    BY <1>1, <2>1, <2>3, <2>6, <2>7 DEF TypeInv, Types, contractVars, linkVars
<1>5. CASE StartAnswered(p)
  <2>1. /\ UNCHANGED <<contractVars, relayVars, shown, checks, disturbances, broke>>
        /\ start[p].step = "recorded" /\ start[p].run \in Runs
    BY <1>5 DEF StartAnswered, TypeInv, StartsInv
  <2>2. NoStart \in Starts /\ StartMoves(p, NoStart)
    BY <1>0, <1>5, StartsHere DEF StartAnswered
  <2>3. StartTypes' /\ start'[p] = NoStart /\ \A q \in Pages \ {p} : start'[q] = start[q]
    BY <1>0, <2>2, StartMovesType
  <2>4. stored' \in [Pages -> Runs \cup {NoRun}]
    BY <1>0, <1>5, <2>1 DEF StartAnswered, PageTypes
  <2>5. /\ \A q \in Pages \ {p} : current'[q] = current[q] /\ source'[q] = source[q]
        /\ \/ current' = current /\ source' = source
           \/ current'[p] \in Runs /\ source'[p] = "opening"
    BY <1>0, <1>5, <2>1 DEF StartAnswered, PageTypes
  <2>6. /\ current' \in [Pages -> Runs \cup {NoRun}]
        /\ source' \in [Pages -> {"none", "opening", "open", "broken"}]
        /\ told' \in [Pages -> SUBSET Runs]
    BY <1>0, <1>5, <2>1 DEF StartAnswered, PageTypes
  <2>7. RunTypes' /\ PageTypes' /\ Bounded' /\ LinkTypes'
    BY <1>0, <2>1, <2>4, <2>6 DEF RunTypes, PageTypes, Bounded, LinkTypes, contractVars, relayVars,
       bridgeVars
  <2>8. StartsInv'
    BY <1>0, <2>3, <2>5 DEF TypeInv, StartsInv
  <2>9. LinksInv'
    BY <2>1, <2>5 DEF TypeInv, LinksInv, contractVars, relayVars
  <2> QED
    BY <2>3, <2>7, <2>8, <2>9 DEF TypeInv, Types
<1> QED
  BY <1>2, <1>3, <1>4, <1>5 DEF Starting

\* A step of the relay of p: the rest of the types, and of the other pages.
LEMMA RelayType ==
  ASSUME TypeInv, NEW p \in Pages, Relay(p) \/ RelayText(p)
  PROVE  TypeInv'
<1>0. /\ RunTypes /\ LinkTypes /\ PageTypes /\ StartTypes /\ Bounded /\ LinksInv /\ NoRun \notin Runs
      /\ "failed" \in {"none", "running"} \cup Outcomes
  BY RelayAssumption DEF TypeInv, Types, Outcomes
<1>1. /\ UNCHANGED <<start, shown, stored, current, checks, told>> /\ UNCHANGED <<bridgeVars, runVars>>
      /\ Bounded'
  BY <1>0, DisturbType DEF Relay, RelayOpens, RelayChunk, RelayText, RelayEnds, RelayBreaks, RelayOver,
     Connect, Deliver, End, Leave, contractVars, runVars, linkVars, pageVars
<1>2. StartTypes' /\ StartsInv'
  BY <1>1 DEF TypeInv, Types, StartTypes, StartsInv
<1>3. ASSUME op' \in [Runs -> {"none", "running"} \cup Outcomes], broke' \subseteq Runs
      PROVE  RunTypes'
  BY <1>0, <1>1, <1>3 DEF RunTypes, runVars, bridgeVars
<1>4. ASSUME source' \in [Pages -> {"none", "opening", "open", "broken"}]
      PROVE  PageTypes'
  BY <1>0, <1>1, <1>4 DEF PageTypes
<1>5. CASE RelayOpens(p)
  <2>1. current[p] \in Runs /\ UNCHANGED <<dropped, pipe>>
    BY <1>0, <1>5 DEF RelayOpens, LinksInv
  <2>2. CASE current[p] \in known
    <3>1. /\ Connect(p, current[p], 0) /\ source' = [source EXCEPT ![p] = "open"]
          /\ UNCHANGED <<op, broke>>
      BY <1>5, <2>2 DEF RelayOpens
    <3>2. /\ streamRun' \in [Pages -> Runs \cup {NoRun}] /\ streamRun'[p] = current[p]
          /\ link' \in [Pages -> {"off", "open", "ended"}] /\ link'[p] = "open"
          /\ cursor' \in [Pages -> Nat]
          /\ \A q \in Pages \ {p} : link'[q] = link[q] /\ streamRun'[q] = streamRun[q]
      BY <1>0, <2>1, <3>1 DEF Connect, LinkTypes
    <3>3. /\ source' \in [Pages -> {"none", "opening", "open", "broken"}] /\ source'[p] = "open"
          /\ \A q \in Pages \ {p} : source'[q] = source[q]
      BY <1>0, <3>1 DEF PageTypes
    <3>4. LinkTypes' /\ RunTypes' /\ PageTypes'
      BY <1>0, <1>3, <1>4, <2>1, <3>1, <3>2, <3>3 DEF LinkTypes, RunTypes
    <3>5. LinksInv'
      BY <1>0, <1>1, <2>1, <3>2, <3>3 DEF LinksInv
    <3> QED
      BY <1>1, <1>2, <3>4, <3>5 DEF TypeInv, Types
  <2>3. CASE current[p] \notin known
    <3>1. /\ Record(current[p], "failed") /\ source' = [source EXCEPT ![p] = "broken"]
          /\ broke' = broke \cup {current[p]} /\ UNCHANGED contractVars
      BY <1>5, <2>3 DEF RelayOpens
    <3>2. /\ source' \in [Pages -> {"none", "opening", "open", "broken"}] /\ source'[p] = "broken"
          /\ \A q \in Pages \ {p} : source'[q] = source[q]
      BY <1>0, <3>1 DEF PageTypes
    <3>3. LinkTypes' /\ RunTypes' /\ PageTypes'
      BY <1>0, <1>3, <1>4, <2>1, <3>1, <3>2, RecordType DEF LinkTypes, RunTypes, contractVars
    <3>4. LinksInv'
      BY <1>0, <1>1, <2>1, <3>1, <3>2 DEF LinksInv, contractVars
    <3> QED
      BY <1>1, <1>2, <3>3, <3>4 DEF TypeInv, Types
  <2> QED
    BY <2>2, <2>3
<1>6. CASE RelayChunk(p)
  <2> DEFINE r == streamRun[p]
             event == events[r][cursor[p] + 1]
  <2>1. /\ r \in Runs /\ r = current[p] /\ link[p] = "open" /\ cursor[p] + 1 \in Nat
        /\ cursor[p] \in 0..(Len(events[r]) - 1)
    BY <1>0, <1>6 DEF RelayChunk, LinksInv, Deliver, LinkTypes, RunTypes
  <2>2. event \in Told
    BY <1>0, <2>1 DEF RunTypes
  <2>3. /\ Searches(p, cursor[p] + 1) /\ UNCHANGED <<streamRun, link, source, broke>>
        /\ cursor' = [cursor EXCEPT ![p] = @ + 1]
        /\ pipe' = [pipe EXCEPT ![p] = event]
    BY <1>6 DEF RelayChunk, Deliver, pageVars
  <2> HIDE DEF event
  <2>4. RunTypes' /\ dropped' \in [Pages -> Nat] /\ \A q \in Pages \ {p} : dropped'[q] = dropped[q]
    BY <1>0, <1>3, <2>1, <2>3, SearchesType DEF RunTypes
  <2>5. cursor' \in [Pages -> Nat]
    BY <1>0, <2>3 DEF LinkTypes
  <2>6. /\ pipe' \in [Pages -> Told \cup {"none"}] /\ \A q \in Pages \ {p} : pipe'[q] = pipe[q]
    BY <1>0, <2>2, <2>3 DEF LinkTypes
  <2>7. LinkTypes' /\ PageTypes'
    BY <1>0, <1>4, <2>3, <2>4, <2>5, <2>6 DEF LinkTypes, PageTypes
  <2>8. LinksInv'
    BY <1>0, <1>1, <2>1, <2>3, <2>4, <2>6 DEF LinksInv
  <2> QED
    BY <1>1, <1>2, <2>4, <2>7, <2>8 DEF TypeInv, Types
<1>9. CASE RelayText(p)
  <2>1. /\ streamRun[p] \in Runs /\ cursor[p] \in Nat /\ link[p] = "open"
        /\ Searches(p, cursor[p]) /\ UNCHANGED <<streamRun, link, cursor, pipe, source, broke>>
    BY <1>0, <1>9 DEF RelayText, LinksInv, LinkTypes, contractVars, pageVars
  <2>2. RunTypes' /\ dropped' \in [Pages -> Nat] /\ \A q \in Pages \ {p} : dropped'[q] = dropped[q]
    BY <1>0, <1>3, <2>1, SearchesType DEF RunTypes
  <2>3. LinkTypes' /\ PageTypes'
    BY <1>0, <1>4, <2>1, <2>2 DEF LinkTypes, PageTypes
  <2>4. LinksInv'
    BY <1>0, <1>1, <2>1, <2>2 DEF LinksInv
  <2> QED
    BY <1>1, <1>2, <2>2, <2>3, <2>4 DEF TypeInv, Types
<1>7. CASE RelayEnds(p)
  <2>1. /\ link' = [link EXCEPT ![p] = "ended"] /\ dropped' = [dropped EXCEPT ![p] = 0]
        /\ source' = [source EXCEPT ![p] = "broken"] /\ source[p] = "open"
        /\ UNCHANGED <<streamRun, cursor, pipe, op, broke>>
    BY <1>7 DEF RelayEnds, End
  <2>2. /\ source' \in [Pages -> {"none", "opening", "open", "broken"}] /\ source'[p] = "broken"
        /\ \A q \in Pages \ {p} : source'[q] = source[q]
    BY <1>0, <2>1 DEF PageTypes
  <2>3. /\ link' \in [Pages -> {"off", "open", "ended"}] /\ dropped' \in [Pages -> Nat]
        /\ dropped'[p] = 0
        /\ \A q \in Pages \ {p} : link'[q] = link[q] /\ dropped'[q] = dropped[q]
    BY <1>0, <2>1 DEF LinkTypes
  <2>4. LinkTypes' /\ RunTypes' /\ PageTypes'
    BY <1>0, <1>3, <1>4, <2>1, <2>2, <2>3 DEF LinkTypes, RunTypes
  <2>5. LinksInv'
    BY <1>0, <1>1, <2>1, <2>2, <2>3 DEF LinksInv
  <2> QED
    BY <1>1, <1>2, <2>4, <2>5 DEF TypeInv, Types
<1>8. CASE RelayBreaks(p)
  <2>1. /\ RelayOver(p) /\ Record(streamRun[p], "failed") /\ broke' = broke \cup {streamRun[p]}
        /\ source' = [source EXCEPT ![p] = "broken"] /\ source[p] = "open" /\ UNCHANGED pipe
        /\ streamRun[p] \in Runs /\ current[p] \in Runs
    BY <1>0, <1>8 DEF RelayBreaks, LinksInv
  <2>2. /\ source' \in [Pages -> {"none", "opening", "open", "broken"}] /\ source'[p] = "broken"
        /\ \A q \in Pages \ {p} : source'[q] = source[q]
    BY <1>0, <2>1 DEF PageTypes
  <2>3. RunTypes' /\ PageTypes' /\ LinkTypes'
    BY <1>0, <1>3, <1>4, <2>1, <2>2, RecordType, RelayOverType DEF LinkTypes, RunTypes
  <2>4. LinksInv'
    BY <1>0, <1>1, <2>1, <2>2, RelayOverType DEF LinksInv
  <2> QED
    BY <1>1, <1>2, <2>3, <2>4 DEF TypeInv, Types
<1> QED
  BY <1>5, <1>6, <1>7, <1>8, <1>9 DEF Relay

\* The connection of a page breaks.
LEMMA LinkBreaksType ==
  ASSUME TypeInv, NEW p \in Pages, PageLinkBreaks(p)
  PROVE  TypeInv'
<1>0. RunTypes /\ LinkTypes /\ PageTypes /\ StartTypes /\ Bounded /\ LinksInv
  BY DEF TypeInv, Types
<1>1. /\ RelayOver(p) /\ pipe' = [pipe EXCEPT ![p] = "none"]
      /\ source' = [source EXCEPT ![p] = "broken"] /\ source[p] \in {"opening", "open"}
      /\ UNCHANGED <<bridgeVars, op, start, shown, stored, current, checks, told, broke>>
      /\ UNCHANGED runVars /\ Bounded'
  BY <1>0, RelayOverType, DisturbType DEF PageLinkBreaks
<1>2. /\ source' \in [Pages -> {"none", "opening", "open", "broken"}] /\ source'[p] = "broken"
      /\ \A q \in Pages \ {p} : source'[q] = source[q]
  BY <1>0, <1>1 DEF PageTypes
<1>3. /\ pipe' \in [Pages -> Told \cup {"none"}] /\ pipe'[p] = "none"
      /\ \A q \in Pages \ {p} : pipe'[q] = pipe[q]
  BY <1>0, <1>1 DEF LinkTypes
<1>4. LinkTypes' /\ PageTypes'
  BY <1>0, <1>1, <1>2, <1>3, RelayOverType DEF LinkTypes, PageTypes
<1>5. RunTypes' /\ StartTypes' /\ StartsInv'
  BY <1>0, <1>1 DEF TypeInv, RunTypes, StartTypes, StartsInv, runVars, bridgeVars
<1>6. LinksInv'
  BY <1>0, <1>1, <1>2, <1>3, RelayOverType DEF LinksInv
<1> QED
  BY <1>1, <1>4, <1>5, <1>6 DEF TypeInv, Types

\* A page handles an event, an error or an answer, or stops an unknown run.
LEMMA PageType ==
  ASSUME TypeInv, NEW p \in Pages, Page(p) \/ StopUnknown(p)
  PROVE  TypeInv'
<1>0. RunTypes /\ LinkTypes /\ PageTypes /\ StartTypes /\ Bounded /\ LinksInv /\ StartsInv
  BY DEF TypeInv, Types
<1>1. /\ UNCHANGED <<bridgeVars, op, start, shown, broke>> /\ UNCHANGED runVars /\ Bounded'
  BY <1>0, DisturbType DEF Page, HandleEvent, OnError, CheckAnswered, CheckFails, StopUnknown,
     contractVars, runVars, relayVars
<1>2. RunTypes' /\ StartTypes'
  BY <1>0, <1>1 DEF RunTypes, StartTypes, runVars, bridgeVars
<1>3. ASSUME NEW r, LetGo(p, r), UNCHANGED <<told, checks>> PROVE TypeInv'
  <2>1. LinkTypes' /\ PageTypes' /\ LinksInv'
    BY <1>0, <1>1, <1>3, LetGoPages, LetGoType DEF PageTypes
  <2>2. StartsInv'
    BY <1>0, <1>1, <1>3, LetGoPages DEF StartsInv
  <2> QED
    BY <1>1, <1>2, <2>1, <2>2 DEF TypeInv, Types
<1>4. ASSUME UNCHANGED current PROVE StartsInv'
  BY <1>0, <1>1, <1>4 DEF StartsInv
<1>5. CASE HandleEvent(p)
  <2>1. CASE pipe[p] \in Ends
    BY <1>3, <1>5, <2>1 DEF HandleEvent
  <2>2. CASE pipe[p] \notin Ends
    <3>1. /\ pipe' = [pipe EXCEPT ![p] = "none"]
          /\ UNCHANGED <<linkVars, dropped, stored, current, source, shown, checks, told>>
      BY <1>5, <2>2 DEF HandleEvent
    <3>2. /\ pipe' \in [Pages -> Told \cup {"none"}] /\ pipe'[p] = "none"
          /\ \A q \in Pages \ {p} : pipe'[q] = pipe[q]
      BY <1>0, <3>1 DEF LinkTypes
    <3>3. LinkTypes' /\ PageTypes' /\ LinksInv'
      BY <1>0, <3>1, <3>2 DEF LinkTypes, PageTypes, LinksInv, linkVars
    <3> QED
      BY <1>1, <1>2, <1>4, <3>1, <3>3 DEF TypeInv, Types
  <2> QED
    BY <2>1, <2>2
<1>6. CASE OnError(p)
  <2>1. /\ CloseSource(p) /\ UNCHANGED <<stored, current, told>>
        /\ checks' = [checks EXCEPT ![p] = @ \cup {current[p]}] /\ current[p] \in Runs
    BY <1>0, <1>6 DEF OnError, LinksInv
  <2>2. checks' \in [Pages -> SUBSET Runs]
    BY <1>0, <2>1 DEF PageTypes
  <2>3. LinkTypes' /\ PageTypes'
    BY <1>0, <1>1, <2>1, <2>2, CloseSourceType DEF PageTypes
  <2>4. LinksInv'
    BY <1>0, <2>1, CloseSourceType DEF LinksInv
  <2> QED
    BY <1>1, <1>2, <1>4, <2>1, <2>3, <2>4 DEF TypeInv, Types
<1>7. ASSUME NEW r \in Runs, CheckAnswered(p, r) PROVE TypeInv'
  <2>1. checks' \in [Pages -> SUBSET Runs]
    BY <1>0, <1>7 DEF CheckAnswered, PageTypes
  <2>2. CASE op[r] = "running"
    <3>1. TellsUser(p, r) /\ UNCHANGED <<linkVars, dropped, stored, current, pipe, source>>
      BY <1>7, <2>2 DEF CheckAnswered
    <3>2. told' \in [Pages -> SUBSET Runs]
      BY <1>0, <3>1 DEF TellsUser, PageTypes
    <3>3. LinkTypes' /\ PageTypes' /\ LinksInv'
      BY <1>0, <1>1, <2>1, <3>1, <3>2 DEF LinkTypes, PageTypes, LinksInv, linkVars
    <3> QED
      BY <1>1, <1>2, <1>4, <3>1, <3>3 DEF TypeInv, Types
  <2>3. CASE op[r] # "running"
    <3>1. LetGo(p, r) /\ UNCHANGED told
      BY <1>7, <2>3 DEF CheckAnswered
    <3>2. LinkTypes' /\ LinksInv' /\ PageTypes'
      BY <1>0, <1>1, <2>1, <3>1, LetGoPages, LetGoType DEF PageTypes
    <3>3. StartsInv'
      BY <1>0, <1>1, <3>1, LetGoPages DEF StartsInv
    <3> QED
      BY <1>1, <1>2, <3>2, <3>3 DEF TypeInv, Types
  <2> QED
    BY <2>2, <2>3
<1>8. ASSUME NEW r \in Runs, CheckFails(p, r) PROVE TypeInv'
  <2>1. UNCHANGED <<contractVars, relayVars, shown, stored, current, source>>
    BY <1>8 DEF CheckFails
  <2>2. checks' \in [Pages -> SUBSET Runs] /\ told' \in [Pages -> SUBSET Runs]
    BY <1>0, <1>8 DEF CheckFails, PageTypes
  <2>3. LinkTypes' /\ PageTypes' /\ LinksInv'
    BY <1>0, <2>1, <2>2 DEF LinkTypes, PageTypes, LinksInv, contractVars, relayVars
  <2> QED
    BY <1>1, <1>2, <1>4, <2>1, <2>3 DEF TypeInv, Types
<1>9. CASE StopUnknown(p)
  BY <1>3, <1>9 DEF StopUnknown
<1> QED
  BY <1>5, <1>6, <1>7, <1>8, <1>9 DEF Page

\* The session is shown: what is remembered is followed.
LEMMA ShowsType ==
  ASSUME LinkTypes, PageTypes, LinksInv, NEW p \in Pages, Shows(p)
  PROVE  /\ LinkTypes' /\ LinksInv'
         /\ shown' \in [Pages -> BOOLEAN] /\ shown'[p] = TRUE
         /\ current' \in [Pages -> Runs \cup {NoRun}] /\ current'[p] = stored[p]
         /\ source' \in [Pages -> {"none", "opening", "open", "broken"}]
         /\ told' \in [Pages -> SUBSET Runs]
         /\ dropped'[p] = 0 /\ pipe'[p] = "none"
         /\ \A q \in Pages \ {p} : /\ shown'[q] = shown[q] /\ current'[q] = current[q]
                                   /\ dropped'[q] = dropped[q] /\ pipe'[q] = pipe[q]
                                   /\ streamRun'[q] = streamRun[q]
<1>1. /\ shown' = [shown EXCEPT ![p] = TRUE] /\ current' = [current EXCEPT ![p] = stored[p]]
      /\ source' = [source EXCEPT ![p] = IF stored[p] = NoRun THEN "none" ELSE "opening"]
      /\ told' = [told EXCEPT ![p] = {}] /\ RelayOver(p)
      /\ pipe' = [pipe EXCEPT ![p] = "none"]
  BY DEF Shows
<1>2. stored[p] \in Runs \cup {NoRun}
  BY DEF PageTypes
<1>3. /\ shown' \in [Pages -> BOOLEAN] /\ shown'[p] = TRUE
      /\ current' \in [Pages -> Runs \cup {NoRun}] /\ current'[p] = stored[p]
      /\ told' \in [Pages -> SUBSET Runs]
      /\ \A q \in Pages \ {p} : shown'[q] = shown[q] /\ current'[q] = current[q]
  BY <1>1, <1>2 DEF PageTypes
<1>4. /\ source' \in [Pages -> {"none", "opening", "open", "broken"}]
      /\ source'[p] = IF stored[p] = NoRun THEN "none" ELSE "opening"
      /\ \A q \in Pages \ {p} : source'[q] = source[q]
  BY <1>1 DEF PageTypes
<1>5. /\ pipe' \in [Pages -> Told \cup {"none"}] /\ pipe'[p] = "none"
      /\ \A q \in Pages \ {p} : pipe'[q] = pipe[q]
  BY <1>1 DEF LinkTypes
<1>6. LinkTypes'
  BY <1>1, <1>5, RelayOverType DEF LinkTypes
<1>7. LinksInv'
  BY <1>1, <1>2, <1>3, <1>4, <1>5, RelayOverType DEF LinksInv
<1> QED
  BY <1>1, <1>3, <1>4, <1>5, <1>6, <1>7, RelayOverType

\* The session is selected, reloaded or left.
LEMMA SelectType ==
  ASSUME TypeInv, NEW p \in Pages, Select(p) \/ Reload(p) \/ SelectOther(p)
  PROVE  TypeInv'
<1>0. /\ RunTypes /\ LinkTypes /\ PageTypes /\ StartTypes /\ Bounded /\ LinksInv /\ StartsInv
      /\ NoStart.step = "idle" /\ NoStart.run = NoRun
  BY DEF TypeInv, Types, NoStart
<1>1. UNCHANGED <<bridgeVars, op, stored, broke>> /\ UNCHANGED runVars /\ Bounded'
  BY <1>0, RelayOverType, DisturbType DEF Select, Reload, SelectOther, CloseSource, Shows
<1>2. RunTypes'
  BY <1>0, <1>1 DEF RunTypes, runVars, bridgeVars
<1>3. \E to \in Starts : /\ StartMoves(p, to) /\ (to.step # "idle" => to.page # "fresh")
                         /\ (to.step \in {"accepted", "recorded"} <=> to.run \in Runs)
  <2>1. /\ start[p] \in Starts /\ NoStart \in Starts
        /\ [start[p] EXCEPT !.page = "stale"] \in Starts /\ [start[p] EXCEPT !.page = "gone"] \in Starts
    BY <1>0, StartsHere DEF StartTypes
  <2>2. \E to \in {NoStart, start[p], [start[p] EXCEPT !.page = "stale"],
                   [start[p] EXCEPT !.page = "gone"]} :
          /\ StartMoves(p, to)
          /\ to = start[p] => to.step = "idle" \/ to.page # "fresh"
    <3>1. CASE Reload(p)
      BY <1>0, <2>1, <3>1 DEF Reload, Starts
    <3>2. CASE LookedAway(p)
      BY <1>0, <2>1, <3>2 DEF LookedAway, Starts, NoStart
    <3> QED
      BY <3>1, <3>2 DEF Select, SelectOther
  <2>3. PICK to \in {NoStart, start[p], [start[p] EXCEPT !.page = "stale"],
                     [start[p] EXCEPT !.page = "gone"]} :
          /\ StartMoves(p, to)
          /\ to = start[p] => to.step = "idle" \/ to.page # "fresh"
    BY <2>2
  <2>4. start[p].step \in {"accepted", "recorded"} <=> start[p].run \in Runs
    BY <1>0 DEF StartsInv
  <2> QED
    BY <1>0, <2>1, <2>3, <2>4, RelayAssumption DEF Starts
<1>4. PICK to \in Starts : /\ StartMoves(p, to) /\ (to.step # "idle" => to.page # "fresh")
                           /\ (to.step \in {"accepted", "recorded"} <=> to.run \in Runs)
  BY <1>3
<1>5. StartTypes' /\ start'[p] = to /\ \A q \in Pages \ {p} : start'[q] = start[q]
  BY <1>0, <1>4, StartMovesType
<1>6. ASSUME \A q \in Pages \ {p} : current'[q] = current[q] PROVE StartsInv'
  BY <1>0, <1>4, <1>5, <1>6 DEF StartsInv
<1>7. checks' \in [Pages -> SUBSET Runs]
  BY <1>0 DEF Select, Reload, SelectOther, PageTypes
<1>8. CASE Shows(p)
  <2>1. PageTypes' /\ LinkTypes' /\ LinksInv'
    BY <1>0, <1>1, <1>7, <1>8, ShowsType DEF PageTypes
  <2>2. StartsInv'
    BY <1>0, <1>6, <1>8, ShowsType
  <2> QED
    BY <1>1, <1>2, <1>5, <2>1, <2>2 DEF TypeInv, Types
<1>9. CASE SelectOther(p)
  <2>1. /\ shown' = [shown EXCEPT ![p] = FALSE] /\ current' = [current EXCEPT ![p] = NoRun]
        /\ told' = [told EXCEPT ![p] = {}] /\ CloseSource(p)
    BY <1>9 DEF SelectOther
  <2>2. /\ shown' \in [Pages -> BOOLEAN] /\ current' \in [Pages -> Runs \cup {NoRun}]
        /\ told' \in [Pages -> SUBSET Runs] /\ current'[p] = NoRun
        /\ \A q \in Pages \ {p} : current'[q] = current[q]
    BY <1>0, <2>1 DEF PageTypes
  <2>3. PageTypes' /\ LinkTypes'
    BY <1>0, <1>1, <1>7, <2>1, <2>2, CloseSourceType DEF PageTypes
  <2>4. LinksInv'
    BY <1>0, <2>1, <2>2, CloseSourceType DEF LinksInv
  <2> QED
    BY <1>1, <1>2, <1>5, <1>6, <2>2, <2>3, <2>4 DEF TypeInv, Types
<1> QED
  BY <1>8, <1>9 DEF Select, Reload

\* Every step.
LEMMA NextTypeInv == TypeInv /\ [RelayNext]_vars => TypeInv'
<1> SUFFICES ASSUME TypeInv, [RelayNext]_vars PROVE TypeInv'
  OBVIOUS
<1>1. ASSUME NEW p \in Pages,
             \/ Starting(p) \/ Relay(p) \/ RelayText(p)
             \/ PageLinkBreaks(p) \/ Page(p) \/ User(p)
      PROVE  TypeInv'
  BY <1>1, StartingType, RelayType, LinkBreaksType, PageType, SelectType DEF User
<1>2. CASE UNCHANGED vars
  BY <1>2 DEF vars, contractVars, relayVars, bridgeVars, pageVars, TypeInv, Types, RunTypes, LinkTypes,
     PageTypes, StartTypes, Bounded, LinksInv, StartsInv
<1> QED
  BY <1>1, <1>2, BridgeType, RestartType DEF RelayNext

\* The specification keeps its types.
THEOREM TypeCorrect == RelaySpec => []TypeOK
<1>1. RelaySpec => []TypeInv
  BY InitTypeInv, NextTypeInv, PTL DEF RelaySpec
<1>2. TypeInv => TypeOK
  BY TypesAreTypeOK DEF TypeInv
<1> QED
  BY <1>1, <1>2, PTL

-----------------------------------------------------------------------------
(* OutcomesAreReal.  What a relay has in its buffer was told by the run    *)
(* whose row it writes: it has not gone beyond the end of that list, and   *)
(* what left the buffer had gone through it.                               *)

BufferInv ==
  \A p \in Pages : source[p] = "open" =>
    dropped[p] <= cursor[p] /\ cursor[p] <= Len(events[streamRun[p]])

RealInv == TypeInv /\ BufferInv /\ OutcomesAreReal

\* A step that takes nothing back of what runs have told.
Grows ==
  \A r \in Runs : /\ Len(events[r]) <= Len(events'[r])
                  /\ \A i \in 1..Len(events[r]) : events'[r][i] = events[r][i]

\* No step takes back what was told.
LEMMA EventsGrow ==
  ASSUME TypeInv, [RelayNext]_vars
  PROVE  Grows
<1>1. events \in [Runs -> Seq(Told)]
  BY DEF TypeInv, Types, RunTypes
<1>2. \/ events' = events
      \/ \E r \in Runs, event \in Told : events' = [events EXCEPT ![r] = Append(@, event)]
  <2>1. ASSUME NEW r \in Runs, Bridge(r)
        PROVE  events' = events \/ \E event \in Told : events' = [events EXCEPT ![r] = Append(@, event)]
    BY <2>1 DEF Bridge, BridgeFinishes, BridgeCompletes, BridgeFails, BridgeTellsFailure, BridgeTells,
       Complete, Emit, Told, Ends
  <2>2. ASSUME NEW p \in Pages, Starting(p) \/ Relay(p) \/ RelayText(p) \/ PageLinkBreaks(p)
        PROVE  events' = events
    BY <2>2 DEF Starting, RecordStart, StartRefused, StartFails, StartAnswered, BridgeAccepts, Start,
       Relay, RelayOpens, RelayChunk, RelayText, RelayEnds, RelayBreaks, PageLinkBreaks, RelayOver,
       Connect, Deliver, End, Leave, contractVars, runVars
  <2>3. ASSUME NEW p \in Pages, Page(p) \/ User(p) PROVE events' = events
    BY <2>3 DEF Page, User, HandleEvent, OnError, CheckAnswered, CheckFails, Submit, StopUnknown,
       Select, Reload, SelectOther, contractVars, runVars
  <2>4. CASE UNCHANGED vars \/ BridgeRestart \/ ConsoleRestart
    BY <2>4 DEF vars, BridgeRestart, ConsoleRestart, LeaveAll, contractVars, runVars
  <2> QED
    BY <2>1, <2>2, <2>3, <2>4 DEF RelayNext
<1>3. ASSUME NEW r \in Runs, NEW event \in Told, events' = [events EXCEPT ![r] = Append(@, event)]
      PROVE  Grows
  BY <1>1, <1>3 DEF Grows
<1> QED
  BY <1>1, <1>2, <1>3 DEF Grows

\* A step that leaves the relay of q alone.
RelayStays(q) ==
  /\ streamRun'[q] = streamRun[q] /\ cursor'[q] = cursor[q] /\ dropped'[q] = dropped[q]
  /\ source'[q] = source[q]

\* The steps of a relay p, seen from q.
LEMMA RelayMoves ==
  ASSUME TypeInv, NEW p \in Pages, NEW q \in Pages, source'[q] = "open", Relay(p) \/ RelayText(p)
  PROVE  RelayStays(q) \/ RelayOpens(q) \/ RelayChunk(q) \/ RelayText(q)
<1>0. LinkTypes /\ PageTypes /\ RunTypes /\ LinksInv
  BY DEF TypeInv, Types
<1>1. CASE p = q
  <2>1. CASE RelayEnds(p)
    BY <1>0, <1>1, <2>1 DEF RelayEnds, PageTypes
  <2>2. CASE RelayBreaks(p)
    BY <1>0, <1>1, <2>2 DEF RelayBreaks, PageTypes
  <2> QED
    BY <1>1, <2>1, <2>2 DEF Relay
<1>2. CASE p # q
  <2>1. CASE RelayOpens(p)
    BY <1>0, <1>2, <2>1 DEF RelayOpens, Connect, contractVars, LinkTypes, PageTypes, RelayStays
  <2>2. CASE RelayChunk(p)
    <3>1. /\ cursor' = [cursor EXCEPT ![p] = @ + 1] /\ UNCHANGED <<streamRun, source>>
          /\ \E gone : dropped' = [dropped EXCEPT ![p] = gone]
      BY <2>2 DEF RelayChunk, Deliver, Searches, pageVars
    <3> QED
      BY <1>0, <1>2, <3>1 DEF LinkTypes, RelayStays
  <2>3. CASE RelayText(p)
    <3>1. UNCHANGED <<cursor, streamRun, source>> /\ \E gone : dropped' = [dropped EXCEPT ![p] = gone]
      BY <2>3 DEF RelayText, Searches, contractVars, pageVars
    <3> QED
      BY <1>0, <1>2, <3>1 DEF LinkTypes, RelayStays
  <2>4. CASE RelayEnds(p)
    BY <1>0, <1>2, <2>4 DEF RelayEnds, End, LinkTypes, PageTypes, RelayStays
  <2>5. CASE RelayBreaks(p)
    <3>1. RelayOver(p) /\ source' = [source EXCEPT ![p] = "broken"]
      BY <2>5 DEF RelayBreaks
    <3> QED
      BY <1>0, <1>2, <3>1, RelayOverType DEF PageTypes, RelayStays
  <2> QED
    BY <2>1, <2>2, <2>3, <2>4, <2>5 DEF Relay
<1> QED
  BY <1>1, <1>2

\* Pages and starts only end relays, or ask for one.
LEMMA OthersLeaveRelays ==
  ASSUME TypeInv, NEW p \in Pages, NEW q \in Pages, source'[q] = "open",
         Starting(p) \/ PageLinkBreaks(p) \/ Page(p) \/ User(p)
  PROVE  RelayStays(q)
<1>0. LinkTypes /\ PageTypes
  BY DEF TypeInv, Types
<1>1. ASSUME RelayOver(p), \E to \in {"none", "opening", "broken"} : source' = [source EXCEPT ![p] = to]
      PROVE  RelayStays(q)
  <2>1. q # p /\ source'[q] = source[q]
    BY <1>0, <1>1 DEF PageTypes
  <2> QED
    BY <1>0, <1>1, <2>1, RelayOverType DEF RelayStays
<1>2. PageLinkBreaks(p) \/ CloseSource(p) \/ Shows(p)
        => RelayOver(p) /\ \E to \in {"none", "opening", "broken"} : source' = [source EXCEPT ![p] = to]
  BY DEF PageLinkBreaks, CloseSource, Shows
<1>3. CASE Starting(p) \/ Submit(p)
  <2>1. /\ UNCHANGED <<linkVars, dropped>>
        /\ UNCHANGED source \/ source' = [source EXCEPT ![p] = "opening"]
    BY <1>3 DEF Starting, Submit, RecordStart, StartRefused, StartFails, StartAnswered, BridgeAccepts,
       Start, contractVars, relayVars, linkVars
  <2> QED
    BY <1>0, <2>1 DEF PageTypes, RelayStays, linkVars
<1>4. CASE ~Starting(p) /\ ~Submit(p)
  <2>1. \/ PageLinkBreaks(p) \/ CloseSource(p) \/ Shows(p)
        \/ UNCHANGED <<linkVars, dropped, source>>
    BY <1>4 DEF Page, User, HandleEvent, OnError, CheckAnswered, CheckFails, StopUnknown,
       Select, Reload, SelectOther, LetGo, linkVars, contractVars, relayVars
  <2> QED
    BY <1>1, <1>2, <2>1 DEF RelayStays, linkVars
<1> QED
  BY <1>3, <1>4

\* Every step keeps BufferInv.
LEMMA BufferKept ==
  ASSUME TypeInv, BufferInv, TypeInv', [RelayNext]_vars
  PROVE  BufferInv'
<1> SUFFICES ASSUME NEW q \in Pages, source'[q] = "open"
             PROVE  dropped'[q] <= cursor'[q] /\ cursor'[q] <= Len(events'[streamRun'[q]])
  BY DEF BufferInv
<1>0. /\ RunTypes /\ LinkTypes /\ PageTypes /\ LinksInv /\ Grows
      /\ events' \in [Runs -> Seq(Told)] /\ cursor' \in [Pages -> Nat]
  BY EventsGrow DEF TypeInv, Types, RunTypes, LinkTypes
<1>1. CASE RelayStays(q)
  <2> DEFINE r == streamRun[q]
  <2>1. r \in Runs /\ dropped[q] <= cursor[q] /\ cursor[q] <= Len(events[r])
    BY <1>0, <1>1 DEF RelayStays, LinksInv, BufferInv
  <2>2. Len(events[r]) \in Nat /\ Len(events'[r]) \in Nat /\ cursor[q] \in Nat
    BY <1>0, <2>1 DEF RunTypes, LinkTypes
  <2>3. Len(events[r]) <= Len(events'[r])
    BY <1>0, <2>1 DEF Grows
  <2> QED
    BY <1>1, <2>1, <2>2, <2>3 DEF RelayStays
<1>2. CASE RelayOpens(q)
  <2>1. CASE current[q] \in known
    <3>1. /\ link[q] = "off" /\ cursor' = [cursor EXCEPT ![q] = 0] /\ UNCHANGED <<dropped, events>>
          /\ streamRun' = [streamRun EXCEPT ![q] = current[q]] /\ current[q] \in Runs
      BY <1>0, <1>2, <2>1 DEF RelayOpens, Connect, runVars, RunTypes
    <3>2. dropped'[q] = 0 /\ cursor'[q] = 0 /\ streamRun'[q] = current[q]
      BY <1>0, <3>1 DEF LinksInv, LinkTypes
    <3>3. Len(events'[streamRun'[q]]) \in Nat
      BY <1>0, <3>1, <3>2
    <3> QED
      BY <3>2, <3>3
  <2>2. CASE current[q] \notin known
    BY <1>0, <1>2, <2>2 DEF RelayOpens, PageTypes
  <2> QED
    BY <2>1, <2>2
<1>3. CASE RelayChunk(q)
  <2> DEFINE r == streamRun[q]
  <2>1. r \in Runs /\ Searches(q, cursor[q] + 1) /\ UNCHANGED <<streamRun, events>>
        /\ cursor' = [cursor EXCEPT ![q] = @ + 1] /\ cursor[q] < Len(events[r])
    BY <1>0, <1>3 DEF RelayChunk, Deliver, LinksInv, runVars
  <2>2. cursor[q] \in Nat /\ Len(events[r]) \in Nat /\ dropped[q] \in Nat
    BY <1>0, <2>1 DEF LinkTypes, RunTypes
  <2>3. dropped'[q] \in dropped[q] .. cursor[q] + 1
    BY <1>0, <2>1, <2>2, SearchesType
  <2>4. cursor'[q] = cursor[q] + 1 /\ streamRun'[q] = r /\ events'[r] = events[r]
    BY <1>0, <2>1 DEF LinkTypes
  <2> QED
    BY <2>1, <2>2, <2>3, <2>4
<1>4. CASE RelayText(q)
  <2>1. /\ streamRun[q] \in Runs /\ Searches(q, cursor[q])
        /\ UNCHANGED <<streamRun, events, cursor>> /\ cursor[q] <= Len(events[streamRun[q]])
    BY <1>0, <1>4 DEF RelayText, LinksInv, BufferInv, contractVars
  <2>2. cursor[q] \in Nat /\ dropped[q] \in Nat
    BY <1>0 DEF LinkTypes
  <2>3. dropped'[q] \in dropped[q] .. cursor[q]
    BY <1>0, <2>1, <2>2, SearchesType
  <2> QED
    BY <2>1, <2>2, <2>3
<1>5. CASE UNCHANGED vars \/ BridgeRestart \/ \E r \in Runs : Bridge(r)
  <2>1. UNCHANGED <<linkVars, dropped, source>>
    BY <1>5 DEF vars, BridgeRestart, Bridge, BridgeFinishes, BridgeCompletes, BridgeFails,
       BridgeTellsFailure, BridgeTells, Complete, Fail, Emit, contractVars, linkVars, relayVars, pageVars
  <2> QED
    BY <1>1, <2>1 DEF RelayStays, linkVars
<1>6. CASE ConsoleRestart
  BY <1>0, <1>6 DEF ConsoleRestart
<1> QED
  BY <1>1, <1>2, <1>3, <1>4, <1>5, <1>6, RelayMoves, OthersLeaveRelays DEF RelayNext

\* Relays stay within what was told.
LEMMA BufferIsKept == RelaySpec => [](TypeInv /\ BufferInv)
<1>1. RelayInit => TypeInv /\ BufferInv
  <2>1. RelayInit => BufferInv
    BY DEF RelayInit, BufferInv
  <2> QED
    BY <2>1, InitTypeInv
<1>2. TypeInv /\ BufferInv /\ [RelayNext]_vars => TypeInv' /\ BufferInv'
  BY NextTypeInv, BufferKept
<1> QED
  BY <1>1, <1>2, PTL DEF RelaySpec

\* What the row of r may say after the events it has told.
Real(r, outcome) ==
  /\ outcome = "completed" => Emitted(r, {"completed", "quotes_completed"})
  /\ outcome = "interrupted" => Emitted(r, {"quotes_interrupted"})
  /\ outcome = "failed" => Emitted(r, {"failed", "quotes_failed"})

\* What the buffer shows was told, or quoted, by the run of the stream.
LEMMA BufferIsReal ==
  ASSUME RunTypes, LinkTypes, NEW p \in Pages, streamRun[p] \in Runs,
         NEW n \in Nat, n <= Len(events[streamRun[p]]), NEW outcome \in Buffer(p, n)
  PROVE  Real(streamRun[p], outcome)
<1> DEFINE r == streamRun[p]
<1>1. PICK i \in dropped[p] + 1 .. n : outcome = Reads(events[r][i])
  BY DEF Buffer
<1>2. events[r] \in Seq(Told) /\ dropped[p] \in Nat
  BY DEF RunTypes, LinkTypes
<1>3. i \in 1..Len(events[r])
  BY <1>1, <1>2
<1>4. events[r][i] \in Told
  BY <1>2, <1>3
<1> DEFINE event == events[r][i]
<1>5. /\ outcome = "completed" => event \in {"completed", "quotes_completed"}
      /\ outcome = "interrupted" => event \in {"quotes_interrupted"}
      /\ outcome = "failed" => event \in {"failed", "quotes_failed"}
  BY <1>1, <1>4 DEF Reads, Told, Ends, Quotes
<1> QED
  BY <1>3, <1>5 DEF Real, Emitted

\* What was told stays told.
LEMMA RealStays ==
  ASSUME TypeInv, Grows, events' \in [Runs -> Seq(Told)], NEW r \in Runs, NEW outcome, Real(r, outcome)
  PROVE  /\ outcome = "completed" => Emitted(r, {"completed", "quotes_completed"})'
         /\ outcome = "interrupted" => Emitted(r, {"quotes_interrupted"})'
         /\ outcome = "failed" => Emitted(r, {"failed", "quotes_failed"})'
<1>1. Len(events[r]) \in Nat /\ Len(events'[r]) \in Nat
  BY DEF TypeInv, Types, RunTypes
<1>2. ASSUME NEW types, Emitted(r, types) PROVE \E i \in 1..Len(events'[r]) : events'[r][i] \in types
  <2>1. PICK i \in 1..Len(events[r]) : events[r][i] \in types
    BY <1>2 DEF Emitted
  <2>2. i \in 1..Len(events'[r]) /\ events'[r][i] = events[r][i]
    BY <1>1, <2>1 DEF Grows
  <2> QED
    BY <2>1, <2>2
<1>3. CASE outcome = "completed"
  BY <1>2, <1>3 DEF Real, Emitted
<1>4. CASE outcome = "interrupted"
  BY <1>2, <1>4 DEF Real, Emitted
<1>5. CASE outcome = "failed"
  BY <1>2, <1>5 DEF Real, Emitted
<1> QED
  BY <1>3, <1>4, <1>5

\* What a step has to say of each row.
LEMMA OutcomesKept ==
  ASSUME TypeInv, TypeInv', OutcomesAreReal, Grows, broke \subseteq broke',
         \A r \in Runs :
           \/ op'[r] = op[r]
           \/ op'[r] \notin Outcomes
           \/ Real(r, op'[r])
           \/ op'[r] = "failed" /\ r \in broke'
  PROVE  OutcomesAreReal'
<1> SUFFICES ASSUME NEW r \in Runs
             PROVE  /\ op'[r] = "completed" => Emitted(r, {"completed", "quotes_completed"})'
                    /\ op'[r] = "interrupted" => Emitted(r, {"quotes_interrupted"})'
                    /\ op'[r] = "failed" => Emitted(r, {"failed", "quotes_failed"})' \/ r \in broke'
  BY DEF OutcomesAreReal
<1>1. events' \in [Runs -> Seq(Told)]
  BY DEF TypeInv, Types, RunTypes
<1>2. \/ op'[r] \notin Outcomes \/ Real(r, op'[r])
      \/ op'[r] = "failed" /\ r \in broke'
  BY DEF OutcomesAreReal, Real
<1> QED
  BY <1>1, <1>2, RealStays DEF Outcomes

\* A relay writes what it has seen, or that it broke.
LEMMA RelayIsReal ==
  ASSUME RealInv, TypeInv', Grows, NEW p \in Pages, Relay(p) \/ RelayText(p)
  PROVE  OutcomesAreReal'
<1>0. /\ RunTypes /\ LinkTypes /\ PageTypes /\ LinksInv /\ TypeInv /\ OutcomesAreReal /\ BufferInv
      /\ broke \subseteq broke' /\ "failed" \in {"none", "running"} \cup Outcomes
  BY DEF RealInv, TypeInv, Types, Outcomes, Relay, RelayOpens, RelayChunk, RelayText, RelayEnds,
     RelayBreaks
<1>1. ASSUME NEW r \in Runs, Record(r, "failed"), r \in broke' PROVE OutcomesAreReal'
  <2>1. op'[r] \in {"none", "failed"} /\ \A q \in Runs \ {r} : op'[q] = op[q]
    BY <1>0, <1>1, RecordType
  <2>2. "none" \notin Outcomes
    BY DEF Outcomes
  <2> QED
    BY <1>0, <1>1, <2>1, <2>2, OutcomesKept
<1>2. ASSUME NEW n \in Nat, n <= Len(events[streamRun[p]]), streamRun[p] \in Runs, Searches(p, n)
      PROVE  OutcomesAreReal'
  <2> DEFINE r == streamRun[p]
             outcome == Outcome(p, n, r)
  <2>1. /\ op'[r] = IF op[r] = "none" THEN "none" ELSE outcome
        /\ \A q \in Runs \ {r} : op'[q] = op[q]
    BY <1>0, <1>2, SearchesType
  <2>2. outcome = op[r] \/ outcome \in Buffer(p, n)
    BY OutcomeCases
  <2>3. outcome = op[r] \/ Real(r, outcome)
    BY <1>0, <1>2, <2>2, BufferIsReal
  <2> HIDE DEF outcome
  <2>4. op'[r] = op[r] \/ Real(r, op'[r])
    BY <2>1, <2>3
  <2> QED
    BY <1>0, <2>1, <2>4, OutcomesKept
<1>3. CASE RelayOpens(p)
  <2>1. \/ UNCHANGED op
        \/ current[p] \in Runs /\ Record(current[p], "failed") /\ current[p] \in broke'
    BY <1>0, <1>3 DEF RelayOpens, LinksInv
  <2> QED
    BY <1>0, <1>1, <2>1, OutcomesKept
<1>4. CASE RelayChunk(p)
  <2>1. /\ streamRun[p] \in Runs /\ cursor[p] < Len(events[streamRun[p]])
        /\ Searches(p, cursor[p] + 1)
    BY <1>0, <1>4 DEF RelayChunk, Deliver, LinksInv
  <2>2. cursor[p] \in Nat /\ Len(events[streamRun[p]]) \in Nat
    BY <1>0, <2>1 DEF LinkTypes, RunTypes
  <2>3. cursor[p] + 1 \in Nat /\ cursor[p] + 1 <= Len(events[streamRun[p]])
    BY <2>1, <2>2
  <2> QED
    BY <1>2, <2>1, <2>3
<1>5. CASE RelayText(p)
  <2>1. /\ streamRun[p] \in Runs /\ cursor[p] <= Len(events[streamRun[p]]) /\ cursor[p] \in Nat
        /\ Searches(p, cursor[p])
    BY <1>0, <1>5 DEF RelayText, LinksInv, BufferInv, LinkTypes
  <2> QED
    BY <1>2, <2>1
<1>6. CASE RelayEnds(p)
  BY <1>0, <1>6, OutcomesKept DEF RelayEnds
<1>7. CASE RelayBreaks(p)
  <2>1. Record(streamRun[p], "failed") /\ streamRun[p] \in broke' /\ streamRun[p] \in Runs
    BY <1>0, <1>7 DEF RelayBreaks, LinksInv
  <2> QED
    BY <1>1, <2>1
<1> QED
  BY <1>3, <1>4, <1>5, <1>6, <1>7 DEF Relay

\* Only relays settle rows.
LEMMA OthersSettleNothing ==
  ASSUME TypeInv, [RelayNext]_vars, \A p \in Pages : ~Relay(p) /\ ~RelayText(p)
  PROVE  /\ UNCHANGED broke
         /\ \A r \in Runs : op'[r] = op[r] \/ op'[r] \notin Outcomes
<1>0. RunTypes /\ "running" \notin Outcomes
  BY DEF TypeInv, Types, Outcomes
<1>1. ASSUME NEW p \in Pages, Starting(p)
      PROVE  UNCHANGED broke /\ \A r \in Runs : op'[r] = op[r] \/ op'[r] \notin Outcomes
  BY <1>0, <1>1 DEF Starting, RecordStart, StartRefused, StartFails, StartAnswered, BridgeAccepts,
     relayVars, RunTypes
<1>2. ASSUME NEW p \in Pages, PageLinkBreaks(p) \/ Page(p) \/ User(p) PROVE UNCHANGED <<op, broke>>
  BY <1>2 DEF PageLinkBreaks, Page, User, HandleEvent, OnError, CheckAnswered, CheckFails, Submit,
     StopUnknown, Select, Reload, SelectOther, relayVars
<1>3. CASE UNCHANGED vars \/ BridgeRestart \/ ConsoleRestart \/ \E r \in Runs : Bridge(r)
  BY <1>3 DEF vars, BridgeRestart, ConsoleRestart, Bridge, BridgeFinishes, BridgeCompletes, BridgeFails,
     BridgeTellsFailure, BridgeTells, relayVars
<1> QED
  BY <1>1, <1>2, <1>3 DEF RelayNext

\* A row that is settled is settled by what its run told, by a text of it that
\* reads like the end of a turn, or by a relay of it that broke.
THEOREM OutcomesReal == RelaySpec => []OutcomesAreReal
<1>1. RelayInit => OutcomesAreReal
  BY DEF RelayInit, OutcomesAreReal
<1>2. TypeInv /\ BufferInv /\ TypeInv' /\ OutcomesAreReal /\ [RelayNext]_vars => OutcomesAreReal'
  <2> SUFFICES ASSUME TypeInv, BufferInv, TypeInv', OutcomesAreReal, [RelayNext]_vars
               PROVE  OutcomesAreReal'
    OBVIOUS
  <2>1. CASE \E p \in Pages : Relay(p) \/ RelayText(p)
    BY <2>1, EventsGrow, RelayIsReal DEF RealInv
  <2>2. CASE \A p \in Pages : ~Relay(p) /\ ~RelayText(p)
    BY <2>2, EventsGrow, OthersSettleNothing, OutcomesKept
  <2> QED
    BY <2>1, <2>2
<1> QED
  BY <1>1, <1>2, BufferIsKept, PTL DEF RelaySpec

-----------------------------------------------------------------------------
(* FollowedIsRemembered and GivenUpWhenSettled.  A step seen from one      *)
(* page: what the page remembers, follows and asks about changes in four   *)
(* ways, and otherwise stays.                                              *)

Keeps(p) ==
  /\ shown'[p] = shown[p] /\ stored'[p] = stored[p] /\ current'[p] = current[p]
  /\ checks'[p] \subseteq checks[p]

Asks(p) ==
  /\ shown'[p] = shown[p] /\ stored'[p] = stored[p] /\ current'[p] = current[p]
  /\ checks'[p] = checks[p] \cup {current[p]}
  /\ current[p] \in Runs

\* The answer to a start: only the page as it was follows the run.
Answers(p) ==
  /\ start[p].run \in Runs /\ start[p].step # "idle" /\ start'[p] = NoStart
  /\ shown'[p] = shown[p] /\ checks'[p] = checks[p]
  /\ \/ stored'[p] = start[p].run /\ current'[p] = start[p].run /\ start[p].page = "fresh"
     \/ stored'[p] = start[p].run /\ current'[p] = current[p]
     \/ stored'[p] = stored[p] /\ current'[p] = current[p]

\* A run is let go: its row is settled, or the page hears its end or learns that
\* the bridge does not know it.
LetsGo(p) ==
  \E r \in Runs :
    /\ \/ r \in checks[p] /\ op[r] # "running"
       \/ r = current[p] /\ pipe[p] \in Ends
       \/ r = current[p] /\ r \notin known
    /\ shown'[p] = shown[p] /\ checks'[p] \subseteq checks[p]
    /\ stored'[p] = IF stored[p] = r THEN NoRun ELSE stored[p]
    /\ current'[p] = IF shown[p] /\ current[p] = r THEN NoRun ELSE current[p]
    /\ UNCHANGED op

\* The session is selected, shown again or left.
Looks(p) ==
  /\ stored'[p] = stored[p] /\ checks'[p] \subseteq checks[p]
  /\ \/ shown'[p] /\ current'[p] = stored[p]
     \/ ~shown'[p] /\ current'[p] = NoRun

\* Steps of a start.
LEMMA StartingMoves ==
  ASSUME TypeInv, NEW q \in Pages, NEW p \in Pages, Starting(q) \/ Submit(q)
  PROVE  Keeps(p) \/ Answers(p)
<1>1. CASE StartAnswered(q)
  <2>1. /\ UNCHANGED <<shown, checks>> /\ start[q].step = "recorded" /\ start[q].run \in Runs
        /\ start' = [start EXCEPT ![q] = NoStart]
        /\ stored' = stored \/ stored' = [stored EXCEPT ![q] = start[q].run]
        /\ current' = current \/ current' = [current EXCEPT ![q] = start[q].run]
    BY <1>1 DEF StartAnswered, StartMoves, TypeInv, StartsInv
  <2>2. /\ shown \in [Pages -> BOOLEAN] /\ stored \in [Pages -> Runs \cup {NoRun}]
        /\ start \in [Pages -> Starts]
        /\ current \in [Pages -> Runs \cup {NoRun}] /\ checks \in [Pages -> SUBSET Runs]
    BY DEF TypeInv, Types, PageTypes, StartTypes
  <2>3. CASE p = q
    <3>1. start'[p] = NoStart
      BY <2>1, <2>2, <2>3
    <3>2. \/ stored'[p] = start[p].run /\ current'[p] = start[p].run /\ start[p].page = "fresh"
          \/ stored'[p] = start[p].run /\ current'[p] = current[p]
          \/ stored'[p] = stored[p] /\ current'[p] = current[p]
      BY <1>1, <2>2, <2>3 DEF StartAnswered
    <3> QED
      BY <2>1, <2>3, <3>1, <3>2 DEF Answers
  <2>4. CASE p # q
    BY <2>1, <2>2, <2>4 DEF Keeps
  <2> QED
    BY <2>3, <2>4
<1>2. CASE UNCHANGED <<shown, stored, current, checks>>
  BY <1>2 DEF Keeps
<1> QED
  BY <1>1, <1>2 DEF Starting, Submit, RecordStart, StartRefused, StartFails, BridgeAccepts

\* Steps of a page.
LEMMA PageMoves ==
  ASSUME TypeInv, NEW q \in Pages, NEW p \in Pages, Page(q) \/ StopUnknown(q)
  PROVE  Keeps(p) \/ Asks(p) \/ LetsGo(p)
<1>0. PageTypes /\ LinksInv /\ UNCHANGED <<op, shown>>
  BY DEF TypeInv, Types, Page, StopUnknown, HandleEvent, OnError, CheckAnswered, CheckFails, relayVars
<1>1. \/ UNCHANGED checks
      \/ \E r \in Runs : checks' = [checks EXCEPT ![q] = @ \ {r}]
      \/ OnError(q)
  BY DEF Page, StopUnknown, HandleEvent, CheckAnswered, CheckFails
<1>2. CASE OnError(q)
  <2>1. /\ checks' = [checks EXCEPT ![q] = @ \cup {current[q]}] /\ UNCHANGED <<stored, current>>
        /\ current[q] \in Runs
    BY <1>0, <1>2 DEF OnError, LinksInv
  <2> QED
    BY <1>0, <2>1 DEF Asks, Keeps, PageTypes
<1>3. CASE ~OnError(q)
  <2>1. checks'[p] \subseteq checks[p]
    BY <1>0, <1>1, <1>3 DEF PageTypes
  <2>2. CASE UNCHANGED <<stored, current>>
    BY <1>0, <2>1, <2>2 DEF Keeps
  <2>3. ASSUME NEW r \in Runs, LetGo(q, r),
               \/ r \in checks[q] /\ op[r] # "running"
               \/ r = current[q] /\ pipe[q] \in Ends
               \/ r = current[q] /\ r \notin known
        PROVE  Keeps(p) \/ LetsGo(p)
    <3>1. CASE p = q
      BY <1>0, <2>1, <2>3, <3>1, LetGoPages DEF LetsGo
    <3>2. CASE p # q
      BY <1>0, <2>1, <2>3, <3>2, LetGoPages DEF Keeps
    <3> QED
      BY <3>1, <3>2
  <2>4. CASE HandleEvent(q)
    <3>1. current[q] \in Runs
      BY <1>0, <2>4 DEF HandleEvent, LinksInv
    <3> QED
      BY <2>2, <2>3, <2>4, <3>1 DEF HandleEvent
  <2>5. CASE StopUnknown(q)
    BY <2>3, <2>5 DEF StopUnknown
  <2>6. ASSUME NEW r \in Runs, CheckAnswered(q, r) \/ CheckFails(q, r)
        PROVE  Keeps(p) \/ Asks(p) \/ LetsGo(p)
    <3>1. \/ UNCHANGED <<stored, current>>
          \/ LetGo(q, r) /\ r \in checks[q] /\ op[r] # "running"
      BY <2>6 DEF CheckAnswered, CheckFails
    <3> QED
      BY <2>2, <2>3, <3>1
  <2> QED
    BY <1>3, <2>4, <2>5, <2>6 DEF Page
<1> QED
  BY <1>2, <1>3

\* Steps of a user who looks elsewhere, comes back or reloads.
LEMMA LooksMoves ==
  ASSUME TypeInv, NEW q \in Pages, NEW p \in Pages, Select(q) \/ Reload(q) \/ SelectOther(q)
  PROVE  Keeps(p) \/ Looks(p)
<1>0. PageTypes /\ UNCHANGED stored
  BY DEF TypeInv, Types, Select, Reload, SelectOther
<1>1. checks'[p] \subseteq checks[p]
  BY <1>0 DEF Select, Reload, SelectOther, PageTypes
<1>2. \/ shown' = [shown EXCEPT ![q] = TRUE] /\ current' = [current EXCEPT ![q] = stored[q]]
      \/ shown' = [shown EXCEPT ![q] = FALSE] /\ current' = [current EXCEPT ![q] = NoRun]
  BY DEF Select, Reload, SelectOther, Shows
<1>3. CASE p = q
  BY <1>0, <1>1, <1>2, <1>3 DEF Looks, PageTypes
<1>4. CASE p # q
  BY <1>0, <1>1, <1>2, <1>4 DEF Keeps, PageTypes
<1> QED
  BY <1>3, <1>4

\* Every step, seen from the page p.
LEMMA MemoryMoves ==
  ASSUME TypeInv, [RelayNext]_vars, NEW p \in Pages
  PROVE  Keeps(p) \/ Asks(p) \/ Answers(p) \/ LetsGo(p) \/ Looks(p)
<1>1. ASSUME NEW q \in Pages, Relay(q) \/ RelayText(q) \/ PageLinkBreaks(q) PROVE Keeps(p)
  BY <1>1 DEF Relay, PageLinkBreaks, RelayOpens, RelayChunk, RelayText, RelayEnds, RelayBreaks, Keeps,
     pageVars
<1>2. CASE UNCHANGED vars \/ BridgeRestart \/ \E r \in Runs : Bridge(r)
  BY <1>2 DEF vars, BridgeRestart, Bridge, BridgeFinishes, BridgeCompletes, BridgeFails,
     BridgeTellsFailure, BridgeTells, Keeps, pageVars
<1>3. CASE ConsoleRestart
  BY <1>3 DEF ConsoleRestart, Keeps
<1> QED
  BY <1>1, <1>2, <1>3, StartingMoves, PageMoves, LooksMoves DEF RelayNext, User

\* The runs a page has heard of.
Heard(p) == checks[p] \cup {current[p], stored[p]}

\* A run exists before a page hears of it, and until its start is answered no
\* page has heard of it and no other start is about it.
OwnInv ==
  /\ \A p \in Pages, r \in Runs : r \in Heard(p) \cup {start[p].run} => status[r] # "none"
  /\ \A p \in Pages, q \in Pages : start[p].run \in Runs =>
       /\ start[p].run \notin Heard(q)
       /\ start[q].run = start[p].run => q = p

\* A page follows a run only while it shows the session, and remembers one then.
\* If that is a later one, it does not ask about it: no verdict can drop it.
FollowInv ==
  \A p \in Pages :
    /\ ~shown[p] => current[p] = NoRun
    /\ start[p].step # "idle" /\ start[p].page = "fresh" => shown[p]
    /\ current[p] # NoRun => stored[p] # NoRun
    /\ current[p] # NoRun /\ stored[p] # current[p] => stored[p] \notin checks[p]

\* A live run holds the slot of the session, unless the end of another turn gave
\* it up: that turn has completed or failed, be it some time ago.
SlotInv ==
  /\ \A r \in failing : status[r] = "failed"
  /\ \A r \in Runs : Live(r) /\ r \notin robbed => slot = r

\* The row is settled before the page can hear the end, and no run that is
\* remembered and holds its slot is live while another one is being started.
SettledInv ==
  \A p \in Pages :
    /\ pipe[p] \in Ends => op[current[p]] # "running"
    /\ start[p].run \in Runs => ~Live(stored[p]) \/ stored[p] \in robbed

MemoryInv == TypeInv /\ BufferInv /\ OwnInv /\ FollowInv /\ SlotInv /\ SettledInv

\* What becomes of a start.
LEMMA StartRuns ==
  ASSUME TypeInv, [RelayNext]_vars, NEW p \in Pages
  PROVE  \/ start'[p].run \in {start[p].run, NoRun}
         \/ BridgeAccepts(p, start'[p].run) /\ start'[p].run \in Runs
<1>0. start \in [Pages -> Starts] /\ NoStart.run = NoRun
  BY DEF TypeInv, Types, StartTypes, NoStart
<1>1. ASSUME NEW q \in Pages, NEW r \in Runs, BridgeAccepts(q, r)
      PROVE  \/ start'[p].run = start[p].run
             \/ p = q /\ start'[p].run = r
  BY <1>0, <1>1 DEF BridgeAccepts, StartMoves, Starts
<1>2. ASSUME NEW q \in Pages, \/ StartMoves(q, NoStart)
                              \/ StartMoves(q, [NoStart EXCEPT !.step = "sent"])
                              \/ StartMoves(q, start[q])
                              \/ StartMoves(q, [start[q] EXCEPT !.step = "recorded"])
                              \/ \E page \in {"stale", "gone"} :
                                   StartMoves(q, [start[q] EXCEPT !.page = page])
      PROVE  start'[p].run \in {start[p].run, NoRun}
  BY <1>0, <1>2 DEF StartMoves, Starts, NoStart
<1>3. ASSUME UNCHANGED start \/ ConsoleRestart PROVE start'[p].run \in {start[p].run, NoRun}
  BY <1>0, <1>3 DEF ConsoleRestart
<1>4. ASSUME NEW q \in Pages, Starting(q), \A r \in Runs : ~BridgeAccepts(q, r)
      PROVE  start'[p].run \in {start[p].run, NoRun}
  BY <1>2, <1>4 DEF Starting, RecordStart, StartRefused, StartFails, StartAnswered
<1>5. ASSUME NEW q \in Pages, User(q) PROVE start'[p].run \in {start[p].run, NoRun}
  <2>1. CASE StopUnknown(q)
    BY <1>3, <2>1 DEF StopUnknown
  <2>2. CASE Submit(q) \/ Select(q) \/ Reload(q) \/ SelectOther(q)
    BY <1>2, <2>2 DEF Submit, Select, Reload, SelectOther, LookedAway
  <2> QED
    BY <1>5, <2>1, <2>2 DEF User
<1>6. ASSUME NEW q \in Pages, Relay(q) \/ RelayText(q) \/ PageLinkBreaks(q) \/ Page(q)
      PROVE  UNCHANGED start
  BY <1>6 DEF Relay, PageLinkBreaks, Page, RelayOpens, RelayChunk, RelayText, RelayEnds, RelayBreaks,
     HandleEvent, OnError, CheckAnswered, CheckFails, pageVars
<1>7. ASSUME UNCHANGED vars \/ BridgeRestart \/ \E r \in Runs : Bridge(r) PROVE UNCHANGED start
  BY <1>7 DEF vars, BridgeRestart, Bridge, BridgeFinishes, BridgeCompletes, BridgeFails,
     BridgeTellsFailure, BridgeTells, pageVars
<1> QED
  BY <1>1, <1>3, <1>4, <1>5, <1>6, <1>7 DEF RelayNext

\* What becomes of a run.
LEMMA RunMoves ==
  ASSUME TypeInv, [RelayNext]_vars, NEW r \in Runs
  PROVE  /\ status[r] # "none" => status'[r] # "none"
         /\ \A q \in Pages : BridgeAccepts(q, r) => status'[r] # "none"
         /\ status'[r] = "running" /\ r \in known' => Live(r) \/ \E q \in Pages : BridgeAccepts(q, r)
<1>0. status \in [Runs -> {"none", "running"} \cup Ends] /\ known \subseteq Runs
  BY DEF TypeInv, Types, RunTypes
<1>1. ASSUME NEW q \in Pages, NEW s \in Runs, BridgeAccepts(q, s)
      PROVE  /\ status'[r] = IF r = s THEN "running" ELSE status[r]
             /\ known' = known \cup {s}
  BY <1>0, <1>1 DEF BridgeAccepts, Start
<1>2. ASSUME NEW s \in Runs, Bridge(s)
      PROVE  /\ known' = known
             /\ \/ status'[r] = status[r]
                \/ status[r] = "running" /\ status'[r] \in {"completed", "failed"}
  BY <1>0, <1>2 DEF Bridge, BridgeFinishes, BridgeCompletes, BridgeFails, BridgeTellsFailure,
     BridgeTells, Complete, Fail, Emit, relayVars, bridgeVars
<1>3. ASSUME UNCHANGED vars \/ BridgeRestart \/ ConsoleRestart
      PROVE  UNCHANGED status /\ known' \subseteq known
  BY <1>3 DEF vars, BridgeRestart, ConsoleRestart, LeaveAll, contractVars, runVars, relayVars,
     bridgeVars
<1>4. ASSUME NEW q \in Pages, Starting(q), \A s \in Runs : ~BridgeAccepts(q, s)
      PROVE  UNCHANGED <<status, known>>
  BY <1>4 DEF Starting, RecordStart, StartRefused, StartFails, StartAnswered, contractVars, relayVars,
     bridgeVars
<1>5. ASSUME NEW q \in Pages, Relay(q) \/ RelayText(q) \/ PageLinkBreaks(q)
      PROVE  UNCHANGED <<status, known>>
  BY <1>5 DEF Relay, PageLinkBreaks, RelayOpens, RelayChunk, RelayText, RelayEnds, RelayBreaks,
     RelayOver, Connect, Deliver, End, Leave, contractVars, runVars, bridgeVars
<1>6. ASSUME NEW q \in Pages, Page(q) \/ User(q)
      PROVE  UNCHANGED <<status, known>>
  BY <1>6 DEF Page, User, HandleEvent, OnError, CheckAnswered, CheckFails, Submit, StopUnknown,
     Select, Reload, SelectOther, contractVars, runVars, relayVars, bridgeVars
<1>7. \A q \in Pages : BridgeAccepts(q, r) => status'[r] # "none"
  BY <1>1
<1>8. CASE UNCHANGED status /\ known' \subseteq known
  BY <1>7, <1>8 DEF Live
<1>9. CASE \E s \in Runs : Bridge(s) \/ \E q \in Pages : BridgeAccepts(q, s)
  BY <1>0, <1>1, <1>2, <1>7, <1>9 DEF Live
<1> QED
  BY <1>3, <1>4, <1>5, <1>6, <1>7, <1>8, <1>9 DEF RelayNext

\* Every step keeps OwnInv: a new run is new to everybody, and its answer goes to one page.
LEMMA OwnKept ==
  ASSUME TypeInv, TypeInv', OwnInv, [RelayNext]_vars
  PROVE  OwnInv'
<1>0. NoRun \notin Runs /\ NoStart.run = NoRun
  BY RelayAssumption DEF NoStart
<1>1. ASSUME NEW p \in Pages, NEW r \in Runs, r \in Heard(p)'
      PROVE  r \in Heard(p) \/ (r = start[p].run /\ start'[p] = NoStart)
  <2>1. CASE Keeps(p) \/ Asks(p) \/ Looks(p)
    BY <1>0, <1>1, <2>1 DEF Keeps, Asks, Looks, Heard
  <2>2. CASE LetsGo(p)
    BY <1>0, <1>1, <2>2 DEF LetsGo, Heard
  <2>3. CASE Answers(p)
    BY <1>1, <2>3 DEF Answers, Heard
  <2> QED
    BY <2>1, <2>2, <2>3, MemoryMoves
<1>2. ASSUME NEW p \in Pages, NEW r \in Runs, r \in Heard(p)' \/ r = start'[p].run
      PROVE  status'[r] # "none"
  <2>1. CASE r \in Heard(p) \/ r = start[p].run
    <3>1. status[r] # "none"
      BY <2>1 DEF OwnInv
    <3> QED
      BY <3>1, RunMoves
  <2>2. CASE BridgeAccepts(p, r)
    BY <2>2, RunMoves
  <2> QED
    BY <1>0, <1>1, <1>2, <2>1, <2>2, StartRuns
<1>3. ASSUME NEW p \in Pages, NEW q \in Pages, start'[p].run \in Runs
      PROVE  /\ start'[p].run \notin Heard(q)'
             /\ start'[q].run = start'[p].run => q = p
  <2> DEFINE r == start'[p].run
  <2>1. CASE start[p].run = r
    <3>1. r \notin Heard(q) /\ (start[q].run = r => q = p) /\ status[r] # "none"
      BY <1>3, <2>1 DEF OwnInv
    <3>2. r \notin Heard(q)'
      BY <1>0, <1>1, <1>3, <3>1
    <3>3. start'[q].run = r => q = p
      BY <1>0, <1>3, <3>1, StartRuns DEF BridgeAccepts, Start
    <3> QED
      BY <3>2, <3>3
  <2>2. CASE start[p].run # r
    <3>1. BridgeAccepts(p, r) /\ r \in Runs
      BY <1>0, <1>3, <2>2, StartRuns
    <3>2. status[r] = "none" /\ UNCHANGED <<shown, stored, current, checks>>
      BY <3>1 DEF BridgeAccepts, Start
    <3>3. r \notin Heard(q)' /\ start[q].run # r
      BY <3>1, <3>2 DEF OwnInv, Heard
    <3>4. q # p => start'[q] = start[q]
      BY <3>1 DEF BridgeAccepts, StartMoves, TypeInv, Types, StartTypes
    <3> QED
      BY <3>3, <3>4
  <2> QED
    BY <2>1, <2>2
<1> QED
  BY <1>2, <1>3 DEF OwnInv

\* A page that a start finds as it was shows the session.
LEMMA FreshIsShown ==
  ASSUME TypeInv, [RelayNext]_vars, NEW p \in Pages,
         start[p].step # "idle" /\ start[p].page = "fresh" => shown[p]
  PROVE  start'[p].step # "idle" /\ start'[p].page = "fresh" => shown'[p]
<1>0. /\ start \in [Pages -> Starts] /\ shown \in [Pages -> BOOLEAN] /\ NoStart.step = "idle"
  BY DEF TypeInv, Types, StartTypes, PageTypes, NoStart
<1>1. CASE start'[p] = start[p] /\ shown'[p] = shown[p]
  BY <1>1
<1>2. ASSUME NEW q \in Pages, NEW r \in Runs, BridgeAccepts(q, r)
      PROVE  start'[p].step # "idle" /\ start'[p].page = "fresh" => shown'[p]
  BY <1>0, <1>2 DEF BridgeAccepts, StartMoves, Starts
<1>3. ASSUME NEW q \in Pages, Starting(q) \/ Submit(q), \A r \in Runs : ~BridgeAccepts(q, r)
      PROVE  start'[p].step # "idle" /\ start'[p].page = "fresh" => shown'[p]
  <2>1. /\ UNCHANGED shown
        /\ \/ StartMoves(q, NoStart)
           \/ StartMoves(q, [NoStart EXCEPT !.step = "sent"]) /\ shown[q]
           \/ StartMoves(q, [start[q] EXCEPT !.step = "recorded"]) /\ start[q].step # "idle"
    BY <1>3 DEF Starting, Submit, RecordStart, StartRefused, StartFails, StartAnswered
  <2> QED
    BY <1>0, <2>1 DEF StartMoves, Starts
<1>4. ASSUME NEW q \in Pages, Select(q) \/ Reload(q) \/ SelectOther(q)
      PROVE  start'[p].step # "idle" /\ start'[p].page = "fresh" => shown'[p]
  <2>1. CASE p = q
    BY <1>0, <1>4, <2>1 DEF Select, Reload, SelectOther, LookedAway, StartMoves, Starts
  <2>2. CASE p # q
    BY <1>0, <1>1, <1>4, <2>2 DEF Select, Reload, SelectOther, LookedAway, StartMoves, Shows
  <2> QED
    BY <2>1, <2>2
<1>5. ASSUME NEW q \in Pages,
             Relay(q) \/ RelayText(q) \/ PageLinkBreaks(q) \/ Page(q) \/ StopUnknown(q)
      PROVE  UNCHANGED <<start, shown>>
  BY <1>5 DEF Relay, PageLinkBreaks, Page, RelayOpens, RelayChunk, RelayText, RelayEnds, RelayBreaks,
     HandleEvent, OnError, CheckAnswered, CheckFails, StopUnknown, pageVars
<1>6. ASSUME UNCHANGED vars \/ BridgeRestart \/ \E r \in Runs : Bridge(r)
      PROVE  UNCHANGED <<start, shown>>
  BY <1>6 DEF vars, BridgeRestart, Bridge, BridgeFinishes, BridgeCompletes, BridgeFails,
     BridgeTellsFailure, BridgeTells, pageVars
<1>7. CASE ConsoleRestart
  BY <1>0, <1>7 DEF ConsoleRestart
<1> QED
  BY <1>1, <1>2, <1>3, <1>4, <1>5, <1>6, <1>7 DEF RelayNext, User

\* Every step keeps FollowInv: the answer to a start is a run nobody asks about.
LEMMA FollowKept ==
  ASSUME TypeInv, OwnInv, FollowInv, [RelayNext]_vars
  PROVE  FollowInv'
<1> SUFFICES ASSUME NEW p \in Pages
             PROVE  /\ ~shown'[p] => current'[p] = NoRun
                    /\ start'[p].step # "idle" /\ start'[p].page = "fresh" => shown'[p]
                    /\ current'[p] # NoRun => stored'[p] # NoRun
                    /\ current'[p] # NoRun /\ stored'[p] # current'[p] => stored'[p] \notin checks'[p]
  BY DEF FollowInv
<1>0. /\ ~shown[p] => current[p] = NoRun
      /\ start[p].step # "idle" /\ start[p].page = "fresh" => shown[p]
      /\ current[p] # NoRun => stored[p] # NoRun
      /\ current[p] # NoRun /\ stored[p] # current[p] => stored[p] \notin checks[p]
      /\ NoRun \notin Runs
  BY RelayAssumption DEF FollowInv
<1>1. start'[p].step # "idle" /\ start'[p].page = "fresh" => shown'[p]
  BY <1>0, FreshIsShown
<1>2. CASE Keeps(p) \/ Asks(p)
  BY <1>0, <1>1, <1>2 DEF Keeps, Asks
<1>3. CASE Looks(p)
  BY <1>0, <1>1, <1>3 DEF Looks
<1>4. CASE LetsGo(p)
  BY <1>0, <1>1, <1>4 DEF LetsGo
<1>5. CASE Answers(p)
  <2>1. start[p].run \notin checks[p]
    BY <1>5 DEF Answers, OwnInv, Heard
  <2> QED
    BY <1>0, <1>1, <1>5, <2>1 DEF Answers
<1> QED
  BY <1>2, <1>3, <1>4, <1>5, MemoryMoves

\* Only the recording of a start sets a row to running.
LEMMA RowMoves ==
  ASSUME TypeInv, [RelayNext]_vars, NEW r \in Runs, op'[r] = "running"
  PROVE  op[r] = "running" \/ \E q \in Pages : start[q].run = r
<1>0. RunTypes /\ LinksInv
  BY DEF TypeInv, Types
<1>1. ASSUME NEW q \in Pages, Starting(q) \/ Submit(q)
      PROVE  op[r] = "running" \/ \E s \in Pages : start[s].run = r
  BY <1>0, <1>1 DEF Starting, Submit, RecordStart, StartRefused, StartFails, StartAnswered,
     BridgeAccepts, relayVars, RunTypes
<1>2. ASSUME NEW q \in Pages, RelayChunk(q) \/ RelayText(q) PROVE op[r] = "running"
  <2>1. PICK n : Searches(q, n)
    BY <1>2 DEF RelayChunk, RelayText
  <2> DEFINE s == streamRun[q]
             outcome == Outcome(q, n, s)
  <2>2. Record(s, outcome) /\ s \in Runs
    BY <1>0, <1>2, <2>1 DEF RelayChunk, RelayText, Searches, LinksInv
  <2>3. outcome \in Outcomes \cup {op[s]} /\ "running" \notin Outcomes
    BY OutcomeCases DEF Outcomes
  <2> HIDE DEF outcome
  <2>4. op'[r] = op[r] \/ (r = s /\ op'[r] = outcome)
    BY <1>0, <2>2 DEF Record, RunTypes
  <2> QED
    BY <2>3, <2>4
<1>3. ASSUME NEW q \in Pages, RelayOpens(q) \/ RelayEnds(q) \/ RelayBreaks(q) PROVE op[r] = "running"
  <2>1. UNCHANGED op \/ \E s : Record(s, "failed")
    BY <1>3 DEF RelayOpens, RelayEnds, RelayBreaks
  <2> QED
    BY <1>0, <2>1 DEF Record, RunTypes
<1>4. ASSUME NEW q \in Pages, PageLinkBreaks(q) \/ Page(q) \/ User(q), ~Submit(q) PROVE op[r] = "running"
  BY <1>4 DEF PageLinkBreaks, Page, User, HandleEvent, OnError, CheckAnswered, CheckFails, StopUnknown,
     Select, Reload, SelectOther, relayVars
<1>5. CASE UNCHANGED vars \/ BridgeRestart \/ ConsoleRestart \/ \E s \in Runs : Bridge(s)
  BY <1>5 DEF vars, BridgeRestart, ConsoleRestart, Bridge, BridgeFinishes, BridgeCompletes, BridgeFails,
     BridgeTellsFailure, BridgeTells, relayVars
<1> QED
  BY <1>1, <1>2, <1>3, <1>4, <1>5 DEF RelayNext, Relay

\* An end is in the pipe because the relay has just passed it on, or was there.
LEMMA PipeMoves ==
  ASSUME TypeInv, [RelayNext]_vars, NEW p \in Pages, pipe'[p] \in Ends
  PROVE  RelayChunk(p) \/ (pipe'[p] = pipe[p] /\ current'[p] = current[p])
<1>0. /\ pipe \in [Pages -> Told \cup {"none"}] /\ current \in [Pages -> Runs \cup {NoRun}]
      /\ PageTypes /\ LinkTypes /\ LinksInv /\ StartsInv /\ NoRun \notin Runs /\ "none" \notin Ends
  BY RelayAssumption DEF TypeInv, Types, LinkTypes, PageTypes, Ends
<1>1. ASSUME NEW q \in Pages, Starting(q) \/ Submit(q)
      PROVE  pipe'[p] = pipe[p] /\ current'[p] = current[p]
  <2>1. UNCHANGED pipe
    BY <1>1 DEF Starting, Submit, RecordStart, StartRefused, StartFails, StartAnswered,
       BridgeAccepts, relayVars
  <2>2. CASE StartAnswered(q) /\ start[q].page = "fresh"
    <3>1. current' = [current EXCEPT ![q] = start[q].run] /\ current[q] = NoRun
      BY <1>0, <2>2 DEF StartAnswered, StartsInv
    <3>2. pipe[q] = "none"
      BY <1>0, <3>1 DEF LinksInv
    <3> QED
      BY <1>0, <2>1, <3>1, <3>2
  <2>3. CASE UNCHANGED current
    BY <2>1, <2>3
  <2> QED
    BY <1>1, <2>2, <2>3 DEF Starting, Submit, RecordStart, StartRefused, StartFails, StartAnswered,
       BridgeAccepts
<1>2. ASSUME NEW q \in Pages, Relay(q) \/ RelayText(q)
      PROVE  RelayChunk(p) \/ (pipe'[p] = pipe[p] /\ current'[p] = current[p])
  BY <1>0, <1>2 DEF Relay, RelayOpens, RelayChunk, RelayText, RelayEnds, RelayBreaks, pageVars
<1>3. ASSUME NEW q \in Pages, NEW r, LetGo(q, r)
      PROVE  pipe'[p] = pipe[p] /\ current'[p] = current[p]
  BY <1>0, <1>3, LetGoPages, LetGoType
<1>4. ASSUME NEW q \in Pages, pipe' = [pipe EXCEPT ![q] = "none"],
             current' = current \/ \E to : current' = [current EXCEPT ![q] = to]
      PROVE  pipe'[p] = pipe[p] /\ current'[p] = current[p]
  BY <1>0, <1>4
<1>5. ASSUME NEW q \in Pages, PageLinkBreaks(q) \/ OnError(q) \/ Select(q) \/ Reload(q) \/ SelectOther(q)
      PROVE  pipe'[p] = pipe[p] /\ current'[p] = current[p]
  BY <1>4, <1>5 DEF PageLinkBreaks, OnError, Select, Reload, SelectOther, CloseSource, Shows
<1>6. ASSUME NEW q \in Pages, HandleEvent(q) \/ StopUnknown(q)
               \/ \E r \in Runs : CheckAnswered(q, r) \/ CheckFails(q, r)
      PROVE  pipe'[p] = pipe[p] /\ current'[p] = current[p]
  BY <1>3, <1>4, <1>6 DEF HandleEvent, StopUnknown, CheckAnswered, CheckFails, relayVars
<1>7. CASE UNCHANGED vars \/ BridgeRestart \/ \E r \in Runs : Bridge(r)
  BY <1>7 DEF vars, BridgeRestart, Bridge, BridgeFinishes, BridgeCompletes, BridgeFails,
     BridgeTellsFailure, BridgeTells, relayVars, pageVars
<1>8. CASE ConsoleRestart
  BY <1>0, <1>8 DEF ConsoleRestart
<1> QED
  BY <1>1, <1>2, <1>5, <1>6, <1>7, <1>8 DEF RelayNext, Page, User

\* What becomes of the slot.
LEMMA SlotMoves ==
  ASSUME TypeInv, [RelayNext]_vars
  PROVE  \/ UNCHANGED <<slot, robbed>> /\ failing' \subseteq failing
         \/ known' = {} /\ failing' = {} /\ robbed' = robbed
         \/ \E q \in Pages, r \in Runs : BridgeAccepts(q, r)
         \/ \E r \in Runs : BridgeFinishes(r)
<1>1. ASSUME NEW r \in Runs, Bridge(r)
      PROVE  UNCHANGED <<slot, robbed, failing>> \/ BridgeFinishes(r)
  BY <1>1 DEF Bridge, BridgeTells, relayVars, bridgeVars
<1>2. ASSUME NEW q \in Pages, Starting(q), \A r \in Runs : ~BridgeAccepts(q, r)
      PROVE  UNCHANGED <<slot, robbed, failing>>
  BY <1>2 DEF Starting, RecordStart, StartRefused, StartFails, StartAnswered, relayVars, bridgeVars
<1>3. ASSUME NEW q \in Pages, Relay(q) \/ RelayText(q) \/ PageLinkBreaks(q)
      PROVE  UNCHANGED <<slot, robbed, failing>>
  BY <1>3 DEF Relay, PageLinkBreaks, RelayOpens, RelayChunk, RelayText, RelayEnds, RelayBreaks, bridgeVars
<1>4. ASSUME NEW q \in Pages, Page(q) \/ User(q)
      PROVE  UNCHANGED <<slot, robbed, failing>>
  BY <1>4 DEF Page, User, HandleEvent, OnError, CheckAnswered, CheckFails, Submit, StopUnknown,
     Select, Reload, SelectOther, relayVars, bridgeVars
<1>5. CASE UNCHANGED vars \/ ConsoleRestart
  BY <1>5 DEF vars, ConsoleRestart, relayVars, bridgeVars
<1>6. CASE BridgeRestart
  BY <1>6 DEF BridgeRestart
<1> QED
  BY <1>1, <1>2, <1>3, <1>4, <1>5, <1>6 DEF RelayNext

\* Every step keeps SlotInv: who gives up the slot of another run is known.
LEMMA SlotKept ==
  ASSUME TypeInv, SlotInv, [RelayNext]_vars
  PROVE  SlotInv' /\ robbed \subseteq robbed'
<1>0. /\ status \in [Runs -> {"none", "running"} \cup Ends] /\ known \subseteq Runs
      /\ failing \subseteq Runs /\ NoRun \notin Runs
  BY RelayAssumption DEF TypeInv, Types, RunTypes
<1>1. ASSUME \A r \in failing' : status'[r] = "failed", robbed \subseteq robbed',
             \A r \in Runs : r \in known' /\ status'[r] = "running" /\ r \notin robbed' => slot' = r
      PROVE  SlotInv' /\ robbed \subseteq robbed'
  BY <1>1 DEF SlotInv, Live
<1>2. ASSUME NEW r \in Runs, \A q \in Pages : ~BridgeAccepts(q, r),
             r \in known', status'[r] = "running", r \notin robbed
      PROVE  Live(r) /\ slot = r
  BY <1>2, RunMoves DEF SlotInv
<1>3. ASSUME \A q \in Pages, r \in Runs : ~BridgeAccepts(q, r), \A r \in Runs : ~BridgeFinishes(r)
      PROVE  \A r \in failing' : status'[r] = "failed"
  <2>1. failing' \subseteq failing
    BY <1>3, SlotMoves
  <2>2. UNCHANGED status
    <3>1. ASSUME NEW r \in Runs, Bridge(r) PROVE UNCHANGED status
      BY <1>3, <3>1 DEF Bridge, BridgeTells, Emit
    <3>2. ASSUME NEW q \in Pages, Starting(q) PROVE UNCHANGED status
      BY <1>3, <3>2 DEF Starting, RecordStart, StartRefused, StartFails, StartAnswered, contractVars
    <3>3. ASSUME NEW q \in Pages, Relay(q) \/ RelayText(q) \/ PageLinkBreaks(q) PROVE UNCHANGED status
      BY <3>3 DEF Relay, PageLinkBreaks, RelayOpens, RelayChunk, RelayText, RelayEnds, RelayBreaks,
         RelayOver, Connect, Deliver, End, Leave, contractVars, runVars
    <3>4. ASSUME NEW q \in Pages, Page(q) \/ User(q) PROVE UNCHANGED status
      BY <3>4 DEF Page, User, HandleEvent, OnError, CheckAnswered, CheckFails, Submit, StopUnknown,
         Select, Reload, SelectOther, contractVars, runVars
    <3>5. CASE UNCHANGED vars \/ BridgeRestart \/ ConsoleRestart
      BY <3>5 DEF vars, BridgeRestart, ConsoleRestart, LeaveAll, contractVars, runVars
    <3> QED
      BY <3>1, <3>2, <3>3, <3>4, <3>5 DEF RelayNext
  <2> QED
    BY <2>1, <2>2 DEF SlotInv
<1>4. ASSUME NEW q \in Pages, NEW s \in Runs, BridgeAccepts(q, s)
      PROVE  SlotInv' /\ robbed \subseteq robbed'
  <2>1. /\ ~Live(slot) /\ slot' = s /\ UNCHANGED <<failing, robbed>> /\ known' = known \cup {s}
        /\ status[s] = "none" /\ status' = [status EXCEPT ![s] = "running"]
    BY <1>4 DEF BridgeAccepts, Start
  <2>2. \A r \in Runs \ {s} : Live(r) => r \in robbed
    BY <2>1 DEF SlotInv
  <2>3. \A r \in Runs \ {s} : r \in known' /\ status'[r] = "running" => Live(r)
    BY <1>0, <2>1 DEF Live
  <2>4. \A r \in failing' : status'[r] = "failed"
    BY <1>0, <2>1 DEF SlotInv
  <2> QED
    BY <1>1, <2>1, <2>2, <2>3, <2>4
<1>5. ASSUME NEW s \in Runs, BridgeCompletes(s) \/ BridgeTellsFailure(s)
      PROVE  SlotInv' /\ robbed \subseteq robbed'
  <2>1. /\ robbed' = robbed \cup ({slot} \ {s, NoRun}) /\ UNCHANGED known
        /\ failing' \subseteq failing
    BY <1>5 DEF BridgeCompletes, BridgeTellsFailure, FreesSlot
  <2>2. /\ status'[s] # "running" /\ \A r \in failing : status'[r] = "failed"
        /\ \A r \in Runs : status'[r] = "running" => status[r] = "running"
    BY <1>0, <1>5 DEF BridgeCompletes, BridgeTellsFailure, Complete, Emit, SlotInv
  <2>3. \A r \in Runs : r \in known' /\ status'[r] = "running" => r \in robbed'
    BY <1>0, <2>1, <2>2 DEF SlotInv, Live
  <2> QED
    BY <1>1, <2>1, <2>2, <2>3
<1>6. ASSUME NEW s \in Runs, BridgeFails(s)
      PROVE  SlotInv' /\ robbed \subseteq robbed'
  <2>1. /\ UNCHANGED <<slot, robbed, known>> /\ failing' = failing \cup {s}
        /\ status' = [status EXCEPT ![s] = "failed"] /\ status[s] = "running"
    BY <1>6 DEF BridgeFails, Fail
  <2>2. \A r \in failing' : status'[r] = "failed"
    BY <1>0, <2>1 DEF SlotInv
  <2>3. \A r \in Runs : r \in known' /\ status'[r] = "running" => Live(r)
    BY <1>0, <2>1 DEF Live
  <2> QED
    BY <1>1, <2>1, <2>2, <2>3 DEF SlotInv
<1>7. CASE /\ \A q \in Pages, r \in Runs : ~BridgeAccepts(q, r)
           /\ \A r \in Runs : ~BridgeFinishes(r)
  <2>1. CASE UNCHANGED <<slot, robbed>>
    BY <1>1, <1>2, <1>3, <1>7, <2>1
  <2>2. CASE known' = {} /\ robbed' = robbed
    BY <1>1, <1>3, <1>7, <2>2
  <2> QED
    BY <1>7, <2>1, <2>2, SlotMoves
<1> QED
  BY <1>4, <1>5, <1>6, <1>7 DEF BridgeFinishes

\* Every step keeps SettledInv: rows are written before the chunk is passed on.
LEMMA SettledKept ==
  ASSUME TypeInv, TypeInv', BufferInv, OwnInv, SlotInv, SettledInv, [RelayNext]_vars
  PROVE  SettledInv'
<1> SUFFICES ASSUME NEW p \in Pages
             PROVE  /\ pipe'[p] \in Ends => op'[current'[p]] # "running"
                    /\ start'[p].run \in Runs
                         => \/ ~(stored'[p] \in known' /\ status'[stored'[p]] = "running")
                            \/ stored'[p] \in robbed'
  BY DEF SettledInv, Live
<1>0. /\ LinkTypes /\ PageTypes /\ LinksInv /\ RunTypes /\ NoRun \notin Runs /\ NoStart.run = NoRun
      /\ known' \subseteq Runs
      /\ pipe[p] \in Ends => op[current[p]] # "running"
      /\ start[p].run \in Runs => ~Live(stored[p]) \/ stored[p] \in robbed
  BY RelayAssumption DEF TypeInv, Types, RunTypes, SettledInv, NoStart
<1>1. ASSUME pipe'[p] \in Ends PROVE op'[current'[p]] # "running"
  <2>1. CASE RelayChunk(p)
    <3> DEFINE r == streamRun[p]
               n == cursor[p] + 1
               event == events[r][n]
    <3>1. /\ Searches(p, n) /\ pipe' = [pipe EXCEPT ![p] = event] /\ dropped[p] <= cursor[p]
          /\ UNCHANGED current /\ r = current[p] /\ r \in Runs
      BY <1>0, <2>1 DEF RelayChunk, LinksInv, BufferInv, pageVars
    <3>2. n \in Nat /\ n \in dropped[p] + 1 .. n
      BY <1>0, <3>1 DEF LinkTypes
    <3>3. event \in Ends
      BY <1>0, <1>1, <3>1 DEF LinkTypes
    <3>4. event \in Buffer(p, n)
      <4>1. Reads(event) = event
        BY <3>3 DEF Reads, Ends
      <4> QED
        BY <3>2, <4>1 DEF Buffer
    <3>5. Outcome(p, n, r) \in Outcomes
      BY <3>3, <3>4 DEF Outcome, Outcomes, Ends
    <3>6. op'[r] = IF op[r] = "none" THEN "none" ELSE Outcome(p, n, r)
      BY <1>0, <3>1, <3>2, SearchesType
    <3> QED
      BY <3>1, <3>5, <3>6 DEF Outcomes
  <2>2. CASE pipe'[p] = pipe[p] /\ current'[p] = current[p]
    <3>1. current[p] \in Runs /\ op[current[p]] # "running"
      BY <1>0, <1>1, <2>2 DEF LinksInv, Ends
    <3>2. \A q \in Pages : start[q].run # current[p]
      BY <3>1 DEF OwnInv, Heard
    <3> QED
      BY <2>2, <3>1, <3>2, RowMoves
  <2> QED
    BY <1>1, <2>1, <2>2, PipeMoves
<1>2. ASSUME start'[p].run \in Runs, stored'[p] \in known', status'[stored'[p]] = "running",
             stored'[p] \notin robbed'
      PROVE  FALSE
  <2> DEFINE r == stored'[p]
  <2>1. r \in Runs /\ r = stored[p]
    BY <1>0, <1>2, MemoryMoves DEF Keeps, Asks, Answers, LetsGo, Looks
  <2>2. status[r] # "none"
    BY <2>1 DEF OwnInv, Heard
  <2>3. Live(r)
    BY <1>2, <2>1, <2>2, RunMoves DEF BridgeAccepts, Start
  <2>4. start[p].run \notin Runs /\ slot = r
    BY <1>0, <1>2, <2>1, <2>3, SlotKept DEF SlotInv
  <2>5. BridgeAccepts(p, start'[p].run)
    BY <1>0, <1>2, <2>4, StartRuns
  <2> QED
    BY <2>3, <2>4, <2>5 DEF BridgeAccepts
<1> QED
  BY <1>1, <1>2

\* All of them together.
LEMMA MemoryIsKept == RelaySpec => []MemoryInv
<1>1. RelayInit => MemoryInv
  <2> SUFFICES ASSUME RelayInit PROVE MemoryInv
    OBVIOUS
  <2>1. NoStart.run = NoRun /\ NoStart.step = "idle" /\ NoRun \notin Runs /\ "none" \notin Ends
    BY RelayAssumption DEF NoStart, Ends
  <2>2. OwnInv
    BY <2>1 DEF RelayInit, OwnInv, Heard
  <2>3. FollowInv
    BY <2>1 DEF RelayInit, FollowInv
  <2>4. SettledInv
    BY <2>1 DEF RelayInit, SettledInv
  <2>5. SlotInv /\ BufferInv
    BY DEF RelayInit, SlotInv, Live, BufferInv
  <2> QED
    BY <2>2, <2>3, <2>4, <2>5, InitTypeInv DEF MemoryInv
<1>2. MemoryInv /\ [RelayNext]_vars => MemoryInv'
  BY NextTypeInv, BufferKept, OwnKept, FollowKept, SlotKept, SettledKept DEF MemoryInv
<1> QED
  BY <1>1, <1>2, PTL DEF RelaySpec

\* While a page follows a run it remembers one: a reload finds it, and no late
\* verdict on an earlier run takes it away.
THEOREM FollowedRemembered == RelaySpec => []FollowedIsRemembered
<1>1. MemoryInv => FollowedIsRemembered
  BY DEF MemoryInv, FollowInv, FollowedIsRemembered
<1> QED
  BY <1>1, MemoryIsKept, PTL

\* What a page remembers is given up only when its row is settled, or the turn is
\* no longer running, or the end of another turn took its slot.
THEOREM GivenUpSettled == RelaySpec => GivenUpWhenSettled
<1>1. ASSUME MemoryInv, [RelayNext]_vars, NEW p \in Pages, stored[p] \in Runs, stored'[p] # stored[p]
      PROVE  op'[stored[p]] # "running" \/ ~Live(stored[p]) \/ stored[p] \in robbed
  <2>0. TypeInv /\ NoRun \notin Runs
    BY <1>1, RelayAssumption DEF MemoryInv
  <2>1. CASE Answers(p)
    BY <1>1, <2>1 DEF Answers, MemoryInv, SettledInv
  <2>2. CASE LetsGo(p)
    <3>1. PICK r \in Runs :
            /\ \/ r \in checks[p] /\ op[r] # "running"
               \/ r = current[p] /\ pipe[p] \in Ends
               \/ r = current[p] /\ r \notin known
            /\ stored'[p] = IF stored[p] = r THEN NoRun ELSE stored[p]
            /\ UNCHANGED op
      BY <2>2 DEF LetsGo
    <3>2. stored[p] = r
      BY <1>1, <3>1
    <3>3. pipe[p] \in Ends => op[current[p]] # "running"
      BY <1>1 DEF MemoryInv, SettledInv
    <3> QED
      BY <3>1, <3>2, <3>3 DEF Live
  <2>3. CASE Keeps(p) \/ Asks(p) \/ Looks(p)
    BY <1>1, <2>3 DEF Keeps, Asks, Looks
  <2> QED
    BY <1>1, <2>0, <2>1, <2>2, <2>3, MemoryMoves
<1>2. MemoryInv /\ [RelayNext]_vars
        => [\A p \in Pages : stored[p] \in Runs /\ stored'[p] # stored[p]
              => op'[stored[p]] # "running" \/ ~Live(stored[p]) \/ stored[p] \in robbed]_vars
  BY <1>1
<1> QED
  BY <1>2, MemoryIsKept, PTL DEF RelaySpec, GivenUpWhenSettled

-----------------------------------------------------------------------------
(* TurnRelay moves the bridge only as BridgeContract allows, which         *)
(* RunBridge was shown to implement: what holds of relay and pages here    *)
(* holds of them on top of that bridge.                                    *)

\* Every step is one the contract has, or leaves the bridge alone.
THEOREM RelayUsesContract == RelaySpec => Spec
<1>1. RelayInit => Init
  BY DEF RelayInit
<1>2. ASSUME TypeInv, [RelayNext]_vars PROVE [Next]_contractVars
  <2>1. ASSUME NEW r \in Runs, Bridge(r) PROVE Next
    <3>1. Complete(r) \/ Fail(r) \/ \E event \in Told : Emit(r, event)
      BY <2>1 DEF Bridge, BridgeFinishes, BridgeCompletes, BridgeFails, BridgeTellsFailure, BridgeTells,
         Told, Ends
    <3>2. Told \subseteq EventTypes
      BY DEF Told, Ends, EventTypes
    <3> QED
      BY <3>1, <3>2 DEF Next
  <2>2. ASSUME NEW p \in Pages, Starting(p) PROVE [Next]_contractVars
    BY <2>2 DEF Starting, RecordStart, StartRefused, StartFails, StartAnswered, BridgeAccepts, Next
  <2>3. ASSUME NEW p \in Pages, Relay(p) \/ RelayText(p) PROVE [Next]_contractVars
    <3>1. CASE RelayOpens(p)
      <4>1. CASE current[p] \in known
        <5>1. Connect(p, current[p], 0) /\ current[p] \in Runs
          BY <1>2, <3>1, <4>1 DEF RelayOpens, TypeInv, LinksInv
        <5> QED
          BY <5>1, RelayAssumption DEF Next
      <4>2. CASE current[p] \notin known
        BY <3>1, <4>2 DEF RelayOpens
      <4> QED
        BY <4>1, <4>2
    <3>2. CASE RelayChunk(p) \/ RelayText(p) \/ RelayEnds(p) \/ RelayBreaks(p)
      BY <3>2 DEF RelayChunk, RelayText, RelayEnds, RelayBreaks, RelayOver, Next
    <3> QED
      BY <2>3, <3>1, <3>2 DEF Relay
  <2>4. ASSUME NEW p \in Pages, PageLinkBreaks(p) \/ Page(p) \/ User(p) PROVE [Next]_contractVars
    <3>1. Leave(p) \/ UNCHANGED contractVars
      BY <2>4 DEF PageLinkBreaks, Page, User, HandleEvent, OnError, CheckAnswered, CheckFails, Submit,
         StopUnknown, Select, Reload, SelectOther, LetGo, CloseSource, Shows, RelayOver,
         contractVars, runVars, linkVars, relayVars
    <3> QED
      BY <3>1 DEF Next
  <2>5. CASE UNCHANGED vars \/ BridgeRestart \/ ConsoleRestart
    BY <2>5 DEF vars, BridgeRestart, ConsoleRestart, Next
  <2> QED
    BY <1>2, <2>1, <2>2, <2>3, <2>4, <2>5 DEF RelayNext
<1>3. RelaySpec => []TypeInv
  BY InitTypeInv, NextTypeInv, PTL DEF RelaySpec
<1> QED
  BY <1>1, <1>2, <1>3, PTL DEF RelaySpec, Spec
=============================================================================
