--------------------------- MODULE BridgeContract ---------------------------
(***************************************************************************)
(* What the runtime bridge promises to those who use it over HTTP: runs    *)
(* that end once, lists of events that only grow, and streams that yield a *)
(* list from some place on, in order, and end only when the run has ended  *)
(* and the list is exhausted.                                              *)
(*                                                                         *)
(* RunBridge implements it; TurnRelay is built on it.                      *)
(***************************************************************************)
EXTENDS Naturals, Sequences

CONSTANTS
  Runs, Streams, NoRun,
  Afters       \* the places in a list that a stream may be asked to begin at

VARIABLES
  status,      \* of a run, "none" before it exists
  events,      \* its list of events
  streamRun,   \* the run a stream is about
  link,        \* a stream: "off", "open" or "ended" by the bridge
  cursor       \* how many events it has yielded or skipped

contractVars == <<status, events, streamRun, link, cursor>>
runVars == <<status, events>>
linkVars == <<streamRun, link, cursor>>

\* Texts that quote the head of an event that ends a turn.
Quotes == {"quotes_completed", "quotes_interrupted", "quotes_failed"}

EventTypes == {"started", "text_delta", "approval", "approval_resolved",
               "completed", "failed"} \cup Quotes

Tells(r) == \E i \in 1..Len(events[r]) : events[r][i] \in {"completed", "failed"}

Init ==
  /\ status = [r \in Runs |-> "none"]
  /\ events = [r \in Runs |-> <<>>]
  /\ streamRun = [s \in Streams |-> NoRun]
  /\ link = [s \in Streams |-> "off"]
  /\ cursor = [s \in Streams |-> 0]

Start(r) ==
  /\ status[r] = "none"
  /\ status' = [status EXCEPT ![r] = "running"]
  /\ UNCHANGED <<events, linkVars>>

\* Once a run has ended, only the end of a failed one and late answers to
\* approvals are still told.
Emit(r, event) ==
  /\ \/ status[r] = "running"
     \/ status[r] # "none" /\ event = "approval_resolved"
     \/ status[r] = "failed" /\ event = "failed"
  /\ events' = [events EXCEPT ![r] = Append(@, event)]
  /\ UNCHANGED <<status, linkVars>>

\* A run completes after it has told its end.
Complete(r) ==
  /\ status[r] = "running"
  /\ Tells(r)
  /\ status' = [status EXCEPT ![r] = "completed"]
  /\ UNCHANGED <<events, linkVars>>

\* A run may fail before it tells.
Fail(r) ==
  /\ status[r] = "running"
  /\ status' = [status EXCEPT ![r] = "failed"]
  /\ events' \in {events, [events EXCEPT ![r] = Append(@, "failed")]}
  /\ UNCHANGED linkVars

\* The place may be beyond the end of the list: the stream waits for it.
Connect(s, r, after) ==
  /\ link[s] = "off"
  /\ status[r] # "none"
  /\ streamRun' = [streamRun EXCEPT ![s] = r]
  /\ cursor' = [cursor EXCEPT ![s] = after]
  /\ link' = [link EXCEPT ![s] = "open"]
  /\ UNCHANGED runVars

Deliver(s) ==
  /\ link[s] = "open"
  /\ cursor[s] < Len(events[streamRun[s]])
  /\ cursor' = [cursor EXCEPT ![s] = @ + 1]
  /\ UNCHANGED <<runVars, streamRun, link>>

End(s) ==
  /\ link[s] = "open"
  /\ cursor[s] >= Len(events[streamRun[s]])
  /\ status[streamRun[s]] # "running"
  /\ link' = [link EXCEPT ![s] = "ended"]
  /\ UNCHANGED <<runVars, streamRun, cursor>>

Leave(s) ==
  /\ streamRun' = [streamRun EXCEPT ![s] = NoRun]
  /\ cursor' = [cursor EXCEPT ![s] = 0]
  /\ link' = [link EXCEPT ![s] = "off"]
  /\ UNCHANGED runVars

\* The process that reads the streams ends: they are left, all of them.
LeaveAll ==
  /\ streamRun' = [s \in Streams |-> NoRun]
  /\ cursor' = [s \in Streams |-> 0]
  /\ link' = [s \in Streams |-> "off"]
  /\ UNCHANGED runVars

Next ==
  \/ \E r \in Runs : Start(r) \/ Complete(r) \/ Fail(r)
  \/ \E r \in Runs, event \in EventTypes : Emit(r, event)
  \/ \E s \in Streams, r \in Runs, after \in Afters : Connect(s, r, after)
  \/ \E s \in Streams : Deliver(s) \/ End(s) \/ Leave(s)
  \/ LeaveAll

Spec == Init /\ [][Next]_contractVars
=============================================================================
