----------------------------- MODULE AlertEvents -----------------------------
(***************************************************************************)
(* The table alert_events (db.py) and the transaction every producer of    *)
(* alerts runs on it.  An alert is known by its fingerprint; a producer    *)
(* manages the alerts of its own sources and reports all that it found.    *)
(* Titles, severities and time stamps are left out.                        *)
(***************************************************************************)
EXTENDS Naturals

CONSTANTS
  Fingerprints,   \* what alerts there can be
  SourceOfAlert   \* the source of each

VARIABLES
  alert,          \* state of the row, "none" while there is none
  occurrences     \* occurrence_count

alertVars == <<alert, occurrences>>

AlertsTypeOK ==
  /\ alert \in [Fingerprints -> {"none", "active", "resolved"}]
  /\ occurrences \in [Fingerprints -> Nat]

AlertsInit ==
  /\ alert = [f \in Fingerprints |-> "none"]
  /\ occurrences = [f \in Fingerprints |-> 0]

Active == {f \in Fingerprints : alert[f] = "active"}

\* Fault: every report of an alert counts, also while it is active.
CountsAlways(f, found) == f \in found

\* An insert starts at one; a conflict counts when the alert had been resolved.
Counts(f, found) == f \in found /\ alert[f] # "active"

\* Fault: the UPDATE has no source clause.
ResolvesAnySource(f, found, managed) == alert[f] = "active" /\ f \notin found

\* Fault: what is no longer reported stays active.
ResolvesNothing(f, found, managed) == FALSE

\* The rows of the UPDATE that follows the upserts.
Resolves(f, found, managed) ==
  alert[f] = "active" /\ f \notin found /\ SourceOfAlert[f] \in managed

\* reconcile_alert_events: upsert what was found, resolve the rest of the
\* producer's sources, in one transaction.
ReconcileAlertEvents(found, managed) ==
  /\ alert' = [f \in Fingerprints |->
       IF f \in found THEN "active"
       ELSE IF Resolves(f, found, managed) THEN "resolved" ELSE alert[f]]
  /\ occurrences' = [f \in Fingerprints |->
       IF Counts(f, found) THEN occurrences[f] + 1 ELSE occurrences[f]]
=============================================================================
