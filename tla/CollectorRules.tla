--------------------------- MODULE CollectorRules ---------------------------
(***************************************************************************)
(* How the three collectors (collectors/system.py, docker.py,              *)
(* cpa_quota.py) judge what they find: a status for the module and the     *)
(* issues that may become alerts.  What is only shown (processes, ports,   *)
(* rates, names) is left out.                                              *)
(*                                                                         *)
(* What a collector finds is a record: of the host                         *)
(*   used         the percent used of the mounts that exist, by mount      *)
(*   memoryKnown, memoryUsed, temperatures (of the readable sensors)       *)
(*   cpuKnown, networkKnown, disksFound, rapl                              *)
(* of docker                                                               *)
(*   answer       of the API: "list", "none" or "other"                    *)
(*   containers   "running", "unhealthy" or "stopped", by name             *)
(* of the quotas                                                           *)
(*   key, listed  there is a key; the auth files could be read             *)
(*   accounts     by account: codex, disabled, the status its file gives   *)
(*                ("ok", "warning", "unknown"), and an answer per attempt  *)
(***************************************************************************)
EXTENDS Naturals

CONSTANTS
  Mounts,          \* mount_paths
  CoreContainers,  \* QINGLUO_CORE_CONTAINERS
  Accounts,        \* ids of quota accounts
  Attempts,        \* QINGLUO_CPA_RETRY_ATTEMPTS
  NoSubject        \* the subject of an issue that names neither of them

ASSUME RulesAssumption == Attempts \in Nat \ {0}

Statuses == {"ok", "warning", "critical", "unknown", "unsupported", "permission_denied"}
Codes == {"filesystem_missing", "filesystem_capacity_high", "memory_capacity_high",
          "memory_capacity_critical", "temperature_high", "temperature_critical",
          "docker_unavailable", "docker_bad_response", "core_container_missing",
          "cpa_management_key_missing", "cpa_auth_files_failed", "cpa_quota_missing",
          "cpa_quota_fetch_failed", "cpa_account_disabled", "collection_failed"}
Issues == [code : Codes, subject : CoreContainers \cup Accounts \cup {NoSubject},
           status : Statuses]

Issue(code, status) == [code |-> code, subject |-> NoSubject, status |-> status]
IssueOf(subject, code, status) == [code |-> code, subject |-> subject, status |-> status]

\* models.overall_status.
OverallStatus(ss) ==
  IF ss = {} THEN "unknown"
  ELSE IF "critical" \in ss THEN "critical"
  ELSE IF "warning" \in ss THEN "warning"
  ELSE IF "unknown" \in ss THEN "unknown"
  ELSE "ok"

\* Fault: the issues are listed, but not counted.
JudgedByParts(parts, issues) == [status |-> OverallStatus(parts), issues |-> issues]

\* All three collectors count their issues as modules beside the parts.
Judged(parts, issues) ==
  [status |-> OverallStatus(parts \cup {i.status : i \in issues}), issues |-> issues]

Above(level, critical, warning) ==
  IF level >= critical THEN "critical" ELSE IF level >= warning THEN "warning" ELSE "ok"

-----------------------------------------------------------------------------
(* system.py.                                                              *)

\* _collect_filesystems.  No issue says which mount it is about, but in its text.
FilesystemIssues(h) ==
  { Issue("filesystem_missing", "critical") : m \in Mounts \ DOMAIN h.used } \cup
  { Issue("filesystem_capacity_high", Above(h.used[m], 95, 85)) :
      m \in {n \in Mounts \cap DOMAIN h.used : h.used[n] >= 85} }

MemoryIssues(h) ==
  IF ~h.memoryKnown \/ h.memoryUsed < 90 THEN {}
  ELSE IF h.memoryUsed >= 95 THEN {Issue("memory_capacity_critical", "critical")}
       ELSE {Issue("memory_capacity_high", "warning")}

\* The hottest sensor counts.
TemperatureIssues(h) ==
  IF \E t \in h.temperatures : t >= 95 THEN {Issue("temperature_critical", "critical")}
  ELSE IF \E t \in h.temperatures : t >= 85 THEN {Issue("temperature_high", "warning")}
       ELSE {}

Known(b) == IF b THEN "ok" ELSE "unknown"
Supported(b) == IF b THEN "ok" ELSE "unsupported"

ResourcesReading(h) ==
  Judged({Known(h.cpuKnown), Known(h.memoryKnown), Known(h.networkKnown),
          Supported(h.disksFound), Supported(h.temperatures # {}), h.rapl},
         FilesystemIssues(h) \cup MemoryIssues(h) \cup TemperatureIssues(h))

-----------------------------------------------------------------------------
(* docker.py.                                                              *)

\* _status_for_container: only a running container can be unhealthy.
ContainerStatus(state) ==
  CASE state = "stopped" -> "warning"
    [] state = "unhealthy" -> "critical"
    [] OTHER -> "ok"

\* With core containers, only they count.
DockerReading(d) ==
  LET names == DOMAIN d.containers
      judged == IF CoreContainers = {} THEN names ELSE CoreContainers \cap names
  IN  CASE d.answer = "none" -> Judged({}, {Issue("docker_unavailable", "unknown")})
        [] d.answer = "other" -> Judged({}, {Issue("docker_bad_response", "unknown")})
        [] OTHER -> Judged({ContainerStatus(d.containers[c]) : c \in judged},
                           {IssueOf(c, "core_container_missing", "critical") :
                              c \in CoreContainers \ names})

-----------------------------------------------------------------------------
(* cpa_quota.py.                                                           *)

\* _fetch_quota_with_retry: "retry" is an answer for which it tries again (HTTP
\* errors of all kinds are URLErrors), the last attempt's answer stands.
QuotaAnswer(answers) ==
  LET last(n) == /\ n = Attempts \/ answers[n] # "retry"
                 /\ \A k \in 1..(n - 1) : answers[k] = "retry"
  IN  answers[CHOOSE n \in 1..Attempts : last(n)]

\* The account and the issues it makes.
AccountReading(a, account) ==
  IF account.codex /\ ~account.disabled
  THEN CASE QuotaAnswer(account.answers) = "usage" -> [status |-> "ok", issues |-> {}]
         [] QuotaAnswer(account.answers) = "empty" ->
              [status |-> "warning", issues |-> {IssueOf(a, "cpa_quota_missing", "warning")}]
         [] OTHER ->
              [status |-> "unknown", issues |-> {IssueOf(a, "cpa_quota_fetch_failed", "warning")}]
  ELSE LET status == IF account.disabled THEN "warning" ELSE account.status
       IN  [status |-> status,
            issues |-> IF status = "ok" THEN {}
                       ELSE {IssueOf(a, "cpa_account_disabled", "warning")}]

\* One account that fails keeps no other from being asked.
QuotaReading(q) ==
  CASE ~q.key -> Judged({}, {Issue("cpa_management_key_missing", "unknown")})
    [] q.key /\ ~q.listed -> Judged({}, {Issue("cpa_auth_files_failed", "unknown")})
    [] OTHER ->
         LET of(a) == AccountReading(a, q.accounts[a])
         IN  Judged({of(a).status : a \in DOMAIN q.accounts},
                    UNION {of(a).issues : a \in DOMAIN q.accounts})
=============================================================================
