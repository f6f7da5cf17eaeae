------------------------------- MODULE Alerts -------------------------------
(***************************************************************************)
(* What is made of a run that ended: the alerts it deserves and the log of *)
(* their deliveries, in which a row is claimed before the alert is sent    *)
(* (app/alerts.py), and the word under which the panel shows the run       *)
(* (app/statuses.py), which its filter selects again in SQL (app/db.py).   *)
(***************************************************************************)
EXTENDS Naturals, FiniteSets

CONSTANTS
    Channels,  \* the configured channels: the log, a toast, a webhook...
    Threshold  \* alerts.partial_threshold

VARIABLE alerts   \* alerts_log

AlertCauses == {"run_failed", "partial_run", "auth_rejected", "disk_space",
                "suspicious_silence"}

AlertsTypeOK(RunIds) ==
    /\ alerts \subseteq [run: RunIds, cause: AlertCauses, channel: Channels,
                         status: {"pending", "sent", "failed"}]
    /\ \A a, b \in alerts :   \* UNIQUE(run_id, cause, channel)
         a.run = b.run /\ a.cause = b.cause /\ a.channel = b.channel => a = b

AlertsInit == alerts = {}

\* _causes, of a run whose connection has had files or not in earlier runs.
Causes(run, hadFiles) ==
    {cause \in AlertCauses :
        \/ cause = "run_failed" /\ run.status = "failed"
        \/ /\ cause = "partial_run"
           /\ run.status = "partial" /\ run.failed >= Threshold
        \/ cause = "auth_rejected" /\ run.error = "auth"
        \/ cause = "disk_space" /\ run.error = "disk_space"
        \/ /\ cause = "suspicious_silence"
           /\ run.status = "ok" /\ run.found = 0 /\ hadFiles}

\* evaluate_run: an alert for each cause and channel.
Due(r, run, hadFiles) ==
    [run: {r}, cause: Causes(run, hadFiles), channel: Channels]

Row(a, status) ==
    [run |-> a.run, cause |-> a.cause, channel |-> a.channel, status |-> status]

\* claim inserts a row unless the unique index has that run, cause and channel.
Claimed(a) == \E row \in alerts : row = Row(a, row.status)
Claim(a) == alerts' = alerts \cup {Row(a, "pending")}

\* Bug: the delivery is logged as a row of its own.
BugLog(a, status) == alerts' = alerts \cup {Row(a, status)}
\* finish: as the channel answered.
Settle(a, status) ==
    alerts' = (alerts \ {Row(a, "pending")}) \cup {Row(a, status)}

Settled(a) == \E status \in {"sent", "failed"} : Row(a, status) \in alerts

-----------------------------------------------------------------------------
(* Results.  An older release stored as partial a run that had only notices. *)

LegacyNotice(run) ==
    run.status = "partial" /\ run.failed = 0 /\ run.error = "none" /\ ~run.warned

\* Bug: what was downloaded is looked at before what failed.
BugDownloadedFirst(run) ==
    IF run.downloaded > 0 THEN "completed"
    ELSE IF run.status # "ok" THEN run.status
    ELSE IF run.found = 0 THEN "no_files" ELSE "no_changes"
\* run_result_status.
ResultStatus(run) ==
    IF run.status # "ok" /\ ~LegacyNotice(run) THEN run.status
    ELSE IF run.found = 0 THEN "no_files"
    ELSE IF run.downloaded = 0 THEN "no_changes"
    ELSE "completed"

Successes == {"completed", "no_files", "no_changes"}

\* _SUCCESSFUL_RUN_PREDICATE.
IsSuccess(run) ==
    \/ run.status = "ok"
    \/ run.status = "partial" /\ run.failed = 0 /\ run.error = "none" /\ ~run.warned

\* list_runs with the filter that the panel offers.
Selected(run, filter) ==
    CASE filter = "no_files"   -> IsSuccess(run) /\ run.found = 0
      [] filter = "no_changes" -> IsSuccess(run) /\ run.found > 0 /\ run.downloaded = 0
      [] filter = "completed"  -> IsSuccess(run) /\ run.downloaded > 0
      [] filter = "partial"    -> /\ run.status = "partial"
                                  /\ run.failed > 0 \/ run.error # "none" \/ run.warned
      [] OTHER                 -> run.status = filter
=============================================================================
