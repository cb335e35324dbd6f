------------------------------- MODULE Launch -------------------------------
(***************************************************************************)
(* A launch of the client (main.py, app.py): the trace writer is built and *)
(* the crash hook installed, the live smoke driver plays the set-up, the   *)
(* window opens on what it reached, and from then on talks to the session  *)
(* through the tracing wrapper.  Whatever fails on the way leads to a      *)
(* crash bundle (diagnostics/crash_report.py), itself written on a best    *)
(* effort.                                                                 *)
(***************************************************************************)
EXTENDS SetupDriver, ForensicTrace

CONSTANTS TailRows    \* DEFAULT_TRACE_TAIL_ROWS

ASSUME TailAssumption == TailRows \in Nat

VARIABLES
    phase,   \* launch, starting, open, failed, fatal, closed, dead or refused
    report   \* the last crash bundle

launchVars == <<driverVars, traceVars, phase, report>>

NoReport == [state |-> "absent", copied |-> FALSE, missing |-> FALSE, rows |-> <<>>]

----------------------------------------------------------------------------
(* The crash bundle.                                                       *)

\* A tail with one row too many.
TailOfMore(rows) ==
    IF Len(rows) <= TailRows THEN rows ELSE SubSeq(rows, Len(rows) - TailRows, Len(rows))

TailOf(rows) ==
    IF Len(rows) <= TailRows THEN rows ELSE SubSeq(rows, Len(rows) - TailRows + 1, Len(rows))

(* Only the current file is copied; when the copy fails the original is    *)
(* read, and when that fails too, or there is none, the tail is empty.     *)
TraceParts ==
    IF ~Enabled THEN {[copied |-> FALSE, missing |-> FALSE, rows |-> <<>>]}
    ELSE IF ~fileThere THEN {[copied |-> FALSE, missing |-> TRUE, rows |-> <<>>]}
    ELSE {[copied |-> c, missing |-> FALSE, rows |-> r] : c \in BOOLEAN, r \in {TailOf(current), <<>>}}

(* write_crash_report: no directory, a directory without a report, or a    *)
(* report with the trace's part.                                           *)
Reports ==
    {[NoReport EXCEPT !.state = s] : s \in {"no bundle", "no report"}}
    \cup {[state |-> "written", copied |-> p.copied, missing |-> p.missing, rows |-> p.rows] : p \in TraceParts}

WriteCrashReport == report' \in Reports

----------------------------------------------------------------------------
(* The start.                                                              *)

Init ==
    /\ DriverInit /\ TraceInit
    /\ phase = "launch" /\ report = NoReport

(* The trace is configured before the hook is installed: a setting that    *)
(* cannot be read ends the process without a bundle.                       *)
Configure ==
    /\ phase = "launch"
    /\ phase' = IF Misconfigured THEN "refused" ELSE "starting"
    /\ UNCHANGED <<driverVars, traceVars, report>>

Drive ==
    /\ phase = "starting" /\ DriverNext
    /\ UNCHANGED <<traceVars, phase, report>>

(* What the driver counted and sent is gone when it returns.               *)
OpenWindow ==
    /\ phase = "starting" /\ outcome = "started"
    /\ phase' = "open"
    /\ index' = 1 /\ sent' = None
    /\ UNCHANGED <<stop, status, projection, outcome, shown, traceVars, report>>

(* The driver gave up: a bundle is tried, and the window opens without a   *)
(* session on an invalid status, whether or not there is one.              *)
OpenFailedWindow ==
    /\ phase = "starting" /\ outcome = "failed"
    /\ WriteCrashReport
    /\ phase' = "failed"
    /\ UNCHANGED <<driverVars, traceVars>>

(* An incompatible engine ends the process with a message and no bundle.   *)
Refuse ==
    /\ phase = "starting" /\ outcome = "died"
    /\ phase' = "refused"
    /\ UNCHANGED <<driverVars, traceVars, report>>

(* Any other exception reaches the hook, which writes a bundle and then    *)
(* calls the hook before it.                                               *)
DieStarting ==
    /\ phase = "starting" /\ outcome = "died"
    /\ WriteCrashReport
    /\ phase' = "dead"
    /\ UNCHANGED <<driverVars, traceVars>>

----------------------------------------------------------------------------
(* The open window.                                                        *)

Trace ==
    /\ phase = "open"
    /\ (\E name \in CoreCalls : Request(name)) \/ Inner \/ Response \/ UiEvent
    /\ UNCHANGED <<driverVars, phase, report>>

\* A handler that writes the bundle before the event.
InnerRaisesReported ==
    /\ phase = "open" /\ call # NotSet /\ call.side = "request"
    /\ WriteCrashReport
    /\ \E size \in Sizes : WriteEvent(UiRow("ui.fatal", size))
    /\ call' = NotSet /\ phase' = "fatal"
    /\ UNCHANGED <<driverVars, config, taken>>

(* The call raises: the window writes the event, then the bundle, then     *)
(* clears what it shows.                                                   *)
InnerRaises ==
    /\ phase = "open" /\ call # NotSet /\ call.side = "request"
    /\ \E size \in Sizes : WriteEvent(UiRow("ui.fatal", size))
    /\ call' = NotSet /\ phase' = "fatal"
    /\ UNCHANGED <<driverVars, config, taken, report>>

FatalReport ==
    /\ phase = "fatal" /\ report = NoReport
    /\ WriteCrashReport
    /\ UNCHANGED <<driverVars, traceVars, phase>>

Close ==
    /\ phase \in {"open", "failed"} \/ (phase = "fatal" /\ report # NoReport)
    /\ call = NotSet
    /\ phase' = "closed"
    /\ UNCHANGED <<driverVars, traceVars, report>>

(* A row that cannot be written raises in the middle of the call, before   *)
(* or after the engine took it; nothing catches it but the hook.           *)
TraceFails ==
    /\ phase = "open"
    /\ \/ \E name \in CoreCalls :
             /\ call = NotSet /\ Len(taken) < MaxCalls
             /\ WriteFails(RowOf([number |-> Len(taken) + 1, name |-> name, side |-> "request"], 1))
       \/ call # NotSet /\ call.side = "response" /\ WriteFails(RowOf(call, 1))
       \/ call # NotSet /\ call.side = "request" /\ WriteFails(UiRow("ui.fatal", 1))
    /\ phase' = "dead"
    /\ UNCHANGED <<driverVars, config, call, taken, report>>

Hook ==
    /\ phase = "dead" /\ report = NoReport
    /\ WriteCrashReport
    /\ UNCHANGED <<driverVars, traceVars, phase>>

Next ==
    \/ Configure \/ Drive \/ OpenWindow \/ OpenFailedWindow \/ Refuse \/ DieStarting
    \/ Trace \/ InnerRaises \/ FatalReport \/ Close \/ TraceFails \/ Hook

(* The start runs to its end by itself, and so do the handlers; the open   *)
(* window waits for its user.                                              *)
Start == Configure \/ Drive \/ OpenWindow \/ OpenFailedWindow \/ Refuse \/ DieStarting

Spec == Init /\ [][Next]_launchVars /\ WF_launchVars(Start) /\ WF_launchVars(FatalReport \/ Hook)

----------------------------------------------------------------------------
(* Properties.                                                             *)

(* The types of the driver, the trace and the bundle.                      *)
TypeOK ==
    /\ stop \in Stops /\ status \in Statuses /\ projection \in Projections
    /\ index \in 1 .. MaxDecisions + 1
    /\ outcome \in {"driving", "checkpoint", "started", "failed", "died"}
    /\ sent # None => sent.result < index
    /\ phase \in {"launch", "starting", "open", "failed", "fatal", "closed", "dead", "refused"}
    /\ phase = "open" => outcome = "started"
    /\ Len(taken) <= MaxCalls
    /\ report.state \in {"absent", "no bundle", "no report", "written"}
    /\ Len(report.rows) <= TailRows

(* A bundle written for an engine failure ends with the window's row of    *)
(* that failure, whatever was rotated away before it; the tail may be      *)
(* empty where the file could not be read (_fatal_game_engine_state).      *)
ReportEndsWithFailure ==
    (phase = "fatal" /\ report.rows # <<>> /\ ShouldEmit(UiRow("ui.fatal", 1)))
        => Last(report.rows).name = "ui.fatal"

(* However the engine answers, the set-up ends: with a window, or with a   *)
(* refusal or a crash (the bound of _drive_to_checkpoint).                 *)
StartEnds == <>(phase \notin {"launch", "starting"})
=============================================================================
