---------------------------- MODULE FiniteDecision ----------------------------
(***************************************************************************)
(* FiniteDecisionUiState (state/finite_decision.py): the pending decision, *)
(* the highlighted option, the status line, the event cursor and log, and  *)
(* the counter result ids are made from.  Each operator is one method and  *)
(* returns the next value of the frozen dataclass.                         *)
(***************************************************************************)
EXTENDS Protocol

CONSTANT LogCap     \* how many event lines the state keeps

ASSUME LogCapAssumption == LogCap \in Nat \ {0}

FiniteState ==
    [pending : VisibleDecision,
     hl : Nat,              \* highlighted_option_index, from 0
     status : StatusKinds \cup {"submitting", "fatal"},
     cursor : Nat,          \* event_cursor
     log : Seq(Nat),        \* event_log_lines, each event by its number
     next : Nat \ {0}]      \* next_result_index

FiniteOptions(fs) ==
    IF fs.pending = None \/ fs.pending.form.parameterized
    THEN << >> ELSE fs.pending.form.options

HighlightedOption(fs) ==
    IF FiniteOptions(fs) = << >> THEN None ELSE FiniteOptions(fs)[fs.hl + 1]

Offers(fs, o) == \E i \in DOMAIN FiniteOptions(fs) : FiniteOptions(fs)[i] = o

Normalized(fs) ==
    IF fs.hl < Len(FiniteOptions(fs)) THEN fs ELSE [fs EXCEPT !.hl = 0]

InitFiniteState(status, decision, cursor) ==
    [pending |-> IF status \in {"unsupported", "terminal"} THEN None ELSE decision,
     hl |-> 0, status |-> status, cursor |-> cursor, log |-> << >>, next |-> 1]

CycledOption(fs) ==
    IF FiniteOptions(fs) = << >> THEN fs
    ELSE [fs EXCEPT !.hl = (fs.hl + 1) % Len(FiniteOptions(fs))]

LocalInvalid(fs) == [fs EXCEPT !.status = "invalid"]

(* The first option with that id is highlighted *)
IndexOfOption(fs, o) ==
    CHOOSE i \in DOMAIN FiniteOptions(fs) :
        /\ FiniteOptions(fs)[i] = o
        /\ \A j \in 1 .. (i - 1) : FiniteOptions(fs)[j] # o

WithHighlight(fs, o) ==
    IF Offers(fs, o)
    THEN [fs EXCEPT !.hl = IndexOfOption(fs, o) - 1, !.status = "waiting_for_decision"]
    ELSE LocalInvalid(fs)

(* mutant: places are counted from 1 *)
WithHighlightPastUnit(fs, u) ==
    IF u # None /\ Offers(fs, u) THEN [fs EXCEPT !.hl = IndexOfOption(fs, u)] ELSE fs

WithHighlightForUnit(fs, u) ==
    IF u # None /\ Offers(fs, u) THEN [fs EXCEPT !.hl = IndexOfOption(fs, u) - 1] ELSE fs

(* mutant: the pending decision stays *)
WithFatalErrorOnly(fs) == [fs EXCEPT !.status = "fatal"]

WithFatalError(fs) ==
    [fs EXCEPT !.pending = None, !.hl = 0, !.status = "fatal"]

(* What submit would send for choice (None: the highlighted option), or None *)
ChosenOption(fs, choice) ==
    IF fs.pending = None \/ fs.pending.form.parameterized THEN None
    ELSE IF choice = None THEN HighlightedOption(fs)
    ELSE IF Offers(fs, choice) THEN choice ELSE None

(* mutant: the id is not used up *)
SubmittingSameId(fs) == [fs EXCEPT !.status = "submitting"]

(* A prepared submission uses up one result id *)
Submitting(fs) == [fs EXCEPT !.status = "submitting", !.next = fs.next + 1]

(* mutant: a rejection moves the focus back to the first option *)
HighlightForgotten(current, next, hl) == 0

(* mutant: a new request inherits the focus of the one before *)
HighlightInherited(current, next, hl) == hl

(* Focus survives only while the same request stays pending *)
HighlightAfter(current, next, hl) ==
    IF current # None /\ next # None /\ current.id = next.id THEN hl ELSE 0

WithPending(fs, d) ==
    Normalized([fs EXCEPT !.pending = d, !.hl = HighlightAfter(fs.pending, d, fs.hl)])

WithStatus(fs, status, decision) ==
    LET pending == IF status \in {"unsupported", "terminal"} THEN None
                   ELSE IF decision # None THEN decision
                   ELSE IF status = "invalid" THEN fs.pending
                   ELSE None
    IN  [WithPending(fs, pending) EXCEPT !.status = status]

WithView(fs, viewPending) ==
    WithPending(fs, IF fs.status \in {"unsupported", "terminal", "fatal"}
                    THEN None ELSE viewPending)

WithEvents(fs, delta, nextCursor) ==
    [fs EXCEPT !.cursor = nextCursor, !.log = LastOf(fs.log \o delta, LogCap)]

(* mutant: the next viewer keeps the cursor into the other stream *)
WithoutLines(fs) == [fs EXCEPT !.log = << >>]

(* The next viewer starts from an empty log and reads the stream from 0 *)
WithoutEvents(fs) == [fs EXCEPT !.cursor = 0, !.log = << >>]
=============================================================================
