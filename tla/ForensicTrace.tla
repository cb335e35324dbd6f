--------------------------- MODULE ForensicTrace ---------------------------
(***************************************************************************)
(* The forensic trace (diagnostics/forensic_trace.py): the configuration   *)
(* resolved from the command line, the environment and a file; the JSON    *)
(* lines writer with its filters and its rotation into one older file; and *)
(* the wrapper that writes a row before and a row after every call of the  *)
(* session.  A row is the call it belongs to, its side and its size; the   *)
(* name of its event is the pair of the two, core.<call>.<side>.           *)
(***************************************************************************)
EXTENDS Naturals, Sequences, FiniteSets, SequencesExt

CONSTANTS
    NotSet, Blank, \* a setting left out, and one left blank
    CoreCalls,     \* the calls of the session that a run makes
    Inputs,        \* the raw settings of a launch: [cli, env, file] records
    DefaultMaxBytes,
    Sizes,         \* the sizes a row may have
    MaxCalls       \* bound on the calls of a run

LifecycleCalls == {"start_game", "advance_until_decision_or_terminal"}
ViewCalls == {"get_view", "get_rules_catalog", "get_support_profile", "get_events_since"}
SubmitCalls == {"submit_finite", "submit_movement_payload", "submit_parameterized_payload"}

ASSUME TraceAssumption ==
    /\ CoreCalls \subseteq LifecycleCalls \cup ViewCalls \cup SubmitCalls
    /\ Sizes \subseteq Nat \ {0}
    /\ MaxCalls \in Nat
    /\ NotSet \notin [number : Nat, name : CoreCalls, side : {"request", "response"}]

\* A limit that is negative or no number stops the launch.
ASSUME LimitAssumption ==
    /\ DefaultMaxBytes \in Nat
    /\ \A input \in Inputs : {input.env.maxBytes, input.file.maxBytes} \subseteq Nat \cup {NotSet, Blank}

VARIABLES
    config,    \* the resolved ForensicTraceConfig
    current,   \* the rows of the trace file
    rotated,   \* the rows of the file it was last rotated into
    fileThere, \* whether the trace file exists
    emitted,   \* every row the session wrote, in order
    call,      \* the call in flight: NotSet, or [number, name, side]
    taken      \* the calls the engine took

traceVars == <<config, current, rotated, fileThere, emitted, call, taken>>

----------------------------------------------------------------------------
(* Configuration.                                                          *)

FirstSet(options) ==
    LET given == {i \in DOMAIN options : options[i] # NotSet}
    IN IF given = {} THEN NotSet ELSE options[Min(given)]

Levels == {"off", "summary", "payload", "render"}

(* A blank level is off, and hides the settings below it.                  *)
ParsedLevel(raw) ==
    CASE raw \in {NotSet, Blank}    -> "off"
      [] raw \in {"1", "true"}   -> "summary"
      [] raw \in Levels          -> raw
      [] OTHER                   -> "error"

MaxBytesOf(raw) == IF raw \in {NotSet, Blank} THEN DefaultMaxBytes ELSE raw

(* An empty filter of the command line gives way, one of the environment   *)
(* does not.                                                               *)
FilterOf(input, key) ==
    LET given == FirstSet(<<IF input.cli[key] = {} THEN NotSet ELSE input.cli[key],
                            input.env[key], input.file[key]>>)
    IN IF given = NotSet THEN {} ELSE given

(* The size limit has no command-line option.                              *)
Resolved(input) ==
    [level    |-> ParsedLevel(FirstSet(<<input.cli.level, input.env.level, input.file.level>>)),
     maxBytes |-> MaxBytesOf(FirstSet(<<input.env.maxBytes, input.file.maxBytes>>)),
     include  |-> FilterOf(input, "include"),
     exclude  |-> FilterOf(input, "exclude"),
     includeCategories |-> FilterOf(input, "includeCategories"),
     excludeCategories |-> FilterOf(input, "excludeCategories")]

(* A level or a limit that cannot be read stops the launch.                *)
Misconfigured == config.level = "error"

Enabled == config.level \notin {"off", "error"}

EventName(row) == <<row.name, row.side>>

(* The include filters together are an allow-list of events and of         *)
(* categories; the exclude filters win over it.  An event is meant by its  *)
(* full name: a filter may keep the requests and drop the responses.       *)
ShouldEmit(row) ==
    /\ \/ config.include = {} /\ config.includeCategories = {}
       \/ EventName(row) \in config.include
       \/ row.category \in config.includeCategories
    /\ EventName(row) \notin config.exclude
    /\ row.category \notin config.excludeCategories

----------------------------------------------------------------------------
(* The writer.                                                             *)

Bytes(rows) ==
    LET sum[n \in 0 .. Len(rows)] == IF n = 0 THEN 0 ELSE sum[n - 1] + rows[n].size
    IN sum[Len(rows)]

\* A rotation once the file is already too long.
MustRotateLate(row) ==
    /\ config.maxBytes > 0 /\ fileThere
    /\ current # <<>>
    /\ Bytes(current) > config.maxBytes

MustRotate(row) ==
    /\ config.maxBytes > 0 /\ fileThere
    /\ current # <<>>
    /\ Bytes(current) + row.size > config.maxBytes

\* A rotation that writes over the older file and keeps the newer one.
WrittenOver(row) ==
    /\ emitted' = Append(emitted, row)
    /\ fileThere' = TRUE
    /\ IF MustRotate(row)
       THEN rotated' = <<row>> /\ UNCHANGED current
       ELSE current' = Append(current, row) /\ UNCHANGED rotated

(* The file is opened for appending, and created when it is missing.       *)
Written(row) ==
    /\ emitted' = Append(emitted, row)
    /\ fileThere' = TRUE
    /\ IF MustRotate(row)
       THEN rotated' = current /\ current' = <<row>>
       ELSE current' = Append(current, row) /\ UNCHANGED rotated

(* write_event: nothing when the trace is off or the row is filtered out.  *)
WriteEvent(row) ==
    IF Enabled /\ ShouldEmit(row)
    THEN Written(row)
    ELSE UNCHANGED <<current, rotated, fileThere, emitted>>

(* A write that fails leaves the files as they are, or without the older   *)
(* one, or rotated with no file begun.                                     *)
WriteFails(row) ==
    /\ Enabled /\ ShouldEmit(row)
    /\ \/ UNCHANGED <<current, rotated, fileThere>>
       \/ /\ MustRotate(row)
          /\ rotated' = <<>> /\ UNCHANGED <<current, fileThere>>
       \/ /\ MustRotate(row)
          /\ rotated' = current /\ current' = <<>> /\ fileThere' = FALSE
    /\ UNCHANGED emitted

(* A session begins with an empty file; an older rotated file stays.       *)
TraceInit ==
    /\ \E input \in Inputs : config = Resolved(input)
    /\ current = <<>> /\ fileThere = (config.level \notin {"off", "error"})
    /\ rotated \in {<<>>, <<[category |-> "old", name |-> "old", side |-> "event", number |-> 0, size |-> 1]>>}
    /\ emitted = <<>> /\ call = NotSet /\ taken = <<>>

----------------------------------------------------------------------------
(* The wrapper of the session's client.                                    *)

RowOf(c, size) ==
    [category |-> "core_client", name |-> c.name, side |-> c.side, number |-> c.number, size |-> size]

UiRow(name, size) ==
    [category |-> "ui", name |-> name, side |-> "event", number |-> Len(taken), size |-> size]
\* A wrapper that calls the engine before it writes anything.
RequestLate(name) ==
    LET c == [number |-> Len(taken) + 1, name |-> name, side |-> "request"]
    IN /\ call = NotSet /\ Len(taken) < MaxCalls
       /\ call' = c
       /\ UNCHANGED <<config, taken, current, rotated, fileThere, emitted>>

Request(name) ==
    LET c == [number |-> Len(taken) + 1, name |-> name, side |-> "request"]
    IN /\ call = NotSet /\ Len(taken) < MaxCalls
       /\ \E size \in Sizes : WriteEvent(RowOf(c, size))
       /\ call' = c
       /\ UNCHANGED <<config, taken>>

Inner ==
    /\ call # NotSet /\ call.side = "request"
    /\ taken' = Append(taken, call.name)
    /\ call' = [call EXCEPT !.side = "response"]
    /\ UNCHANGED <<config, current, rotated, fileThere, emitted>>

Response ==
    /\ call # NotSet /\ call.side = "response"
    /\ \E size \in Sizes : WriteEvent(RowOf(call, size))
    /\ call' = NotSet
    /\ UNCHANGED <<config, taken>>

(* A row of the window itself, between two calls.                          *)
UiEvent ==
    /\ call = NotSet /\ Len(taken) < MaxCalls
    /\ ~(current # <<>> /\ Last(current).category = "ui")
    /\ \E size \in Sizes : WriteEvent(UiRow("ui.attempt", size))
    /\ UNCHANGED <<config, call, taken>>

----------------------------------------------------------------------------
(* Properties.                                                             *)

(* The two files hold the newest rows of the session, in order and without *)
(* a gap; the older file may still be that of an earlier session, and then *)
(* the current one holds everything; and the current one keeps to its      *)
(* limit, except for one row longer than that (_rotate_if_needed).         *)
NewestRowsKept ==
    LET old == rotated # <<>> /\ rotated[1].category = "old"
        fresh == (IF old THEN <<>> ELSE rotated) \o current
    IN /\ IsSuffix(fresh, emitted)
       /\ old => current = emitted
       /\ config.maxBytes > 0 => Bytes(current) <= config.maxBytes \/ Len(current) = 1

(* The trace is written ahead: whatever the engine took, and could change  *)
(* its state, has its request row, and only the last call can be without   *)
(* its response row, except for the rows that the filters drop, which may  *)
(* be those of one side only (TracedCoreClient, should_emit).              *)
CallsAreTracedAhead ==
    \A n \in 1 .. Len(taken) :
        LET Due(side) == Enabled /\ ShouldEmit(RowOf([number |-> n, name |-> taken[n], side |-> side], 1))
            Has(side) == \E i \in 1 .. Len(emitted) : emitted[i].number = n /\ emitted[i].side = side
        IN  /\ Due("request") => Has("request")
            /\ n < Len(taken) /\ Due("response") => Has("response")
=============================================================================
