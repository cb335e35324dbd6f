---------------------------- MODULE EngineBoundary ----------------------------
(***************************************************************************)
(* The rules engine as the UI can see it, and the client that projects it  *)
(* for one viewer (core_client/local_session_client.py).                   *)
(*                                                                         *)
(* The engine itself is another package.  It is modelled from how the UI   *)
(* uses it: it awaits one decision at a time, answers a submission with a  *)
(* status, identifies its states and keeps an event stream per viewer, in  *)
(* which a cursor is a position.                                           *)
(***************************************************************************)
EXTENDS Protocol

CONSTANTS
    MaxRequests,    \* bound: requests the engine issues in one game
    MaxEvents,      \* bound: events the engine records in one game
    Audiences       \* the sets of players an event may be visible to

ASSUME BoundsAssumption == MaxRequests \in Nat \ {0} /\ MaxEvents \in Nat
ASSUME AudiencesAssumption == Audiences \subseteq SUBSET Player

EngineState ==
    [req : Decision \cup {None},    \* the decision the engine awaits
     issued : Nat,                  \* how many requests it has issued
     rev : Nat \ {0},               \* identity of its state (projection_state_hash)
     recorded : Nat,                \* how many events it has recorded
     stream : [Player -> Seq(Nat)], \* the numbers of the events each viewer may see
     over : BOOLEAN]                \* terminal or unsupported: it never asks again

(* Accepted an answer, and waits to be advanced *)
Working(e) == e.req = None /\ ~e.over

Asking(e, form) ==
    [e EXCEPT !.req = [id |-> e.issued + 1, form |-> form], !.issued = e.issued + 1]

Recorded(e, audience) ==
    [e EXCEPT !.rev = e.rev + 1,
              !.recorded = e.recorded + 1,
              !.stream = [p \in Player |-> IF p \in audience
                                           THEN Append(e.stream[p], e.recorded + 1)
                                           ELSE e.stream[p]]]

(* A rejection may leave a trace in the state and the stream, or none *)
Noted(e) == {e} \cup {Recorded(e, a) : a \in {b \in Audiences : e.recorded < MaxEvents}}

(* Applying an answer changes the state, and mostly records an event *)
Applied(e) ==
    LET done == [e EXCEPT !.req = None, !.rev = e.rev + 1]
    IN  {done} \cup {Recorded(done, a) : a \in {b \in Audiences : e.recorded < MaxEvents}}

(* The engine runs until it needs a decision or is done *)
Continuations(e) ==
    {[status |-> "waiting_for_decision", engine |-> Asking(e, f)] :
        f \in {g \in Forms : e.issued < MaxRequests}}
    \cup {[status |-> s, engine |-> [e EXCEPT !.over = TRUE]] : s \in {"terminal", "unsupported"}}

(* A rejected answer leaves the request pending, or is followed by a fresh  *)
(* request for the same thing.                                              *)
Rejections(e) ==
    {[status |-> "invalid", engine |-> n] : n \in Noted(e)}
    \cup {[status |-> "invalid", engine |-> Asking(n, e.req.form)] :
            n \in {m \in Noted(e) : e.issued < MaxRequests}}

(* What a submission to e may return *)
Responses(e) ==
    Rejections(e)
    \cup UNION {{[status |-> "advanced", engine |-> n]} \cup Continuations(n) : n \in Applied(e)}

(* The decision shown to a viewer; only its actor sees the request itself *)
ProjectedDecision(e, viewer) ==
    IF e.req = None THEN None
    ELSE IF e.req.form.actor \in {None, viewer} THEN e.req
    ELSE HiddenDecision

(* _projected_decision_for_status: the status is shown as its actor sees it, *)
(* or else as the last viewer does.                                          *)
StatusDecision(e, lastViewer) ==
    IF e.req = None THEN None
    ELSE ProjectedDecision(e, IF e.req.form.actor = None THEN lastViewer ELSE e.req.form.actor)

(* get_events_since: what viewer's stream holds beyond cursor *)
EventsSince(e, cursor, viewer) ==
    SubSeq(e.stream[viewer], cursor + 1, Len(e.stream[viewer]))
=============================================================================
