---------------------------- MODULE LaunchProofs ----------------------------
(***************************************************************************)
(* Theorems of Launch, for every policy of the engine, every trace setting *)
(* and every bound: the types, what the driver sends and hands over, that  *)
(* calls are traced ahead, that the files hold the newest rows whatever a  *)
(* rotation did, and that a bundle ends with its failure.                  *)
(***************************************************************************)
EXTENDS Launch, ListLemmas

DriverTypeOK ==
    /\ stop \in Stops /\ status \in Statuses /\ projection \in Projections
    /\ index \in 1 .. MaxDecisions + 1
    /\ outcome \in {"driving", "checkpoint", "started", "failed", "died"}
    /\ sent # None => sent.result \in Nat /\ sent.result < index

(* What the driver has found once it stops driving *)
Reached ==
    /\ outcome \in {"checkpoint", "started"} => IsCheckpoint(status.decision, projection)
    /\ outcome = "started" =>
        /\ shown = [viewer |-> Viewer(status.decision), decision |-> status.decision, view |-> projection]
        /\ Consistent(projection)

DriverInv == DriverTypeOK /\ Reached

Row ==
    [category : {"core_client", "ui"}, name : CoreCalls \cup {"ui.attempt", "ui.fatal"},
     side : {"request", "response", "event"}, number : Nat, size : Sizes]

Traced(name, side) == Enabled /\ ShouldEmit(RowOf([number |-> 1, name |-> name, side |-> side], 1))

Has(n, side) == \E i \in 1 .. Len(emitted) : emitted[i].number = n /\ emitted[i].side = side

(* The call in flight is the next of the engine, or the last it took *)
CallInFlight ==
    /\ call # NotSet => call = [number |-> call.number, name |-> call.name, side |-> call.side]
    /\ call # NotSet /\ call.side = "request" =>
        /\ call.number = Len(taken) + 1 /\ call.name \in CoreCalls
        /\ Len(taken) < MaxCalls
        /\ Traced(call.name, "request") => Has(call.number, "request")
    /\ call # NotSet /\ call.side = "response" =>
        /\ call.number = Len(taken) /\ call.name \in CoreCalls
        /\ Len(taken) > 0 /\ call.name = taken[Len(taken)]

(* Every row the filters let through is there, but the response of the call *)
(* in flight                                                                *)
RowsBehind ==
    \A n \in 1 .. Len(taken) :
        /\ Traced(taken[n], "request") => Has(n, "request")
        /\ n < Len(taken) \/ call = NotSet \/ call.side = "request" =>
            (Traced(taken[n], "response") => Has(n, "response"))

TraceInv ==
    /\ emitted \in Seq(Row) /\ current \in Seq(Row)
    /\ taken \in Seq(CoreCalls) /\ Len(taken) <= MaxCalls
    /\ CallInFlight /\ RowsBehind

-----------------------------------------------------------------------------
(* The driver.                                                              *)

LEMMA DriverInitInv == Init => DriverInv
  BY DriverAssumption DEF Init, DriverInit, DriverInv, DriverTypeOK, Reached

LEMMA DriverNextInv == DriverInv /\ [Next]_launchVars => DriverInv'
<1> SUFFICES ASSUME DriverInv, [Next]_launchVars PROVE DriverInv'
  OBVIOUS
<1> USE DriverAssumption
<1>1. CASE UNCHANGED driverVars
  BY <1>1 DEF driverVars, DriverInv, DriverTypeOK, Reached, IsCheckpoint, Consistent, Viewer
<1>2. CASE Drive
  <2>1. CASE Advance
    BY <2>1 DEF Advance, EngineMoves, Stuck, DriverInv, DriverTypeOK, Reached
  <2>2. CASE Answer
    BY <2>2 DEF Answer, EngineMoves, Asked, Stuck, DriverInv, DriverTypeOK, Reached
  <2>3. CASE GiveUp \/ DriverRaises
    BY <2>3 DEF GiveUp, DriverRaises, DriverInv, DriverTypeOK, Reached
  <2>4. CASE Arrive
    BY <2>4 DEF Arrive, Arrived, DriverInv, DriverTypeOK, Reached, IsCheckpoint
  <2>5. CASE Handover
    BY <2>5 DEF Handover, DriverInv, DriverTypeOK, Reached, IsCheckpoint, Consistent, Viewer
  <2> QED
    BY <1>2, <2>1, <2>2, <2>3, <2>4, <2>5 DEF Drive, DriverNext
<1>3. CASE OpenWindow
  BY <1>3 DEF OpenWindow, DriverInv, DriverTypeOK, Reached, IsCheckpoint, Consistent, Viewer
<1> QED
  BY <1>1, <1>2, <1>3 DEF Next, Configure, OpenFailedWindow, Refuse, DieStarting, Trace, InnerRaises,
     FatalReport, Close, TraceFails, Hook, launchVars

(* The window opens on the decision that was asked for, seen by its actor  *)
(* (_drive_to_checkpoint, _startup_from_status).                           *)
THEOREM OpensOnTheCheckpoint == Spec => []CheckpointIsShown
<1>1. DriverInv => CheckpointIsShown
  BY StopsAssumption DEF DriverInv, DriverTypeOK, Reached, CheckpointIsShown, IsCheckpoint, Consistent, Viewer,
     StopPhases, SetupStops, BattleStops
<1> QED
  BY <1>1, DriverInitInv, DriverNextInv, PTL DEF Spec

(* Only an answer of the driver changes what it sent to something. *)
LEMMA OnlyAnswerSends ==
  ASSUME DriverInv, [Next]_launchVars, sent' \notin {sent, None}
  PROVE  Answer
  BY DEF Next, Configure, Drive, DriverNext, Advance, Arrive, GiveUp, Handover, DriverRaises, OpenWindow,
     OpenFailedWindow, Refuse, DieStarting, Trace, InnerRaises, FatalReport, Close, TraceFails, Hook,
     launchVars, driverVars

(* A payload the driver makes up is for the models of the request, under   *)
(* their unit and for their owner, and leaves a model with a pose there    *)
(* (_placement_payload, _scout_move_payload).                              *)
THEOREM DriverPayloadsAreOwned == Spec => PayloadIsOwned
<1> DEFINE Owned ==
      sent' \notin {sent, None} /\ sent'.request.kind \in {"placement", "scout_move"}
          /\ sent'.request.type # "submit_stratagem_target_proposal" =>
        /\ DOMAIN sent'.answer = sent'.request.request.models
        /\ \A m \in DOMAIN sent'.answer :
              /\ projection.models[m].owner = sent'.answer[m].player
              /\ projection.models[m].unit = sent'.answer[m].unit
              /\ projection.models[m].pose \in {None, sent'.answer[m].poses[1]}
<1>1. ASSUME DriverInv, [Next]_launchVars PROVE [Owned]_sent
  <2> DEFINE d == status.decision
  <2> SUFFICES ASSUME sent' \notin {sent, None}, sent'.request.kind \in {"placement", "scout_move"},
                      sent'.request.type # "submit_stratagem_target_proposal"
               PROVE  Owned
    OBVIOUS
  <2>1. Answer
    BY <1>1, OnlyAnswerSends
  <2>2. PICK a \in Answers(d) : sent' = [request |-> d, answer |-> a, result |-> index]
    BY <2>1 DEF Answer
  <2>3. d # None /\ d.kind # "option" /\ d.kind \in {"placement", "scout_move"} /\ d.type # "submit_stratagem_target_proposal"
    BY <2>1, <2>2 DEF Answer, Asked
  <2>4. a \in Payloads(d, projection)
    BY <1>1, <2>2, <2>3, DecisionAssumption DEF Answers, DriverInv, DriverTypeOK
  <2>5. a \in PlacementPayload(d.request, projection) \/ a \in ScoutPayload(d.request, projection)
    BY <2>3, <2>4 DEF Payloads
  <2>6. CASE a \in PlacementPayload(d.request, projection)
    BY <2>2, <2>6 DEF PlacementPayload, InventoryAgrees, PoseOf
  <2>7. CASE a \in ScoutPayload(d.request, projection)
    BY <2>2, <2>7 DEF ScoutPayload, InventoryAgrees
  <2> QED
    BY <2>5, <2>6, <2>7
<1> QED
  BY <1>1, DriverInitInv, DriverNextInv, PTL DEF Spec, PayloadIsOwned

-----------------------------------------------------------------------------
(* The trace.                                                               *)

LEMMA ShortSequences == ASSUME NEW S PROVE <<>> \in Seq(S) /\ \A x \in S : <<x>> \in Seq(S)
  OBVIOUS

LEMMA TraceInitInv == Init => TraceInv
  BY TraceAssumption DEF Init, TraceInit, TraceInv, CallInFlight, RowsBehind

(* A row is filtered by its call and side and not by its size or number *)
LEMMA FilterIgnoresSize ==
  ASSUME NEW n, NEW name, NEW side, NEW size
  PROVE  Enabled /\ ShouldEmit(RowOf([number |-> n, name |-> name, side |-> side], size))
            <=> Traced(name, side)
  BY DEF Traced, ShouldEmit, EventName, RowOf

(* Writing keeps the rows that are there, and adds its own unless filtered *)
LEMMA WriteKeepsRows ==
  ASSUME TraceInv, NEW row \in Row, WriteEvent(row), UNCHANGED config
  PROVE  /\ emitted' \in Seq(Row) /\ current' \in Seq(Row)
         /\ \A n, side : Has(n, side) => Has(n, side)'
         /\ Enabled /\ ShouldEmit(row) => Has(row.number, row.side)'
<1>1. CASE Enabled /\ ShouldEmit(row)
  <2>1. emitted' = Append(emitted, row) /\ current' \in {<<row>>, Append(current, row)}
    BY <1>1 DEF WriteEvent, Written
  <2>3. emitted \in Seq(Row) /\ current \in Seq(Row)
    BY DEF TraceInv
  <2>4. emitted' \in Seq(Row) /\ current' \in Seq(Row)
    <3>1. Append(emitted, row) \in Seq(Row) /\ Append(current, row) \in Seq(Row)
      BY <2>3
    <3>2. <<row>> \in Seq(Row)
      BY ShortSequences
    <3> QED
      BY <2>1, <3>1, <3>2
  <2>2. /\ Len(emitted') = Len(emitted) + 1 /\ Len(emitted) \in Nat
        /\ \A i \in 1 .. Len(emitted) : emitted'[i] = emitted[i]
        /\ emitted'[Len(emitted) + 1] = row
    BY <2>1, <2>3
  <2>5. ASSUME NEW n, NEW side, Has(n, side) PROVE Has(n, side)'
    <3>1. PICK i \in 1 .. Len(emitted) : emitted[i].number = n /\ emitted[i].side = side
      BY <2>5 DEF Has
    <3>2. i \in 1 .. Len(emitted') /\ emitted'[i] = emitted[i]
      BY <2>2
    <3> QED
      BY <3>1, <3>2 DEF Has
  <2>6. Has(row.number, row.side)'
    BY <2>2 DEF Has
  <2> QED
    BY <2>4, <2>5, <2>6
<1>2. CASE ~(Enabled /\ ShouldEmit(row))
  BY <1>2 DEF WriteEvent, TraceInv, Has
<1> QED
  BY <1>1, <1>2

LEMMA RowIsRow ==
  ASSUME NEW name \in CoreCalls, NEW n \in Nat, NEW side \in {"request", "response"}, NEW size \in Sizes
  PROVE  RowOf([number |-> n, name |-> name, side |-> side], size) \in Row
  BY TraceAssumption DEF RowOf, Row

LEMMA UiRowIsRow ==
  ASSUME TraceInv, NEW name \in {"ui.attempt", "ui.fatal"}, NEW size \in Sizes
  PROVE  UiRow(name, size) \in Row
  BY DEF UiRow, Row, TraceInv

(* What the filters let through does not change while the client runs *)
LEMMA TracedStays ==
  ASSUME UNCHANGED config, NEW name, NEW side
  PROVE  Traced(name, side)' = Traced(name, side)
  BY DEF Traced, Enabled, ShouldEmit

LEMMA RequestInv ==
  ASSUME TraceInv, NEW name \in CoreCalls, Request(name)
  PROVE  TraceInv'
<1> DEFINE c == [number |-> Len(taken) + 1, name |-> name, side |-> "request"]
<1>1. PICK size \in Sizes : WriteEvent(RowOf(c, size))
  BY DEF Request
<1>2. call = NotSet /\ call' = c /\ UNCHANGED <<config, taken>> /\ Len(taken) < MaxCalls /\ Len(taken) \in Nat
  BY DEF Request, TraceInv
<1>3. RowOf(c, size) \in Row
  <2>1. Len(taken) + 1 \in Nat
    BY <1>2
  <2> QED
    BY <2>1, RowIsRow
<1>4. /\ emitted' \in Seq(Row) /\ current' \in Seq(Row)
      /\ \A n, side : Has(n, side) => Has(n, side)'
      /\ Enabled /\ ShouldEmit(RowOf(c, size)) => Has(Len(taken) + 1, "request")'
  BY <1>1, <1>2, <1>3, WriteKeepsRows DEF RowOf
<1>5. CallInFlight'
  BY <1>2, <1>4, FilterIgnoresSize, TracedStays DEF CallInFlight
<1>6. RowsBehind'
  BY <1>2, <1>4, TracedStays DEF RowsBehind, TraceInv
<1> QED
  BY <1>2, <1>4, <1>5, <1>6 DEF TraceInv

LEMMA InnerInv == ASSUME TraceInv, Inner PROVE TraceInv'
<1>1. /\ call # NotSet /\ call.side = "request" /\ taken' = Append(taken, call.name)
      /\ call' = [call EXCEPT !.side = "response"] /\ UNCHANGED <<config, current, emitted>>
  BY DEF Inner
<1>2. /\ call = [number |-> call.number, name |-> call.name, side |-> call.side]
      /\ call.number = Len(taken) + 1 /\ call.name \in CoreCalls /\ Len(taken) < MaxCalls
      /\ Traced(call.name, "request") => Has(call.number, "request")
  BY <1>1 DEF TraceInv, CallInFlight
<1>3. call' = [number |-> Len(taken) + 1, name |-> call.name, side |-> "response"]
  BY <1>1, <1>2
<1>4. /\ taken' \in Seq(CoreCalls) /\ Len(taken') = Len(taken) + 1 /\ Len(taken) \in Nat
      /\ taken'[Len(taken) + 1] = call.name /\ \A n \in 1 .. Len(taken) : taken'[n] = taken[n]
  BY <1>1, <1>2 DEF TraceInv
<1>5. \A n, side : Has(n, side)' = Has(n, side)
  BY <1>1 DEF Has
<1>6. CallInFlight'
  BY <1>3, <1>4, <1>2 DEF CallInFlight
<1>7. RowsBehind'
  <2> SUFFICES ASSUME NEW n \in 1 .. Len(taken')
               PROVE  /\ Traced(taken'[n], "request") => Has(n, "request")
                      /\ n < Len(taken') => (Traced(taken'[n], "response") => Has(n, "response"))
    <3>1. call' \in [number : Nat, name : CoreCalls, side : {"request", "response"}]
      BY <1>2, <1>3, <1>4
    <3>2. call' # NotSet /\ call'.side # "request"
      BY <1>3, <3>1, TraceAssumption
    <3> QED
      BY <1>1, <1>4, <1>5, <3>2, TracedStays DEF RowsBehind
  <2>1. CASE n = Len(taken) + 1
    BY <2>1, <1>2, <1>4
  <2>2. CASE n \in 1 .. Len(taken)
    BY <2>2, <1>1, <1>4 DEF TraceInv, RowsBehind
  <2> QED
    BY <2>1, <2>2, <1>4
<1> QED
  BY <1>1, <1>2, <1>4, <1>6, <1>7, TraceAssumption DEF TraceInv

LEMMA ResponseInv == ASSUME TraceInv, Response PROVE TraceInv'
<1>1. PICK size \in Sizes : WriteEvent(RowOf(call, size))
  BY DEF Response
<1>2. call # NotSet /\ call.side = "response" /\ call' = NotSet /\ UNCHANGED <<config, taken>>
  BY DEF Response
<1>3. /\ call = [number |-> Len(taken), name |-> call.name, side |-> "response"]
      /\ call.name \in CoreCalls /\ Len(taken) \in Nat \ {0} /\ call.name = taken[Len(taken)]
  BY <1>2 DEF TraceInv, CallInFlight
<1>4. RowOf(call, size) \in Row /\ RowOf(call, size).number = Len(taken) /\ RowOf(call, size).side = "response"
  BY <1>3, RowIsRow DEF RowOf
<1>5. /\ emitted' \in Seq(Row) /\ current' \in Seq(Row)
      /\ \A n, side : Has(n, side) => Has(n, side)'
      /\ Enabled /\ ShouldEmit(RowOf(call, size)) => Has(Len(taken), "response")'
  BY <1>1, <1>2, <1>4, WriteKeepsRows
<1>6. Traced(taken[Len(taken)], "response") => Has(Len(taken), "response")'
  BY <1>3, <1>5, FilterIgnoresSize
<1>7. RowsBehind'
  BY <1>2, <1>3, <1>5, <1>6, TracedStays DEF RowsBehind, TraceInv
<1> QED
  BY <1>2, <1>5, <1>7 DEF TraceInv, CallInFlight

(* A row of the window itself, with or without an end of the call in flight *)
LEMMA UiRowInv ==
  ASSUME TraceInv, NEW name \in {"ui.attempt", "ui.fatal"}, NEW size \in Sizes,
         WriteEvent(UiRow(name, size)), UNCHANGED <<config, taken>>,
         call = NotSet \/ call.side = "request", call' = NotSet
  PROVE  TraceInv'
<1>1. /\ emitted' \in Seq(Row) /\ current' \in Seq(Row)
      /\ \A n, side : Has(n, side) => Has(n, side)'
  BY UiRowIsRow, WriteKeepsRows
<1>2. RowsBehind'
  BY <1>1, TracedStays DEF RowsBehind, TraceInv
<1> QED
  BY <1>1, <1>2 DEF TraceInv, CallInFlight

(* A write that fails leaves rows of the trace or nothing in its file *)
LEMMA FailedWriteInv ==
  ASSUME TraceInv, NEW row, WriteFails(row), UNCHANGED <<config, call, taken>>
  PROVE  TraceInv'
<1>1. UNCHANGED emitted /\ current' \in Seq(Row)
  BY ShortSequences DEF WriteFails, TraceInv
<1>2. \A n, side : Has(n, side)' = Has(n, side)
  BY <1>1 DEF Has
<1>3. CallInFlight' /\ RowsBehind'
  BY <1>2 DEF TraceInv, CallInFlight, RowsBehind, Traced, Enabled, ShouldEmit
<1> QED
  BY <1>1, <1>3 DEF TraceInv

LEMMA TraceNextInv == TraceInv /\ [Next]_launchVars => TraceInv'
<1> SUFFICES ASSUME TraceInv, [Next]_launchVars PROVE TraceInv'
  OBVIOUS
<1>1. CASE UNCHANGED traceVars
  <2>1. UNCHANGED <<config, current, emitted, call, taken>>
    BY <1>1 DEF traceVars
  <2>2. \A n, side : Has(n, side)' = Has(n, side)
    BY <2>1 DEF Has
  <2>3. CallInFlight' /\ RowsBehind'
    BY <2>1, <2>2 DEF TraceInv, CallInFlight, RowsBehind, Traced, Enabled, ShouldEmit
  <2> QED
    BY <2>1, <2>3 DEF TraceInv
<1>2. CASE Trace
  <2>1. CASE UiEvent
    BY <2>1, UiRowInv DEF UiEvent
  <2> QED
    BY <1>2, <2>1, RequestInv, InnerInv, ResponseInv DEF Trace
<1>3. CASE InnerRaises
  BY <1>3, UiRowInv DEF InnerRaises
<1>4. CASE TraceFails
  BY <1>4, FailedWriteInv DEF TraceFails
<1> QED
  BY <1>1, <1>2, <1>3, <1>4 DEF Next, Configure, Drive, OpenWindow, OpenFailedWindow, Refuse, DieStarting,
     FatalReport, Close, Hook, launchVars

(* Whatever the engine took has its request row, and all but the last call *)
(* their response row, but for the rows the filters drop                   *)
(* (TracedCoreClient, should_emit).                                        *)
THEOREM CallsTracedAhead == Spec => []CallsAreTracedAhead
<1>1. TraceInv => CallsAreTracedAhead
  <2> SUFFICES ASSUME TraceInv, NEW n \in 1 .. Len(taken)
               PROVE  /\ Traced(taken[n], "request") => Has(n, "request")
                      /\ n < Len(taken) => (Traced(taken[n], "response") => Has(n, "response"))
    BY FilterIgnoresSize DEF CallsAreTracedAhead, Has
  <2> QED
    BY DEF TraceInv, RowsBehind
<1> QED
  BY <1>1, TraceInitInv, TraceNextInv, PTL DEF Spec

-----------------------------------------------------------------------------
(* The files of the trace.                                                  *)

(* s is the end of t, place by place *)
Ends(s, t) ==
    /\ Len(s) <= Len(t)
    /\ \A i \in 1 .. Len(s) : s[i] = t[Len(t) - Len(s) + i]

Old == rotated # <<>> /\ rotated[1].category = "old"

Fresh == (IF Old THEN <<>> ELSE rotated) \o current

(* The older file is that of an earlier session or holds rows of this one; *)
(* the newer one is empty while it is missing, so that a rotation that got *)
(* half way is known to have left every row in the older file.             *)
FilesInv ==
    /\ config.maxBytes \in Nat
    /\ Old \/ rotated \in Seq(Row)
    /\ ~fileThere => current = <<>>
    /\ Ends(Fresh, emitted)
    /\ Old => current = emitted
    /\ config.maxBytes > 0 => Bytes(current) <= config.maxBytes \/ Len(current) = 1

(* The place by place end of a sequence is its suffix *)
LEMMA EndsIsSuffix ==
  ASSUME NEW S, NEW s \in Seq(S), NEW t \in Seq(S), Ends(s, t)
  PROVE  IsSuffix(s, t)
<1> DEFINE m == Len(s)
           n == Len(t)
           rs == Reverse(s)
           rt == Reverse(t)
<1>1. m \in Nat /\ n \in Nat /\ m <= n
  BY DEF Ends
<1>2. /\ rs = [i \in 1 .. m |-> s[(m - i) + 1]] /\ rt = [i \in 1 .. n |-> t[(n - i) + 1]]
  BY DEF Reverse
<1>3. rs \in Seq(S) /\ rt \in Seq(S) /\ Len(rs) = m /\ Len(rt) = n
  <2>1. \A i \in 1 .. m : s[(m - i) + 1] \in S
    BY <1>1
  <2>2. \A i \in 1 .. n : t[(n - i) + 1] \in S
    BY <1>1
  <2> HIDE DEF rs, rt
  <2> QED
    BY <1>1, <1>2, <2>1, <2>2
<1>4. \A i \in 1 .. m : rs[i] = rt[i]
  <2> SUFFICES ASSUME NEW i \in 1 .. m PROVE rs[i] = rt[i]
    OBVIOUS
  <2>1. (m - i) + 1 \in 1 .. m /\ n - m + ((m - i) + 1) = (n - i) + 1 /\ i \in 1 .. n
    BY <1>1
  <2>2. s[(m - i) + 1] = t[n - m + ((m - i) + 1)]
    BY <2>1 DEF Ends
  <2>3. rs[i] = s[(m - i) + 1] /\ rt[i] = t[(n - i) + 1]
    BY <1>2, <2>1
  <2> QED
    BY <2>1, <2>2, <2>3
<1> HIDE DEF m, n, rs, rt
<1>5. SubSeq(rs, 1, m) = SubSeq(rt, 1, m)
  <2>1. /\ SubSeq(rs, 1, m) \in Seq(S) /\ Len(SubSeq(rs, 1, m)) = m
        /\ \A i \in 1 .. m : SubSeq(rs, 1, m)[i] = rs[i]
    BY <1>1, <1>3
  <2>2. /\ SubSeq(rt, 1, m) \in Seq(S) /\ Len(SubSeq(rt, 1, m)) = m
        /\ \A i \in 1 .. m : SubSeq(rt, 1, m)[i] = rt[i]
    BY <1>1, <1>3
  <2> QED
    BY <1>1, <1>4, <2>1, <2>2
<1> QED
  BY <1>1, <1>3, <1>5 DEF IsSuffix, IsPrefix, rs, rt

(* An end of an end is an end, and ends grow together. *)
LEMMA EndOfEnd ==
  ASSUME NEW S, NEW u \in Seq(S), NEW s \in Seq(S), NEW t \in Seq(S), Ends(u \o s, t)
  PROVE  Ends(s, t)
<1> DEFINE us == u \o s
<1>1. /\ Len(u) \in Nat /\ Len(s) \in Nat /\ Len(t) \in Nat /\ Len(us) = Len(u) + Len(s)
      /\ \A i \in 1 .. Len(s) : us[Len(u) + i] = s[i]
  OBVIOUS
<1>2. Len(us) <= Len(t) /\ \A i \in 1 .. Len(us) : us[i] = t[Len(t) - Len(us) + i]
  BY DEF Ends
<1> HIDE DEF us
<1>3. ASSUME NEW i \in 1 .. Len(s) PROVE s[i] = t[Len(t) - Len(s) + i]
  <2>1. Len(u) + i \in 1 .. Len(us) /\ Len(t) - Len(us) + (Len(u) + i) = Len(t) - Len(s) + i
    BY <1>1
  <2>2. us[Len(u) + i] = t[Len(t) - Len(us) + (Len(u) + i)]
    BY <1>2, <2>1
  <2> QED
    BY <1>1, <2>1, <2>2
<1> QED
  BY <1>1, <1>2, <1>3 DEF Ends

LEMMA EndsGrow ==
  ASSUME NEW S, NEW s \in Seq(S), NEW t \in Seq(S), NEW x \in S, Ends(s, t)
  PROVE  Ends(Append(s, x), Append(t, x))
<1> DEFINE sx == Append(s, x)
           tx == Append(t, x)
<1>1. /\ Len(s) \in Nat /\ Len(t) \in Nat /\ Len(sx) = Len(s) + 1 /\ Len(tx) = Len(t) + 1
      /\ sx[Len(s) + 1] = x /\ \A i \in 1 .. Len(s) : sx[i] = s[i]
      /\ tx[Len(t) + 1] = x /\ \A i \in 1 .. Len(t) : tx[i] = t[i]
  OBVIOUS
<1>2. Len(s) <= Len(t) /\ \A i \in 1 .. Len(s) : s[i] = t[Len(t) - Len(s) + i]
  BY DEF Ends
<1> HIDE DEF sx, tx
<1>3. ASSUME NEW i \in 1 .. Len(sx) PROVE sx[i] = tx[Len(tx) - Len(sx) + i]
  <2>1. CASE i = Len(s) + 1
    <3>1. Len(tx) - Len(sx) + i = Len(t) + 1
      BY <1>1, <2>1
    <3> QED
      BY <1>1, <2>1, <3>1
  <2>2. CASE i \in 1 .. Len(s)
    <3>1. Len(tx) - Len(sx) + i = Len(t) - Len(s) + i /\ Len(t) - Len(s) + i \in 1 .. Len(t)
      BY <1>1, <1>2, <2>2
    <3> QED
      BY <1>1, <1>2, <2>2, <3>1
  <2> QED
    BY <1>1, <2>1, <2>2
<1>4. Ends(sx, tx)
  BY <1>1, <1>2, <1>3 DEF Ends
<1> QED
  BY <1>4 DEF sx, tx

(* sum adds up the sizes of the first n rows *)
Sums(sum, rows, n) == sum = [k \in 0 .. n |-> IF k = 0 THEN 0 ELSE sum[k - 1] + rows[k].size]

LEMMA SumsExist ==
  ASSUME NEW rows, NEW n \in Nat
  PROVE  \E sum : Sums(sum, rows, n)
<1> DEFINE B == {k \in Nat : ~ \E sum : Sums(sum, rows, k)}
<1> SUFFICES ASSUME B # {} PROVE FALSE
  OBVIOUS
<1>1. PICK k \in B : \A j \in B : k <= j
  <2>1. B \subseteq Nat OBVIOUS
  <2> HIDE DEF B
  <2> QED BY <2>1, LeastExists
<1>2. k \in Nat /\ ~ \E sum : Sums(sum, rows, k)
  OBVIOUS
<1>3. CASE k = 0
  <2> DEFINE f == [i \in 0 .. 0 |-> 0]
  <2>1. f = [i \in 0 .. 0 |-> IF i = 0 THEN 0 ELSE f[i - 1] + rows[i].size]
    <3>1. \A i \in 0 .. 0 : i = 0 OBVIOUS
    <3> QED BY <3>1
  <2> QED
    BY <1>2, <1>3, <2>1 DEF Sums
<1>4. CASE k # 0
  <2>1. k - 1 \in Nat /\ ~(k <= k - 1)
    BY <1>2, <1>4
  <2>2. PICK f : Sums(f, rows, k - 1)
    BY <1>1, <2>1
  <2> DEFINE g == [i \in 0 .. k |-> IF i = k THEN f[k - 1] + rows[k].size ELSE f[i]]
  <2>3. ASSUME NEW i \in 0 .. k
        PROVE  g[i] = IF i = 0 THEN 0 ELSE g[i - 1] + rows[i].size
    <3>1. CASE i = k
      BY <1>2, <1>4, <3>1
    <3>2. CASE i # k
      <4>1. i \in 0 .. k - 1 /\ (i # 0 => i - 1 \in 0 .. k /\ i - 1 # k)
        BY <1>2, <3>2
      <4>2. f[i] = IF i = 0 THEN 0 ELSE f[i - 1] + rows[i].size
        BY <2>2, <4>1 DEF Sums
      <4> QED
        BY <3>2, <4>1, <4>2
    <3> QED
      BY <3>1, <3>2
  <2>4. g = [i \in 0 .. k |-> IF i = 0 THEN 0 ELSE g[i - 1] + rows[i].size]
    <3>1. g = [i \in 0 .. k |-> g[i]] OBVIOUS
    <3> HIDE DEF g
    <3> QED BY <2>3, <3>1
  <2> QED
    BY <1>2, <2>4 DEF Sums
<1> QED
  BY <1>3, <1>4

LEMMA BytesSum ==
  ASSUME NEW rows, Len(rows) \in Nat
  PROVE  \E sum : Sums(sum, rows, Len(rows)) /\ Bytes(rows) = sum[Len(rows)]
<1> DEFINE N == Len(rows)
           Is(f) == f = [k \in 0 .. N |-> IF k = 0 THEN 0 ELSE f[k - 1] + rows[k].size]
<1>1. \E f : Is(f)
  BY SumsExist DEF Sums
<1>2. Is(CHOOSE f : Is(f))
  BY <1>1
<1>3. Bytes(rows) = (CHOOSE f : Is(f))[N]
  BY DEF Bytes
<1>4. Sums(CHOOSE f : Is(f), rows, N)
  BY <1>2 DEF Sums
<1> QED
  BY <1>3, <1>4

(* Sums over rows that agree agree *)
LEMMA SumsAgree ==
  ASSUME NEW a, NEW b, NEW rows, NEW more, NEW n \in Nat, NEW m \in Nat, n <= m,
         Sums(a, rows, n), Sums(b, more, m), \A k \in 1 .. n : rows[k].size \in Nat /\ rows[k].size = more[k].size
  PROVE  \A k \in 0 .. n : a[k] \in Nat /\ a[k] = b[k]
<1> DEFINE B == {k \in 0 .. n : ~(a[k] \in Nat /\ a[k] = b[k])}
<1> SUFFICES ASSUME B # {} PROVE FALSE
  OBVIOUS
<1>1. PICK k \in B : \A j \in B : k <= j
  <2>1. B \subseteq Nat OBVIOUS
  <2> HIDE DEF B
  <2> QED BY <2>1, LeastExists
<1>2. k \in 0 .. n /\ k \in 0 .. m /\ ~(a[k] \in Nat /\ a[k] = b[k])
  OBVIOUS
<1>3. /\ a[k] = IF k = 0 THEN 0 ELSE a[k - 1] + rows[k].size
      /\ b[k] = IF k = 0 THEN 0 ELSE b[k - 1] + more[k].size
  BY <1>2 DEF Sums
<1>4. k # 0
  BY <1>2, <1>3
<1>5. k - 1 \in 0 .. n /\ ~(k <= k - 1) /\ k \in 1 .. n
  BY <1>2, <1>4
<1>6. a[k - 1] \in Nat /\ a[k - 1] = b[k - 1]
  BY <1>1, <1>5
<1> QED
  BY <1>2, <1>3, <1>4, <1>5, <1>6

(* What a file weighs, and with one row more *)
LEMMA BytesOfRows ==
  ASSUME NEW rows \in Seq(Row), NEW row \in Row
  PROVE  /\ Bytes(<<>>) = 0
         /\ Bytes(rows) \in Nat
         /\ Bytes(Append(rows, row)) = Bytes(rows) + row.size
<1> DEFINE more == Append(rows, row)
           n == Len(rows)
<1>1. n \in Nat /\ \A k \in 1 .. n : rows[k].size \in Nat
  <2>1. n \in Nat /\ \A k \in 1 .. n : rows[k] \in Row
    OBVIOUS
  <2>2. \A r \in Row : r.size \in Nat
    BY TraceAssumption DEF Row
  <2> HIDE DEF n
  <2> QED
    BY <2>1, <2>2
<1>2. more \in Seq(Row) /\ Len(more) = n + 1 /\ more[n + 1] = row /\ \A k \in 1 .. n : more[k] = rows[k]
  OBVIOUS
<1>3. PICK e : Sums(e, <<>>, 0) /\ Bytes(<<>>) = e[0]
  <2>1. Len(<<>>) = 0 /\ 0 \in Nat OBVIOUS
  <2>2. PICK z : z = <<>> OBVIOUS
  <2>3. Len(z) \in Nat BY <2>1, <2>2
  <2> QED
    BY <2>1, <2>2, <2>3, BytesSum
<1>4. Bytes(<<>>) = 0
  BY <1>3 DEF Sums
<1> HIDE DEF more
<1>5. PICK a : Sums(a, rows, n) /\ Bytes(rows) = a[n]
  BY <1>1, BytesSum
<1>6. PICK b : Sums(b, more, n + 1) /\ Bytes(more) = b[n + 1]
  <2>1. Len(more) \in Nat BY <1>1, <1>2
  <2> QED
    BY <1>2, <2>1, BytesSum
<1>7. \A k \in 0 .. n : a[k] \in Nat /\ a[k] = b[k]
  <2>1. PICK m : m = n + 1 OBVIOUS
  <2>2. m \in Nat /\ n <= m /\ Sums(b, more, m) BY <1>1, <1>6, <2>1
  <2>3. \A k \in 1 .. n : rows[k].size \in Nat /\ rows[k].size = more[k].size BY <1>1, <1>2
  <2>4. n \in Nat BY <1>1
  <2> HIDE DEF n
  <2> QED
    BY SMTT(30), <1>5, <2>2, <2>3, <2>4, SumsAgree
<1>8. b[n + 1] = b[n] + more[n + 1].size
  BY <1>1, <1>6 DEF Sums
<1> QED
  BY <1>1, <1>2, <1>4, <1>5, <1>6, <1>7, <1>8 DEF more

(* The limit of a launch is a number. *)
LEMMA LimitIsNumber == ASSUME NEW input \in Inputs PROVE Resolved(input).maxBytes \in Nat
<1> DEFINE x == input.env.maxBytes
           y == input.file.maxBytes
           given == {i \in DOMAIN <<x, y>> : <<x, y>>[i] # NotSet}
<1>1. x \in Nat \cup {NotSet, Blank} /\ y \in Nat \cup {NotSet, Blank} /\ DefaultMaxBytes \in Nat
  BY LimitAssumption
<1>2. Resolved(input).maxBytes = MaxBytesOf(FirstSet(<<x, y>>))
  BY DEF Resolved
<1>3. FirstSet(<<x, y>>) = IF given = {} THEN NotSet ELSE <<x, y>>[Min(given)]
  BY DEF FirstSet
<1>4. given \subseteq {1, 2}
  OBVIOUS
<1> HIDE DEF x, y, given
<1>5. ASSUME given # {} PROVE <<x, y>>[Min(given)] \in {x, y}
  <2>1. \E i \in given : \A j \in given : i =< j
    <3>1. given \subseteq Nat
      BY <1>4
    <3> QED
      BY <1>5, <3>1, LeastExists
  <2>2. Min(given) \in given
    BY <2>1 DEF Min
  <2>3. PICK i \in {1, 2} : i = Min(given)
    BY <1>4, <2>2
  <2>4. <<x, y>>[1] = x /\ <<x, y>>[2] = y
    OBVIOUS
  <2> QED
    BY <2>3, <2>4
<1>6. FirstSet(<<x, y>>) \in Nat \cup {NotSet, Blank}
  BY <1>1, <1>3, <1>5
<1> QED
  BY <1>1, <1>2, <1>6 DEF MaxBytesOf

LEMMA FilesInitInv == Init => FilesInv
<1> SUFFICES ASSUME Init PROVE FilesInv
  OBVIOUS
<1>1. /\ config.maxBytes \in Nat /\ current = <<>> /\ emitted = <<>>
  BY LimitIsNumber DEF Init, TraceInit
<1>2. Old \/ rotated = <<>>
  BY DEF Init, TraceInit, Old
<1>3. Fresh = <<>>
  BY <1>1, <1>2 DEF Fresh, Old
<1>4. Bytes(<<>>) = 0
  <2> DEFINE is(e) == e = [k \in 0 .. 0 |-> IF k = 0 THEN 0 ELSE e[k - 1] + <<>>[k].size]
  <2>1. PICK z : z = <<>> OBVIOUS
  <2>2. Len(z) = 0 /\ Len(z) \in Nat BY <2>1
  <2>3. PICK e : Sums(e, z, 0) /\ Bytes(z) = e[0] BY <2>2, BytesSum
  <2> QED BY <2>1, <2>3 DEF Sums
<1>5. Ends(<<>>, <<>>)
  BY DEF Ends
<1>6. Old \/ rotated \in Seq(Row)
  BY <1>2, ShortSequences
<1>7. Ends(Fresh, emitted) /\ Bytes(current) = 0
  BY <1>1, <1>3, <1>4, <1>5
<1> QED
  BY <1>1, <1>6, <1>7 DEF FilesInv

(* The rows of this session are none of an earlier one. *)
LEMMA RowsAreFresh ==
  ASSUME NEW rows \in Seq(Row), rows # <<>>
  PROVE  rows[1].category # "old"
<1>1. rows[1] \in Row
  BY ElementOfSeq
<1> QED
  BY <1>1 DEF Row

(* A written row keeps the files in step with what was written. *)
LEMMA WrittenFiles ==
  ASSUME TraceInv, FilesInv, NEW row \in Row, Written(row), UNCHANGED config
  PROVE  FilesInv'
<1>1. emitted \in Seq(Row) /\ current \in Seq(Row)
  BY DEF TraceInv
<1>2. emitted' = Append(emitted, row) /\ fileThere' = TRUE
  BY DEF Written
<1>3. Bytes(<<row>>) = row.size
  <2>1. <<row>> = Append(<<>>, row) OBVIOUS
  <2>2. PICK z \in Seq(Row) : z = <<>> BY ShortSequences
  <2>3. Bytes(<<>>) = 0 /\ Bytes(Append(z, row)) = Bytes(z) + row.size BY BytesOfRows
  <2>4. row.size \in Nat BY TraceAssumption DEF Row
  <2> QED BY <2>1, <2>2, <2>3, <2>4
<1>4. CASE MustRotate(row)
  <2>1. rotated' = current /\ current' = <<row>> /\ current # <<>>
    BY <1>4 DEF Written, MustRotate
  <2>2. ~Old'
    BY <1>1, <2>1, RowsAreFresh DEF Old
  <2>3. Fresh' = current \o <<row>>
    BY <2>1, <2>2 DEF Fresh
  <2>4. Ends(current, emitted)
    <3>1. CASE Old
      BY <1>1, <3>1 DEF FilesInv, Ends
    <3>2. CASE ~Old
      <4>1. rotated \in Seq(Row) /\ Ends(rotated \o current, emitted)
        BY <3>2 DEF FilesInv, Fresh
      <4> QED
        BY <1>1, <4>1, EndOfEnd
    <3> QED
      BY <3>1, <3>2
  <2>5. Ends(Append(current, row), Append(emitted, row)) /\ Append(current, row) = current \o <<row>>
    BY <1>1, <2>4, EndsGrow
  <2>6. Len(current') = 1
    BY <2>1
  <2> QED
    BY <1>1, <1>2, <2>1, <2>2, <2>3, <2>5, <2>6 DEF FilesInv
<1>5. CASE ~MustRotate(row)
  <2>1. current' = Append(current, row) /\ rotated' = rotated
    BY <1>5 DEF Written
  <2>2. Old' = Old
    BY <2>1 DEF Old
  <2>3. Ends(Fresh, emitted)'
    <3>1. CASE Old
      <4>1. Fresh' = Append(current, row) /\ emitted' = Append(current, row)
        BY <1>1, <1>2, <2>1, <2>2, <3>1 DEF Fresh, FilesInv
      <4> QED
        BY <1>1, <4>1 DEF Ends
    <3>2. CASE ~Old
      <4>1. /\ rotated \in Seq(Row) /\ Fresh = rotated \o current
            /\ Fresh' = rotated \o Append(current, row) /\ Ends(Fresh, emitted)
        BY <2>1, <2>2, <3>2 DEF FilesInv, Fresh
      <4>2. Fresh' = Append(Fresh, row) /\ Fresh \in Seq(Row)
        BY <1>1, <4>1
      <4> QED
        BY <1>1, <1>2, <4>1, <4>2, EndsGrow
    <3> QED
      BY <3>1, <3>2
  <2>4. config'.maxBytes > 0 => Bytes(current') <= config'.maxBytes \/ Len(current') = 1
    <3> SUFFICES ASSUME config.maxBytes > 0
                 PROVE  Bytes(Append(current, row)) <= config.maxBytes \/ Len(current') = 1
      BY <2>1
    <3>1. /\ Bytes(current) \in Nat /\ row.size \in Nat /\ config.maxBytes \in Nat
          /\ Bytes(Append(current, row)) = Bytes(current) + row.size
      BY <1>1, BytesOfRows, TraceAssumption DEF Row, FilesInv
    <3>2. CASE current = <<>>
      BY <2>1, <3>2
    <3>3. CASE current # <<>>
      <4>1. fileThere
        BY <3>3 DEF FilesInv
      <4>2. ~(Bytes(current) + row.size > config.maxBytes)
        BY <1>5, <3>3, <4>1 DEF MustRotate
      <4> QED
        BY <3>1, <4>2
    <3> QED
      BY <3>2, <3>3
  <2> QED
    BY <1>2, <2>1, <2>2, <2>3, <2>4 DEF FilesInv
<1> QED
  BY <1>4, <1>5

LEMMA WriteEventFiles ==
  ASSUME TraceInv, FilesInv, NEW row \in Row, WriteEvent(row), UNCHANGED config
  PROVE  FilesInv'
<1>1. CASE Enabled /\ ShouldEmit(row)
  BY <1>1, WrittenFiles DEF WriteEvent
<1>2. CASE ~(Enabled /\ ShouldEmit(row))
  BY <1>2 DEF WriteEvent, FilesInv, Old, Fresh
<1> QED
  BY <1>1, <1>2

(* A failed write loses the older file, or moves the newer one to its place. *)
LEMMA FailedWriteFiles ==
  ASSUME TraceInv, FilesInv, NEW row, WriteFails(row), UNCHANGED config
  PROVE  FilesInv'
<1>1. emitted \in Seq(Row) /\ current \in Seq(Row) /\ UNCHANGED emitted
  BY DEF TraceInv, WriteFails
<1>2. Ends(current, emitted)
  <2>1. CASE Old
    BY <1>1, <2>1 DEF FilesInv, Ends
  <2>2. CASE ~Old
    <3>1. rotated \in Seq(Row) /\ Ends(rotated \o current, emitted)
      BY <2>2 DEF FilesInv, Fresh
    <3> QED
      BY <1>1, <3>1, EndOfEnd
  <2> QED
    BY <2>1, <2>2
<1>3. CASE UNCHANGED <<current, rotated, fileThere>>
  BY <1>1, <1>3 DEF FilesInv, Old, Fresh
<1>4. CASE rotated' = <<>> /\ UNCHANGED <<current, fileThere>>
  <2>1. ~Old' /\ Fresh' = current
    BY <1>1, <1>4 DEF Old, Fresh
  <2> QED
    BY <1>1, <1>2, <1>4, <2>1, ShortSequences DEF FilesInv
<1>5. CASE MustRotate(row) /\ rotated' = current /\ current' = <<>> /\ fileThere' = FALSE
  <2>1. ~Old' /\ Fresh' = current
    BY <1>1, <1>5, RowsAreFresh DEF Old, Fresh
  <2>2. PICK any \in Row : TRUE
    BY <1>1, <1>5, ElementOfSeq DEF MustRotate
  <2>3. Bytes(<<>>) = 0
    BY <1>1, <2>2, BytesOfRows
  <2> QED
    BY <1>1, <1>2, <1>5, <2>1, <2>3 DEF FilesInv
<1> QED
  BY <1>3, <1>4, <1>5 DEF WriteFails

LEMMA FilesNextInv == TraceInv /\ FilesInv /\ [Next]_launchVars => FilesInv'
<1> SUFFICES ASSUME TraceInv, FilesInv, [Next]_launchVars PROVE FilesInv'
  OBVIOUS
<1>1. CASE UNCHANGED <<config, current, rotated, fileThere, emitted>>
  BY <1>1 DEF FilesInv, Old, Fresh
<1>2. CASE Trace
  <2>1. ASSUME NEW name \in CoreCalls, Request(name) PROVE FilesInv'
    <3>1. PICK size \in Sizes : WriteEvent(RowOf([number |-> Len(taken) + 1, name |-> name, side |-> "request"], size))
      BY <2>1 DEF Request
    <3>2. Len(taken) + 1 \in Nat /\ UNCHANGED config
      BY <2>1 DEF Request, TraceInv
    <3>3. RowOf([number |-> Len(taken) + 1, name |-> name, side |-> "request"], size) \in Row
      BY <3>2, RowIsRow
    <3> QED
      BY <3>1, <3>2, <3>3, WriteEventFiles
  <2>2. CASE Inner
    BY <1>1, <2>2 DEF Inner
  <2>3. CASE Response
    <3>1. PICK size \in Sizes : WriteEvent(RowOf(call, size))
      BY <2>3 DEF Response
    <3>2. /\ call = [number |-> Len(taken), name |-> call.name, side |-> "response"]
          /\ call.name \in CoreCalls /\ Len(taken) \in Nat /\ UNCHANGED config
      BY <2>3 DEF Response, TraceInv, CallInFlight
    <3>3. RowOf(call, size) \in Row
      BY <3>2, RowIsRow
    <3> QED
      BY <3>1, <3>2, <3>3, WriteEventFiles
  <2>4. CASE UiEvent
    BY <2>4, UiRowIsRow, WriteEventFiles DEF UiEvent
  <2> QED
    BY <1>2, <2>1, <2>2, <2>3, <2>4 DEF Trace
<1>3. CASE InnerRaises
  BY <1>3, UiRowIsRow, WriteEventFiles DEF InnerRaises
<1>4. CASE TraceFails
  BY <1>4, FailedWriteFiles DEF TraceFails
<1> QED
  BY <1>1, <1>2, <1>3, <1>4 DEF Next, Configure, Drive, OpenWindow, OpenFailedWindow, Refuse, DieStarting,
     FatalReport, Close, Hook, launchVars, traceVars

(* The files hold the newest rows without a gap, whatever was rotated away *)
(* or could not be written, and the newer one keeps to its limit but for a *)
(* single row longer than it (_rotate_if_needed, write_event).             *)
THEOREM FilesHoldTheNewest == Spec => []NewestRowsKept
<1>1. TraceInv /\ FilesInv => NewestRowsKept
  <2> SUFFICES ASSUME TraceInv, FilesInv PROVE NewestRowsKept
    OBVIOUS
  <2>1. Fresh \in Seq(Row) /\ emitted \in Seq(Row) /\ Ends(Fresh, emitted)
    BY ShortSequences DEF TraceInv, FilesInv, Fresh
  <2>2. IsSuffix(Fresh, emitted)
    BY <2>1, EndsIsSuffix
  <2> QED
    BY <2>2 DEF NewestRowsKept, FilesInv, Fresh, Old
<1> QED
  BY <1>1, TraceInitInv, TraceNextInv, FilesInitInv, FilesNextInv, PTL DEF Spec

-----------------------------------------------------------------------------
(* The window and its bundle.                                               *)

FatalRow == ShouldEmit(UiRow("ui.fatal", 1))

BundleInv ==
    /\ phase \in {"launch", "starting", "open", "failed", "fatal", "closed", "dead", "refused"}
    /\ phase = "open" => outcome = "started"
    /\ phase \in {"launch", "starting", "open"} => report = NoReport
    /\ report.state \in {"absent", "no bundle", "no report", "written"}
    /\ report.rows \in Seq(Row) /\ Len(report.rows) <= TailRows
    /\ phase = "fatal" /\ Enabled /\ FatalRow => current # <<>> /\ Last(current).name = "ui.fatal"
    /\ ReportEndsWithFailure

LEMMA TailEnds ==
  ASSUME NEW rows \in Seq(Row)
  PROVE  /\ TailOf(rows) \in Seq(Row) /\ Len(TailOf(rows)) <= TailRows
         /\ TailOf(rows) # <<>> => rows # <<>> /\ Last(TailOf(rows)) = Last(rows)
<1> USE TailAssumption
<1> DEFINE n == Len(rows)
<1>1. n \in Nat
  OBVIOUS
<1>2. CASE n <= TailRows
  BY <1>2 DEF TailOf
<1>3. CASE ~(n <= TailRows)
  <2>1. n - TailRows + 1 \in 1 .. n + 1 /\ TailOf(rows) = SubSeq(rows, n - TailRows + 1, n)
    BY <1>1, <1>3 DEF TailOf
  <2>2. TailOf(rows) \in Seq(Row) /\ Len(TailOf(rows)) = TailRows
        /\ \A i \in 1 .. TailRows : TailOf(rows)[i] = rows[n - TailRows + i]
    BY <1>1, <1>3, <2>1
  <2>3. CASE TailRows = 0
    BY <2>2, <2>3
  <2>4. CASE TailRows > 0
    BY <1>1, <1>3, <2>2, <2>4 DEF Last
  <2> QED
    BY <2>2, <2>3, <2>4
<1> QED
  BY <1>2, <1>3

LEMMA ReportsOfTail ==
  ASSUME NEW r \in Reports
  PROVE  /\ r.state \in {"no bundle", "no report", "written"}
         /\ r.rows = <<>> \/ (Enabled /\ r.rows = TailOf(current))
<1>1. CASE \E p \in TraceParts : r = [state |-> "written", copied |-> p.copied, missing |-> p.missing, rows |-> p.rows]
  <2>1. PICK p \in TraceParts : r = [state |-> "written", copied |-> p.copied, missing |-> p.missing, rows |-> p.rows]
    BY <1>1
  <2>2. p.rows = <<>> \/ (Enabled /\ p.rows = TailOf(current))
    BY DEF TraceParts
  <2> QED
    BY <2>1, <2>2
<1>2. CASE \E st \in {"no bundle", "no report"} : r = [NoReport EXCEPT !.state = st]
  BY <1>2 DEF NoReport
<1> QED
  BY <1>1, <1>2 DEF Reports

LEMMA NoReportIsOne ==
  NoReport.state = "absent" /\ NoReport.rows \in Seq(Row) /\ Len(NoReport.rows) <= TailRows
  BY TailAssumption, ShortSequences DEF NoReport

LEMMA BundleInitInv == Init => BundleInv
  BY NoReportIsOne DEF Init, BundleInv, NoReport, ReportEndsWithFailure

(* The row of the failure is the last one, unless filtered *)
LEMMA FatalRowIsLast ==
  ASSUME TraceInv, NEW size \in Sizes, WriteEvent(UiRow("ui.fatal", size)), UNCHANGED <<config, taken>>,
         (Enabled /\ FatalRow)'
  PROVE  current' # <<>> /\ Last(current').name = "ui.fatal"
<1> DEFINE row == UiRow("ui.fatal", size)
<1>1. Enabled /\ ShouldEmit(row)
  BY DEF Enabled, FatalRow, ShouldEmit, EventName, UiRow
<1>2. current' \in {<<row>>, Append(current, row)} /\ current \in Seq(Row) /\ row.name = "ui.fatal"
  BY <1>1 DEF WriteEvent, Written, TraceInv, UiRow
<1>3. row \in Row
  BY UiRowIsRow
<1> HIDE DEF row
<1>4. CASE current' = <<row>>
  BY <1>2, <1>4 DEF Last
<1>5. CASE current' = Append(current, row)
  BY <1>2, <1>3, <1>5 DEF Last
<1> QED
  BY <1>2, <1>4, <1>5

(* A bundle written now, in a phase that has none *)
LEMMA BundleWritten ==
  ASSUME TraceInv, BundleInv, WriteCrashReport, UNCHANGED <<traceVars, outcome>>,
         phase' \in {"failed", "dead"} \/ (phase = "fatal" /\ phase' = "fatal")
  PROVE  BundleInv'
<1>1. /\ report'.state \in {"no bundle", "no report", "written"}
      /\ report'.rows = <<>> \/ (Enabled /\ report'.rows = TailOf(current))
  BY ReportsOfTail DEF WriteCrashReport
<1>2. TailOf(current) \in Seq(Row) /\ Len(TailOf(current)) <= TailRows
      /\ (TailOf(current) # <<>> => current # <<>> /\ Last(TailOf(current)) = Last(current))
  BY TailEnds DEF TraceInv
<1>3. report'.rows \in Seq(Row) /\ Len(report'.rows) <= TailRows
  <2>1. CASE report'.rows = <<>>
    BY <2>1, TailAssumption, ShortSequences
  <2> QED
    BY <1>1, <1>2, <2>1
<1>4. FatalRow' = FatalRow /\ Enabled' = Enabled /\ UNCHANGED current
  BY DEF FatalRow, ShouldEmit, UiRow, Enabled, traceVars
<1>5. phase = "fatal" /\ Enabled /\ FatalRow => current # <<>> /\ Last(current).name = "ui.fatal"
  BY DEF BundleInv
<1>6. ReportEndsWithFailure'
  BY <1>1, <1>2, <1>4, <1>5 DEF ReportEndsWithFailure, FatalRow
<1> QED
  BY <1>1, <1>3, <1>4, <1>5, <1>6 DEF BundleInv

LEMMA BundleNextInv == TraceInv /\ BundleInv /\ [Next]_launchVars => BundleInv'
<1> SUFFICES ASSUME TraceInv, BundleInv, [Next]_launchVars PROVE BundleInv'
  OBVIOUS
<1>1. CASE UNCHANGED launchVars
  BY <1>1 DEF launchVars, driverVars, traceVars, BundleInv, FatalRow, Enabled, ShouldEmit, UiRow, ReportEndsWithFailure
<1>2. CASE Configure \/ OpenWindow \/ Refuse \/ Close
  BY <1>2 DEF Configure, OpenWindow, Refuse, Close, BundleInv, ReportEndsWithFailure, driverVars
<1>3. CASE Drive
  <2>1. outcome = "started" => outcome' = "started"
    BY <1>3 DEF Drive, DriverNext, Advance, Answer, Arrive, GiveUp, Handover, DriverRaises
  <2> QED
    BY <1>3, <2>1 DEF Drive, BundleInv, ReportEndsWithFailure, traceVars
<1>4. CASE OpenFailedWindow \/ DieStarting \/ FatalReport \/ Hook
  <2>1. WriteCrashReport /\ UNCHANGED <<traceVars, outcome>>
    BY <1>4 DEF OpenFailedWindow, DieStarting, FatalReport, Hook, driverVars
  <2>2. phase' \in {"failed", "dead"} \/ (phase = "fatal" /\ phase' = "fatal")
    BY <1>4 DEF OpenFailedWindow, DieStarting, FatalReport, Hook
  <2> QED
    BY <2>1, <2>2, BundleWritten
<1>5. CASE Trace \/ TraceFails
  BY <1>5 DEF Trace, TraceFails, BundleInv, ReportEndsWithFailure, driverVars
<1>6. CASE InnerRaises
  <2>1. (Enabled /\ FatalRow)' => current' # <<>> /\ Last(current').name = "ui.fatal"
    BY <1>6, FatalRowIsLast DEF InnerRaises
  <2>2. phase' = "fatal" /\ report' = NoReport
    BY <1>6 DEF InnerRaises, BundleInv
  <2>3. ReportEndsWithFailure'
    BY <2>2 DEF ReportEndsWithFailure, NoReport
  <2> QED
    BY <2>1, <2>2, <2>3, NoReportIsOne DEF BundleInv
<1> QED
  BY <1>1, <1>2, <1>3, <1>4, <1>5, <1>6 DEF Next

IInv == DriverInv /\ TraceInv /\ BundleInv

LEMMA Invariance == Spec => []IInv
<1>1. Init => IInv
  BY DriverInitInv, TraceInitInv, BundleInitInv DEF IInv
<1>2. IInv /\ [Next]_launchVars => IInv'
  BY DriverNextInv, TraceNextInv, BundleNextInv DEF IInv
<1> QED
  BY <1>1, <1>2, PTL DEF Spec

(* The types of the driver, the trace and the bundle. *)
THEOREM TypeCorrect == Spec => []TypeOK
<1>1. IInv => TypeOK
  BY DEF IInv, DriverInv, DriverTypeOK, TraceInv, BundleInv, TypeOK
<1> QED
  BY <1>1, Invariance, PTL

(* A bundle of an engine failure ends with the row of that failure, rotated *)
(* or not (_fatal_game_engine_state, _trace_tail_payload).                  *)
THEOREM BundleEndsWithFailure == Spec => []ReportEndsWithFailure
<1>1. IInv => ReportEndsWithFailure
  BY DEF IInv, BundleInv
<1> QED
  BY <1>1, Invariance, PTL
=============================================================================
