--------------------------- MODULE UiSessionProofs ---------------------------
(***************************************************************************)
(* Theorems about a session, for every set of players, units, options and  *)
(* request forms and every bound: its types, that the window stays in step *)
(* with the engine and its editors with the pending request, that result   *)
(* ids are never used twice, that the shown events are the viewer's own,   *)
(* and that a failed window is quiet.  Then its drafts: what Enter sends   *)
(* is what was reviewed, whatever handler ran since; only a finite answer  *)
(* leaves the engine waiting to be advanced; every submission answers the  *)
(* request the engine awaits; an answer leaves the highlight of a request  *)
(* that stays pending, and a rejected movement's paths, where they were;   *)
(* and no selection of another player survives.                            *)
(***************************************************************************)
EXTENDS UiSession, TLAPS, WellFoundedInduction, SequenceTheorems

-----------------------------------------------------------------------------
(* What the operators of the session return: typing, the fields a method   *)
(* leaves alone, and that synchronising binds every editor to the pending  *)
(* request.                                                                *)

(* A least element exists in every set of naturals that is not empty. *)
LEMMA LeastExists ==
    ASSUME NEW T, T \subseteq Nat, T # {}
    PROVE  \E x \in T : \A y \in T : x <= y
<1>1. \E x \in T : \A y \in T : ~ (<<y, x>> \in OpToRel(<, Nat))
    BY NatLessThanWellFounded, WFMin
<1>2. PICK x \in T : \A y \in T : ~ (<<y, x>> \in OpToRel(<, Nat))
    BY <1>1
<1>3. \A y \in T : ~ (y < x)
    BY <1>2 DEF OpToRel
<1> QED BY <1>3

(* FirstOf picks one of the models it is given. *)
LEMMA FirstOfType ==
    ASSUME NEW T, T \subseteq Model, T # {}
    PROVE  FirstOf(T) \in T
<1>1. T \subseteq Nat BY ModelsAssumption DEF Model
<1> QED BY <1>1, LeastExists DEF FirstOf

(* The index of an option that is offered is a position of the list. *)
LEMMA IndexType ==
    ASSUME NEW fs, FiniteOptions(fs) \in Seq(OptionId), NEW o, Offers(fs, o)
    PROVE  IndexOfOption(fs, o) \in 1 .. Len(FiniteOptions(fs))
<1> DEFINE T == {i \in DOMAIN FiniteOptions(fs) : FiniteOptions(fs)[i] = o}
<1>1. T \subseteq Nat /\ T # {} BY DEF Offers
<1>2. PICK x \in T : \A y \in T : x <= y BY <1>1, LeastExists
<1>3. \A j \in 1 .. (x - 1) : FiniteOptions(fs)[j] # o
    BY <1>2
<1>4. \E i \in DOMAIN FiniteOptions(fs) :
        /\ FiniteOptions(fs)[i] = o
        /\ \A j \in 1 .. (i - 1) : FiniteOptions(fs)[j] # o
    BY <1>2, <1>3
<1>5. IndexOfOption(fs, o) \in DOMAIN FiniteOptions(fs)
    BY <1>4 DEF IndexOfOption
<1> QED BY <1>5

-----------------------------------------------------------------------------
(* The engine boundary *)

(* Recording an event keeps the engine's type and the awaited request. *)
LEMMA RecordedType ==
    ASSUME NEW e \in EngineState, NEW a \in Audiences
    PROVE  /\ Recorded(e, a) \in EngineState
           /\ Recorded(e, a).req = e.req
<1> DEFINE st == [p \in Player |-> IF p \in a THEN Append(e.stream[p], e.recorded + 1)
                                             ELSE e.stream[p]]
<1>1. e.stream \in [Player -> Seq(Nat)] /\ e.recorded \in Nat /\ e.rev \in Nat \ {0}
    BY DEF EngineState
<1>2. ASSUME NEW p \in Player PROVE st[p] \in Seq(Nat)
    <2>1. e.stream[p] \in Seq(Nat) BY <1>1
    <2>2. Append(e.stream[p], e.recorded + 1) \in Seq(Nat)
        BY <2>1, <1>1, AppendProperties
    <2> QED BY <2>1, <2>2
<1>3. st \in [Player -> Seq(Nat)] BY <1>2
<1>4. Recorded(e, a) = [e EXCEPT !.rev = e.rev + 1, !.recorded = e.recorded + 1, !.stream = st]
    BY DEF Recorded
<1> HIDE DEF st
<1>5. e.recorded + 1 \in Nat /\ e.rev + 1 \in Nat \ {0} BY <1>1
<1>6. Recorded(e, a) \in EngineState BY <1>3, <1>4, <1>5 DEF EngineState
<1> QED BY <1>4, <1>6 DEF EngineState

(* Asking keeps the engine's type. *)
LEMMA AskingType ==
    ASSUME NEW e \in EngineState, NEW f \in Forms
    PROVE  Asking(e, f) \in EngineState
<1>1. e.issued \in Nat BY DEF EngineState
<1>2. e.issued + 1 \in Nat \ {0} BY <1>1
<1>3. [id |-> e.issued + 1, form |-> f] \in Decision BY <1>2 DEF Decision
<1> QED BY <1>1, <1>2, <1>3 DEF Asking, EngineState

(* A noted rejection leaves the awaited request alone. *)
LEMMA NotedType ==
    ASSUME NEW e \in EngineState, NEW n \in Noted(e)
    PROVE  n \in EngineState /\ n.req = e.req
BY RecordedType DEF Noted

(* An applied answer leaves no request. *)
LEMMA AppliedType ==
    ASSUME NEW e \in EngineState, NEW n \in Applied(e)
    PROVE  n \in EngineState /\ n.req = None
<1> DEFINE done == [e EXCEPT !.req = None, !.rev = e.rev + 1]
<1>1. e.rev + 1 \in Nat \ {0} BY DEF EngineState
<1>2. done \in EngineState /\ done.req = None BY <1>1 DEF EngineState
<1>3. n = done \/ \E a \in Audiences : n = Recorded(done, a) BY DEF Applied
<1> HIDE DEF done
<1> QED BY <1>2, <1>3, RecordedType

(* What a status reports: no request after the end of the game. *)
Reports(status, e) ==
    /\ status \in StatusKinds
    /\ e \in EngineState
    /\ status \in {"unsupported", "terminal"} => e.req = None

LEMMA ContinuationsReport ==
    ASSUME NEW e \in EngineState, e.req = None, NEW c \in Continuations(e)
    PROVE  Reports(c.status, c.engine)
<1>1. CASE \E f \in Forms : c = [status |-> "waiting_for_decision", engine |-> Asking(e, f)]
    BY <1>1, AskingType DEF Reports, StatusKinds
<1>2. CASE \E s \in {"terminal", "unsupported"} :
              c = [status |-> s, engine |-> [e EXCEPT !.over = TRUE]]
    <2> DEFINE n == [e EXCEPT !.over = TRUE]
    <2>1. n \in EngineState /\ n.req = None BY DEF EngineState
    <2>2. PICK s \in {"terminal", "unsupported"} : c = [status |-> s, engine |-> n] BY <1>2
    <2> HIDE DEF n
    <2>3. c.status = s /\ c.engine = n BY <2>2
    <2>4. c.status \in StatusKinds BY <2>3 DEF StatusKinds
    <2> QED BY <2>1, <2>3, <2>4 DEF Reports
<1>3. \/ \E f \in Forms : c = [status |-> "waiting_for_decision", engine |-> Asking(e, f)]
      \/ \E s \in {"terminal", "unsupported"} :
              c = [status |-> s, engine |-> [e EXCEPT !.over = TRUE]]
    BY Zenon DEF Continuations
<1> QED BY <1>1, <1>2, <1>3

(* The engine only rejects or applies an answer to a request it awaits. *)
LEMMA ResponsesReport ==
    ASSUME NEW e \in EngineState, e.req # None, NEW r \in Responses(e)
    PROVE  /\ Reports(r.status, r.engine)
           /\ r.status = "advanced" => r.engine.req = None
<1>1. e.req.form \in Forms BY DEF EngineState, Decision
<1>2. CASE r \in Rejections(e)
    <2>1. r.status = "invalid"
          /\ \E n \in Noted(e) : r.engine = n \/ r.engine = Asking(n, e.req.form)
        BY <1>2 DEF Rejections
    <2> QED BY <1>1, <2>1, NotedType, AskingType DEF Reports, StatusKinds
<1>3. CASE \E n \in Applied(e) : r \in {[status |-> "advanced", engine |-> n]} \cup Continuations(n)
    <2>1. PICK n \in Applied(e) : r \in {[status |-> "advanced", engine |-> n]} \cup Continuations(n)
        BY <1>3
    <2>2. n \in EngineState /\ n.req = None BY AppliedType
    <2>3. CASE r = [status |-> "advanced", engine |-> n]
        BY <2>2, <2>3 DEF Reports, StatusKinds
    <2>4. CASE r \in Continuations(n)
        <3>1. Reports(r.status, r.engine) BY <2>2, <2>4, ContinuationsReport
        <3>2. r.status # "advanced" BY <2>4 DEF Continuations
        <3> QED BY <3>1, <3>2
    <2> QED BY <2>1, <2>3, <2>4
<1> QED BY <1>2, <1>3 DEF Responses

(* Whatever a submission ends with, its status fits the engine. *)
LEMMA AnswersReport ==
    ASSUME NEW e \in EngineState, e.req # None, NEW a \in DirectAnswers(e) \cup ContinuedAnswers(e)
    PROVE  Reports(a.status, a.engine)
<1>1. CASE \E r \in Responses(e) : a.status = r.status /\ a.engine = r.engine
    BY <1>1, ResponsesReport
<1>2. CASE \E r \in Responses(e) : r.status = "advanced" /\
              \E c \in Continuations(r.engine) : a.status = c.status /\ a.engine = c.engine
    <2>1. PICK r \in Responses(e) : r.status = "advanced" /\
              \E c \in Continuations(r.engine) : a.status = c.status /\ a.engine = c.engine
        BY <1>2
    <2>2. r.engine \in EngineState /\ r.engine.req = None
        BY <2>1, ResponsesReport DEF Reports
    <2> QED BY <2>1, <2>2, ContinuationsReport
<1> QED BY <1>1, <1>2 DEF DirectAnswers, ContinuedAnswers

(* Streams only grow                                                        *)
Extends(e, n) ==
    \A p \in Player :
        /\ Len(e.stream[p]) <= Len(n.stream[p])
        /\ \A i \in 1 .. Len(e.stream[p]) : n.stream[p][i] = e.stream[p][i]

LEMMA SameStreams ==
    ASSUME NEW e \in EngineState, NEW n, n.stream = e.stream
    PROVE  Extends(e, n)
<1>1. \A p \in Player : e.stream[p] \in Seq(Nat) BY DEF EngineState
<1> QED BY <1>1 DEF Extends

LEMMA RecordedExtends ==
    ASSUME NEW e \in EngineState, NEW a \in Audiences
    PROVE  Extends(e, Recorded(e, a))
<1> SUFFICES ASSUME NEW p \in Player
             PROVE  /\ Len(e.stream[p]) <= Len(Recorded(e, a).stream[p])
                    /\ \A i \in 1 .. Len(e.stream[p]) :
                         Recorded(e, a).stream[p][i] = e.stream[p][i]
    BY DEF Extends
<1>1. e.stream[p] \in Seq(Nat) /\ e.recorded + 1 \in Nat BY DEF EngineState
<1>2. Recorded(e, a).stream[p] = IF p \in a THEN Append(e.stream[p], e.recorded + 1)
                                             ELSE e.stream[p]
    BY DEF Recorded, EngineState
<1> QED BY <1>1, <1>2, AppendProperties

LEMMA StepsExtend ==
    ASSUME NEW e \in EngineState, NEW n \in Noted(e) \cup Applied(e)
    PROVE  Extends(e, n)
<1>1. CASE n \in Noted(e) BY <1>1, SameStreams, RecordedExtends DEF Noted
<1>2. CASE n \in Applied(e)
    <2> DEFINE done == [e EXCEPT !.req = None, !.rev = e.rev + 1]
    <2>1. e.rev + 1 \in Nat \ {0} BY DEF EngineState
    <2>2. done \in EngineState /\ done.stream = e.stream BY <2>1 DEF EngineState
    <2>3. n = done \/ \E a \in Audiences : n = Recorded(done, a) BY <1>2 DEF Applied
    <2> HIDE DEF done
    <2>4. Extends(done, n) BY <2>2, <2>3, SameStreams, RecordedExtends
    <2> QED BY <2>2, <2>4 DEF Extends
<1> QED BY <1>1, <1>2

(* Asking and ending the game tell nobody anything. *)
LEMMA ContinuationsStream ==
    ASSUME NEW e \in EngineState, NEW c \in Continuations(e)
    PROVE  c.engine.stream = e.stream
<1>1. \/ \E f \in Forms : c = [status |-> "waiting_for_decision", engine |-> Asking(e, f)]
      \/ \E s \in {"terminal", "unsupported"} :
              c = [status |-> s, engine |-> [e EXCEPT !.over = TRUE]]
    BY Zenon DEF Continuations
<1>2. CASE \E f \in Forms : c = [status |-> "waiting_for_decision", engine |-> Asking(e, f)]
    <2>1. PICK f \in Forms : c.engine = Asking(e, f) BY <1>2
    <2> QED BY <2>1 DEF Asking, EngineState
<1>3. CASE \E s \in {"terminal", "unsupported"} :
              c = [status |-> s, engine |-> [e EXCEPT !.over = TRUE]]
    <2> DEFINE n == [e EXCEPT !.over = TRUE]
    <2>1. n.stream = e.stream BY DEF EngineState
    <2>2. c.engine = n BY <1>3
    <2> QED BY <2>1, <2>2
<1> QED BY <1>1, <1>2, <1>3

LEMMA ResponsesStream ==
    ASSUME NEW e \in EngineState, NEW r \in Responses(e)
    PROVE  \E n \in Noted(e) \cup Applied(e) : r.engine.stream = n.stream
<1>1. CASE r \in Rejections(e)
    <2>1. PICK n \in Noted(e) : r.engine = n \/ r.engine = Asking(n, e.req.form)
        BY <1>1 DEF Rejections
    <2>2. n \in EngineState BY <2>1, NotedType
    <2>3. r.engine.stream = n.stream BY <2>1, <2>2 DEF Asking, EngineState
    <2> QED BY <2>1, <2>3
<1>2. CASE \E n \in Applied(e) : r \in {[status |-> "advanced", engine |-> n]} \cup Continuations(n)
    <2>1. PICK n \in Applied(e) : r \in {[status |-> "advanced", engine |-> n]} \cup Continuations(n)
        BY <1>2
    <2>2. n \in EngineState BY <2>1, AppliedType
    <2>3. r.engine.stream = n.stream BY <2>1, <2>2, ContinuationsStream
    <2> QED BY <2>1, <2>3
<1> QED BY <1>1, <1>2 DEF Responses

LEMMA AnswersExtend ==
    ASSUME NEW e \in EngineState, e.req # None, NEW a \in DirectAnswers(e) \cup ContinuedAnswers(e)
    PROVE  Extends(e, a.engine)
<1>1. PICK r \in Responses(e) :
        \/ a.engine = r.engine
        \/ r.status = "advanced" /\ \E c \in Continuations(r.engine) : a.engine = c.engine
    BY DEF DirectAnswers, ContinuedAnswers
<1>2. r.engine \in EngineState BY ResponsesReport DEF Reports
<1>3. a.engine.stream = r.engine.stream BY <1>1, <1>2, ContinuationsStream
<1>4. PICK n \in Noted(e) \cup Applied(e) : r.engine.stream = n.stream BY ResponsesStream
<1>5. Extends(e, n) BY <1>4, StepsExtend
<1> QED BY <1>3, <1>4, <1>5 DEF Extends

-----------------------------------------------------------------------------
(* The finite-decision state *)

(* The highlighted index is one of the options, or there are none. *)
FsOK(fs) ==
    /\ fs \in FiniteState
    /\ fs.hl = 0 \/ fs.hl < Len(FiniteOptions(fs))

(* What a change of focus or status line leaves alone *)
Kept(fs, next) ==
    /\ next.pending = fs.pending /\ next.cursor = fs.cursor
    /\ next.log = fs.log /\ next.next = fs.next

LEMMA PendingType ==
    ASSUME NEW d \in VisibleDecision, d # None
    PROVE  d.id \in Nat /\ d.form \in FormShape
<1>1. CASE d \in Decision
    BY <1>1, FormsAssumption DEF Decision
<1>2. CASE d = HiddenDecision
    <2>1. HiddenForm \in FormShape
        BY DEF HiddenForm, FormShape, InteractionKinds, ProposalKinds
    <2> QED BY <1>2, <2>1 DEF HiddenDecision
<1> QED BY <1>1, <1>2 DEF VisibleDecision

LEMMA OptionsType ==
    ASSUME NEW fs \in FiniteState
    PROVE  FiniteOptions(fs) \in Seq(OptionId)
<1>1. CASE fs.pending = None BY <1>1 DEF FiniteOptions
<1>2. CASE fs.pending # None
    <2>1. fs.pending \in VisibleDecision BY DEF FiniteState
    <2>2. fs.pending.form \in FormShape BY <1>2, <2>1, PendingType
    <2>3. fs.pending.form.options \in Seq(OptionId) BY <2>2 DEF FormShape
    <2> QED BY <2>3 DEF FiniteOptions
<1> QED BY <1>1, <1>2

LEMMA HighlightedType ==
    ASSUME NEW fs, FsOK(fs)
    PROVE  HighlightedOption(fs) \in OptionId \cup {None}
<1>1. fs \in FiniteState /\ FiniteOptions(fs) \in Seq(OptionId) BY OptionsType DEF FsOK
<1>2. fs.hl \in Nat BY <1>1 DEF FiniteState
<1>3. CASE FiniteOptions(fs) = << >> BY <1>3 DEF HighlightedOption
<1>4. CASE FiniteOptions(fs) # << >>
    <2>1. Len(FiniteOptions(fs)) \in Nat \ {0} BY <1>1, <1>4
    <2>2. fs.hl + 1 \in 1 .. Len(FiniteOptions(fs)) BY <1>2, <2>1 DEF FsOK
    <2>3. FiniteOptions(fs)[fs.hl + 1] \in OptionId BY <1>1, <2>2
    <2> QED BY <1>4, <2>3 DEF HighlightedOption
<1> QED BY <1>3, <1>4

(* What is sent is an option and there is a request it is sent for. *)
LEMMA ChosenType ==
    ASSUME NEW fs, FsOK(fs), NEW choice \in OptionId \cup {None}, ChosenOption(fs, choice) # None
    PROVE  ChosenOption(fs, choice) \in OptionId /\ fs.pending # None
BY HighlightedType DEF ChosenOption

LEMMA LocalInvalidType ==
    ASSUME NEW fs, FsOK(fs)
    PROVE  FsOK(LocalInvalid(fs)) /\ Kept(fs, LocalInvalid(fs))
<1>1. LocalInvalid(fs) \in FiniteState /\ Kept(fs, LocalInvalid(fs)) /\ LocalInvalid(fs).hl = fs.hl
    BY DEF FsOK, FiniteState, LocalInvalid, Kept, StatusKinds
<1>2. FiniteOptions(LocalInvalid(fs)) = FiniteOptions(fs) BY <1>1 DEF FiniteOptions, Kept
<1> QED BY <1>1, <1>2 DEF FsOK

(* Focus moves within the options. *)
LEMMA FocusType ==
    ASSUME NEW fs, FsOK(fs), NEW n \in Nat, n = 0 \/ n < Len(FiniteOptions(fs))
    PROVE  FsOK([fs EXCEPT !.hl = n]) /\ Kept(fs, [fs EXCEPT !.hl = n])
<1> DEFINE next == [fs EXCEPT !.hl = n]
<1>1. next \in FiniteState /\ Kept(fs, next) /\ next.hl = n
    BY DEF FsOK, FiniteState, Kept
<1> HIDE DEF next
<1>2. FiniteOptions(next) = FiniteOptions(fs) BY <1>1 DEF FiniteOptions, Kept
<1>3. FsOK(next) /\ Kept(fs, next) BY <1>1, <1>2 DEF FsOK
<1> QED BY <1>3 DEF next

LEMMA CycledType ==
    ASSUME NEW fs, FsOK(fs)
    PROVE  FsOK(CycledOption(fs)) /\ Kept(fs, CycledOption(fs))
<1>1. fs \in FiniteState /\ FiniteOptions(fs) \in Seq(OptionId) BY OptionsType DEF FsOK
<1>2. fs.hl \in Nat BY <1>1 DEF FiniteState
<1>3. CASE FiniteOptions(fs) = << >> BY <1>3 DEF CycledOption, Kept
<1>4. CASE FiniteOptions(fs) # << >>
    <2>1. Len(FiniteOptions(fs)) \in Nat \ {0} BY <1>1, <1>4
    <2>2. (fs.hl + 1) % Len(FiniteOptions(fs)) \in 0 .. (Len(FiniteOptions(fs)) - 1)
        BY <1>2, <2>1
    <2> QED BY <1>4, <2>1, <2>2, FocusType DEF CycledOption
<1> QED BY <1>3, <1>4

LEMMA WithHighlightForUnitType ==
    ASSUME NEW fs, FsOK(fs), NEW u
    PROVE  FsOK(WithHighlightForUnit(fs, u)) /\ Kept(fs, WithHighlightForUnit(fs, u))
<1>1. FiniteOptions(fs) \in Seq(OptionId) BY OptionsType DEF FsOK
<1>2. CASE u # None /\ Offers(fs, u)
    <2>1. IndexOfOption(fs, u) \in 1 .. Len(FiniteOptions(fs)) BY <1>1, <1>2, IndexType
    <2>2. /\ IndexOfOption(fs, u) - 1 \in Nat
          /\ IndexOfOption(fs, u) - 1 < Len(FiniteOptions(fs))
        BY <1>1, <2>1
    <2> QED BY <1>2, <2>2, FocusType DEF WithHighlightForUnit
<1>3. CASE ~(u # None /\ Offers(fs, u))
    BY <1>3 DEF WithHighlightForUnit, Kept
<1> QED BY <1>2, <1>3

LEMMA WithHighlightType ==
    ASSUME NEW fs, FsOK(fs), NEW o
    PROVE  FsOK(WithHighlight(fs, o)) /\ Kept(fs, WithHighlight(fs, o))
<1>1. FiniteOptions(fs) \in Seq(OptionId) BY OptionsType DEF FsOK
<1>2. CASE Offers(fs, o)
    <2> DEFINE n == IndexOfOption(fs, o) - 1
               mid == [fs EXCEPT !.hl = n]
               next == [mid EXCEPT !.status = "waiting_for_decision"]
    <2>1. IndexOfOption(fs, o) \in 1 .. Len(FiniteOptions(fs)) BY <1>1, <1>2, IndexType
    <2>2. n \in Nat /\ n < Len(FiniteOptions(fs)) BY <1>1, <2>1
    <2> HIDE DEF n
    <2>3. FsOK(mid) /\ Kept(fs, mid) BY <2>2, FocusType
    <2> HIDE DEF mid
    <2>4. next \in FiniteState /\ Kept(mid, next) /\ next.hl = mid.hl
        BY <2>3 DEF FsOK, FiniteState, Kept, StatusKinds
    <2>5. FiniteOptions(next) = FiniteOptions(mid) BY <2>4 DEF FiniteOptions, Kept
    <2>6. FsOK(next) /\ Kept(fs, next) BY <2>3, <2>4, <2>5 DEF FsOK, Kept
    <2>7. WithHighlight(fs, o) = next BY <1>2 DEF WithHighlight, next, mid, n
    <2> QED BY <2>6, <2>7
<1>3. CASE ~Offers(fs, o)
    BY <1>3, LocalInvalidType DEF WithHighlight
<1> QED BY <1>2, <1>3

(* Preparing a submission uses up the id and changes nothing else. *)
LEMMA SubmittingType ==
    ASSUME NEW fs, FsOK(fs)
    PROVE  /\ FsOK(Submitting(fs))
           /\ Submitting(fs).next = fs.next + 1
           /\ Submitting(fs).cursor = fs.cursor /\ Submitting(fs).log = fs.log
<1>1. fs.next \in Nat \ {0} BY DEF FsOK, FiniteState
<1>2. fs.next + 1 \in Nat \ {0} BY <1>1
<1>3. /\ Submitting(fs) \in FiniteState /\ Submitting(fs).next = fs.next + 1
      /\ Submitting(fs).hl = fs.hl /\ Submitting(fs).pending = fs.pending
      /\ Submitting(fs).cursor = fs.cursor /\ Submitting(fs).log = fs.log
    BY <1>2 DEF FsOK, FiniteState, Submitting
<1>4. FiniteOptions(Submitting(fs)) = FiniteOptions(fs) BY <1>3 DEF FiniteOptions
<1> QED BY <1>3, <1>4 DEF FsOK

LEMMA WithoutEventsType ==
    ASSUME NEW fs, FsOK(fs)
    PROVE  /\ FsOK(WithoutEvents(fs)) /\ WithoutEvents(fs).next = fs.next
           /\ WithoutEvents(fs).log = << >> /\ WithoutEvents(fs).cursor = 0
<1>1. << >> \in Seq(Nat) OBVIOUS
<1>2. WithoutEvents(fs) \in FiniteState BY <1>1 DEF FsOK, FiniteState, WithoutEvents
<1>3. /\ WithoutEvents(fs).next = fs.next /\ WithoutEvents(fs).log = << >>
      /\ WithoutEvents(fs).hl = fs.hl /\ WithoutEvents(fs).pending = fs.pending
      /\ WithoutEvents(fs).cursor = 0
    BY DEF FsOK, FiniteState, WithoutEvents
<1>4. FiniteOptions(WithoutEvents(fs)) = FiniteOptions(fs) BY <1>3 DEF FiniteOptions
<1> QED BY <1>2, <1>3, <1>4 DEF FsOK

(* The pending decision is replaced, and the focus stays a focus. *)
LEMMA WithPendingType ==
    ASSUME NEW fs, FsOK(fs), NEW d \in VisibleDecision
    PROVE  /\ FsOK(WithPending(fs, d)) /\ WithPending(fs, d).pending = d
           /\ WithPending(fs, d).status = fs.status /\ WithPending(fs, d).next = fs.next
           /\ WithPending(fs, d).cursor = fs.cursor /\ WithPending(fs, d).log = fs.log
<1> DEFINE mid == [fs EXCEPT !.pending = d, !.hl = HighlightAfter(fs.pending, d, fs.hl)]
           last == [mid EXCEPT !.hl = 0]
<1>1. HighlightAfter(fs.pending, d, fs.hl) \in Nat
    BY DEF HighlightAfter, FsOK, FiniteState
<1>2. /\ mid \in FiniteState /\ mid.pending = d /\ mid.status = fs.status
      /\ mid.next = fs.next /\ mid.cursor = fs.cursor /\ mid.log = fs.log
    BY <1>1 DEF FsOK, FiniteState
<1>3. WithPending(fs, d) = Normalized(mid) BY DEF WithPending
<1> HIDE DEF mid
<1>4. /\ last \in FiniteState /\ last.hl = 0 /\ last.pending = d /\ last.status = fs.status
      /\ last.next = fs.next /\ last.cursor = fs.cursor /\ last.log = fs.log
    BY <1>2 DEF FiniteState
<1>5. Normalized(mid) = IF mid.hl < Len(FiniteOptions(mid)) THEN mid ELSE last
    BY DEF Normalized
<1> HIDE DEF last
<1> QED BY <1>2, <1>3, <1>4, <1>5 DEF FsOK

(* A new status line changes no focus. *)
LEMMA StatusType ==
    ASSUME NEW fs, FsOK(fs), NEW s \in StatusKinds
    PROVE  /\ FsOK([fs EXCEPT !.status = s]) /\ Kept(fs, [fs EXCEPT !.status = s])
           /\ [fs EXCEPT !.status = s].status = s
<1> DEFINE next == [fs EXCEPT !.status = s]
<1>1. next \in FiniteState /\ Kept(fs, next) /\ next.hl = fs.hl /\ next.status = s
    BY DEF FsOK, FiniteState, Kept
<1> HIDE DEF next
<1>2. FiniteOptions(next) = FiniteOptions(fs) BY <1>1 DEF FiniteOptions, Kept
<1>3. FsOK(next) /\ Kept(fs, next) /\ next.status = s BY <1>1, <1>2 DEF FsOK
<1> QED BY <1>3 DEF next

LEMMA WithStatusType ==
    ASSUME NEW fs, FsOK(fs), NEW s \in StatusKinds, NEW d \in VisibleDecision
    PROVE  /\ FsOK(WithStatus(fs, s, d)) /\ WithStatus(fs, s, d).status = s
           /\ WithStatus(fs, s, d).next = fs.next /\ WithStatus(fs, s, d).cursor = fs.cursor
           /\ WithStatus(fs, s, d).log = fs.log
<1> DEFINE pending == IF s \in {"unsupported", "terminal"} THEN None
                      ELSE IF d # None THEN d
                      ELSE IF s = "invalid" THEN fs.pending
                      ELSE None
           next == WithPending(fs, pending)
<1>1. pending \in VisibleDecision BY DEF FsOK, FiniteState, VisibleDecision
<1>2. WithStatus(fs, s, d) = [next EXCEPT !.status = s] BY DEF WithStatus
<1> HIDE DEF pending
<1>3. /\ FsOK(next) /\ next.next = fs.next /\ next.cursor = fs.cursor /\ next.log = fs.log
    BY <1>1, WithPendingType
<1> HIDE DEF next
<1> QED BY <1>2, <1>3, StatusType DEF Kept

LEMMA WithViewType ==
    ASSUME NEW fs, FsOK(fs), NEW d \in VisibleDecision
    PROVE  /\ FsOK(WithView(fs, d))
           /\ WithView(fs, d).pending = IF fs.status \in {"unsupported", "terminal", "fatal"}
                                         THEN None ELSE d
           /\ WithView(fs, d).next = fs.next /\ WithView(fs, d).cursor = fs.cursor
           /\ WithView(fs, d).log = fs.log
<1>1. (IF fs.status \in {"unsupported", "terminal", "fatal"} THEN None ELSE d) \in VisibleDecision
    BY DEF VisibleDecision
<1> QED BY <1>1, WithPendingType DEF WithView

(* The last n elements, position by position *)
LEMMA LastOfProperties ==
    ASSUME NEW s \in Seq(Nat), NEW n \in Nat \ {0}
    PROVE  /\ LastOf(s, n) \in Seq(Nat)
           /\ Len(LastOf(s, n)) = IF Len(s) <= n THEN Len(s) ELSE n
           /\ \A i \in 1 .. Len(LastOf(s, n)) :
                /\ Len(s) - Len(LastOf(s, n)) + i \in 1 .. Len(s)
                /\ LastOf(s, n)[i] = s[Len(s) - Len(LastOf(s, n)) + i]
<1>1. Len(s) \in Nat OBVIOUS
<1>2. CASE Len(s) <= n BY <1>1, <1>2 DEF LastOf
<1>3. CASE ~(Len(s) <= n)
    <2>1. \A i \in (Len(s) - n + 1) .. Len(s) : s[i] \in Nat BY <1>1, <1>3
    <2>2. Len(s) - n + 1 \in Int /\ Len(s) \in Int BY <1>1
    <2>3. LastOf(s, n) = SubSeq(s, Len(s) - n + 1, Len(s)) BY <1>3 DEF LastOf
    <2>4. /\ LastOf(s, n) \in Seq(Nat) /\ Len(LastOf(s, n)) = n
          /\ \A i \in 1 .. n : LastOf(s, n)[i] = s[Len(s) - n + 1 + i - 1]
        BY <1>1, <1>3, <2>1, <2>2, <2>3, SubSeqProperties
    <2>5. \A i \in 1 .. n : Len(s) - n + 1 + i - 1 = Len(s) - n + i
                            /\ Len(s) - n + i \in 1 .. Len(s)
        BY <1>1, <1>3
    <2> QED BY <1>3, <2>4, <2>5
<1> QED BY <1>2, <1>3

(* What was dropped before does not matter for the last n. *)
LEMMA LastOfConcat ==
    ASSUME NEW s \in Seq(Nat), NEW t \in Seq(Nat), NEW n \in Nat \ {0}
    PROVE  LastOf(LastOf(s, n) \o t, n) = LastOf(s \o t, n)
<1> DEFINE a == LastOf(s, n)
           at == a \o t
           st == s \o t
           b == LastOf(at, n)
           c == LastOf(st, n)
<1>1. /\ a \in Seq(Nat) /\ Len(a) = IF Len(s) <= n THEN Len(s) ELSE n
      /\ \A i \in 1 .. Len(a) : a[i] = s[Len(s) - Len(a) + i]
    BY LastOfProperties
<1>2. /\ at \in Seq(Nat) /\ Len(at) = Len(a) + Len(t)
      /\ \A i \in 1 .. Len(a) + Len(t) : at[i] = IF i <= Len(a) THEN a[i] ELSE t[i - Len(a)]
    BY <1>1, ConcatProperties
<1>3. /\ st \in Seq(Nat) /\ Len(st) = Len(s) + Len(t)
      /\ \A i \in 1 .. Len(s) + Len(t) : st[i] = IF i <= Len(s) THEN s[i] ELSE t[i - Len(s)]
    BY ConcatProperties
<1> HIDE DEF a, at, st
<1>4. /\ b \in Seq(Nat) /\ Len(b) = IF Len(at) <= n THEN Len(at) ELSE n
      /\ \A i \in 1 .. Len(b) : Len(at) - Len(b) + i \in 1 .. Len(at)
                                /\ b[i] = at[Len(at) - Len(b) + i]
    BY <1>2, LastOfProperties
<1>5. /\ c \in Seq(Nat) /\ Len(c) = IF Len(st) <= n THEN Len(st) ELSE n
      /\ \A i \in 1 .. Len(c) : Len(st) - Len(c) + i \in 1 .. Len(st)
                                /\ c[i] = st[Len(st) - Len(c) + i]
    BY <1>3, LastOfProperties
<1> HIDE DEF b, c
<1>6. Len(s) \in Nat /\ Len(t) \in Nat /\ Len(a) \in Nat /\ Len(b) \in Nat BY <1>1, <1>4
<1>7. Len(b) = Len(c) BY <1>1, <1>2, <1>3, <1>4, <1>5, <1>6
<1>8. ASSUME NEW i \in 1 .. Len(b) PROVE b[i] = c[i]
    <2> DEFINE j == Len(a) + Len(t) - Len(b) + i
               k == Len(s) + Len(t) - Len(b) + i
    <2>1. j \in 1 .. Len(a) + Len(t) /\ b[i] = at[j]
        <3>1. Len(at) - Len(b) + i \in 1 .. Len(at) /\ b[i] = at[Len(at) - Len(b) + i] BY <1>4
        <3>2. Len(at) = Len(a) + Len(t) BY <1>2
        <3> QED BY <3>1, <3>2
    <2>2. k \in 1 .. Len(s) + Len(t) /\ c[i] = st[k]
        <3>1. Len(st) - Len(c) + i \in 1 .. Len(st) /\ c[i] = st[Len(st) - Len(c) + i]
            BY <1>5, <1>7
        <3>2. Len(st) = Len(s) + Len(t) BY <1>3
        <3> QED BY <1>7, <3>1, <3>2
    <2>3. j \in Int /\ k = Len(s) - Len(a) + j BY <1>6
    <2> HIDE DEF j, k
    <2>4. b[i] = IF j <= Len(a) THEN a[j] ELSE t[j - Len(a)] BY <1>2, <2>1
    <2>5. c[i] = IF k <= Len(s) THEN s[k] ELSE t[k - Len(s)] BY <1>3, <2>2
    <2>6. CASE j <= Len(a)
        <3>1. j \in 1 .. Len(a) BY <1>6, <2>1, <2>6
        <3>2. a[j] = s[k] BY <1>1, <2>3, <3>1
        <3>3. k <= Len(s) BY <1>6, <2>3, <2>6
        <3> QED BY <2>4, <2>5, <2>6, <3>2, <3>3
    <2>7. CASE ~(j <= Len(a))
        <3>1. ~(k <= Len(s)) /\ k - Len(s) = j - Len(a) BY <1>6, <2>3, <2>7
        <3> QED BY <2>4, <2>5, <2>7, <3>1
    <2> QED BY <2>6, <2>7
<1>9. b = c BY <1>4, <1>5, <1>7, <1>8, SeqEqual
<1> QED BY <1>9 DEF a, at, st, b, c

LEMMA WithEventsType ==
    ASSUME NEW fs, FsOK(fs), NEW delta \in Seq(Nat), NEW cursor \in Nat
    PROVE  /\ FsOK(WithEvents(fs, delta, cursor)) /\ WithEvents(fs, delta, cursor).cursor = cursor
           /\ WithEvents(fs, delta, cursor).next = fs.next
           /\ WithEvents(fs, delta, cursor).pending = fs.pending
           /\ WithEvents(fs, delta, cursor).log = LastOf(fs.log \o delta, LogCap)
<1> DEFINE log == LastOf(fs.log \o delta, LogCap)
           next == [fs EXCEPT !.cursor = cursor, !.log = log]
<1>1. fs.log \in Seq(Nat) BY DEF FsOK, FiniteState
<1>2. fs.log \o delta \in Seq(Nat) BY <1>1, ConcatProperties
<1>3. log \in Seq(Nat) BY <1>2, LastOfProperties, LogCapAssumption
<1>4. WithEvents(fs, delta, cursor) = next BY DEF WithEvents
<1> HIDE DEF log
<1>5. /\ next \in FiniteState /\ next.cursor = cursor /\ next.next = fs.next
      /\ next.pending = fs.pending /\ next.hl = fs.hl /\ next.log = log
    BY <1>3 DEF FsOK, FiniteState
<1> HIDE DEF next
<1>6. FiniteOptions(next) = FiniteOptions(fs) BY <1>5 DEF FiniteOptions
<1> QED BY <1>4, <1>5, <1>6 DEF FsOK, log

LEMMA WithFatalErrorType ==
    ASSUME NEW fs, FsOK(fs)
    PROVE  /\ FsOK(WithFatalError(fs)) /\ WithFatalError(fs).pending = None
           /\ WithFatalError(fs).log = fs.log
<1>1. /\ WithFatalError(fs) \in FiniteState /\ WithFatalError(fs).pending = None
      /\ WithFatalError(fs).log = fs.log /\ WithFatalError(fs).hl = 0
    BY DEF FsOK, FiniteState, WithFatalError, VisibleDecision
<1> QED BY <1>1 DEF FsOK

-----------------------------------------------------------------------------
(* The refresh after a submission *)

(* Whoever looks, the refresh ends with the actor's view of the request. *)
LEMMA ProjectionFollowsActor ==
    ASSUME NEW e \in EngineState, NEW viewer \in Player
    PROVE  /\ StatusDecision(e, viewer) = e.req
           /\ RefreshViewer(e.req, viewer) \in Player
           /\ ProjectedDecision(e, RefreshViewer(e.req, viewer)) = e.req
<1>1. CASE e.req = None
    BY <1>1 DEF StatusDecision, RefreshViewer, ProjectedDecision
<1>2. CASE e.req # None
    <2>1. e.req \in Decision BY <1>2 DEF EngineState
    <2>2. e.req.form \in FormShape BY <2>1, FormsAssumption DEF Decision
    <2>3. e.req.form.actor \in Player \cup {None} BY <2>2 DEF FormShape
    <2> QED BY <1>2, <2>3 DEF StatusDecision, RefreshViewer, ProjectedDecision
<1> QED BY <1>1, <1>2

LEMMA EventsSinceType ==
    ASSUME NEW e \in EngineState, NEW viewer \in Player, NEW cursor \in Nat
    PROVE  EventsSince(e, cursor, viewer) \in Seq(Nat) /\ Len(e.stream[viewer]) \in Nat
<1>1. e.stream[viewer] \in Seq(Nat) BY DEF EngineState
<1>2. \A i \in (cursor + 1) .. Len(e.stream[viewer]) : e.stream[viewer][i] \in Nat BY <1>1
<1>3. cursor + 1 \in Int /\ Len(e.stream[viewer]) \in Int BY <1>1
<1>4. SubSeq(e.stream[viewer], cursor + 1, Len(e.stream[viewer])) \in Seq(Nat)
    BY <1>2, <1>3, SubSeqProperties
<1> QED BY <1>1, <1>4 DEF EventsSince

(* What a finite state and a view have to do with the engine *)
ShowsEngine(fs, view, e) ==
    /\ FsOK(fs) /\ fs.pending = e.req
    /\ view \in Views /\ view.rev = e.rev
    /\ fs.cursor = Len(e.stream[view.viewer])
    /\ e.req # None => e.req.form.actor \in {None, view.viewer}

(* The event log after a refresh: continued for the same viewer, from the   *)
(* start of the stream for another.                                         *)
Retold(fs, viewer, e, next) ==
    IF next = viewer THEN LastOf(fs.log \o EventsSince(e, fs.cursor, next), LogCap)
    ELSE LastOf(<< >> \o EventsSince(e, 0, next), LogCap)

LEMMA RefreshedType ==
    ASSUME NEW fs, FsOK(fs), NEW status, NEW e, Reports(status, e), NEW viewer \in Player
    PROVE  /\ ShowsEngine(Refreshed(fs, status, e, viewer).fs,
                          Refreshed(fs, status, e, viewer).view, e)
           /\ Refreshed(fs, status, e, viewer).fs.next = fs.next
           /\ Refreshed(fs, status, e, viewer).fs.log =
                Retold(fs, viewer, e, Refreshed(fs, status, e, viewer).view.viewer)
<1> DEFINE next  == RefreshViewer(e.req, viewer)
           start == IF next # viewer THEN WithoutEvents(fs) ELSE fs
           told  == WithStatus(start, status, e.req)
           shown == WithView(told, ProjectedDecision(e, next))
           last  == WithEvents(shown, EventsSince(e, shown.cursor, next), Len(e.stream[next]))
<1>1. e \in EngineState /\ status \in StatusKinds BY DEF Reports
<1>2. e.req \in VisibleDecision BY <1>1 DEF EngineState, VisibleDecision
<1>3. next \in Player /\ ProjectedDecision(e, next) = e.req /\ StatusDecision(e, viewer) = e.req
    BY <1>1, ProjectionFollowsActor
<1>4. Refreshed(fs, status, e, viewer) = [fs |-> last, view |-> [viewer |-> next, rev |-> e.rev]]
    BY <1>3 DEF Refreshed
<1>5. e.req # None => e.req.form.actor \in {None, next} BY DEF RefreshViewer
<1> HIDE DEF next
<1>6. /\ FsOK(start) /\ start.next = fs.next
      /\ start.log = IF next = viewer THEN fs.log ELSE << >>
      /\ start.cursor = IF next = viewer THEN fs.cursor ELSE 0
    BY WithoutEventsType
<1> HIDE DEF start
<1>7. /\ FsOK(told) /\ told.status = status /\ told.next = start.next
      /\ told.log = start.log /\ told.cursor = start.cursor
    BY <1>1, <1>2, <1>6, WithStatusType
<1> HIDE DEF told
<1>8. /\ FsOK(shown) /\ shown.next = told.next
      /\ shown.log = told.log /\ shown.cursor = told.cursor
      /\ shown.pending = IF told.status \in {"unsupported", "terminal", "fatal"}
                         THEN None ELSE e.req
    BY <1>2, <1>3, <1>7, WithViewType
<1>9. shown.pending = e.req BY <1>7, <1>8 DEF Reports, StatusKinds
<1> HIDE DEF shown
<1>10. shown.cursor \in Nat BY <1>8 DEF FsOK, FiniteState
<1>11. /\ EventsSince(e, shown.cursor, next) \in Seq(Nat) /\ Len(e.stream[next]) \in Nat
    BY <1>1, <1>3, <1>10, EventsSinceType
<1>12. /\ FsOK(last) /\ last.cursor = Len(e.stream[next]) /\ last.next = shown.next
       /\ last.pending = shown.pending
       /\ last.log = LastOf(shown.log \o EventsSince(e, shown.cursor, next), LogCap)
    BY <1>8, <1>11, WithEventsType
<1> HIDE DEF last
<1>13. e.rev \in Nat \ {0} BY <1>1 DEF EngineState
<1>14. [viewer |-> next, rev |-> e.rev] \in Views BY <1>3, <1>13 DEF Views
<1>15. ShowsEngine(last, [viewer |-> next, rev |-> e.rev], e)
    BY <1>5, <1>9, <1>12, <1>14 DEF ShowsEngine
<1>16. last.log = Retold(fs, viewer, e, next)
    BY <1>6, <1>7, <1>8, <1>12 DEF Retold
<1> QED BY <1>4, <1>6, <1>7, <1>8, <1>12, <1>15, <1>16

-----------------------------------------------------------------------------
(* The drafts *)

LEMMA ModelsExist == 1 \in Model
BY ModelsAssumption DEF Model

(* A movement draft that starts is for the request and the projection. *)
LEMMA StartMovementType ==
    ASSUME NEW d \in VisibleDecision, NEW rev \in Nat, NEW unit, NEW model \in Model \cup {None},
           StartMovement(d, rev, unit, model) # None
    PROVE  /\ StartMovement(d, rev, unit, model) \in MovementDrafts
           /\ StartMovement(d, rev, unit, model).active # {}
           /\ MatchesMovement(StartMovement(d, rev, unit, model), d, rev)
<1> DEFINE active == IF model \in Model THEN {model} ELSE Model
           draft == [req |-> d.id, unit |-> d.form.unit, rev |-> rev, noMove |-> d.form.noMove,
                     way |-> [m \in Model |-> 0], active |-> active,
                     preview |-> FALSE, payload |-> None]
<1>1. DraftsMovement(d) /\ d.form.unit # None /\ StartMovement(d, rev, unit, model) = draft
    BY DEF StartMovement
<1>2. d # None /\ d.form.interaction # "hidden" /\ d.form.proposal = "movement"
    BY <1>1 DEF DraftsMovement, RoutedTo, Supported
<1>3. d \in Decision BY <1>2 DEF VisibleDecision, HiddenDecision, HiddenForm
<1>4. d.id \in Nat \ {0} /\ d.form \in FormShape BY <1>3, FormsAssumption DEF Decision
<1>5. d.form.unit \in Unit /\ d.form.noMove \in BOOLEAN BY <1>1, <1>4 DEF FormShape
<1>6. active \in SUBSET Model /\ active # {} BY ModelsExist
<1> HIDE DEF active
<1>7. [m \in Model |-> 0] \in [Model -> 0 .. MaxWay] BY MaxWayAssumption
<1>8. draft \in MovementDrafts BY <1>4, <1>5, <1>6, <1>7 DEF MovementDrafts
<1>9. MatchesMovement(draft, d, rev) BY <1>2 DEF MatchesMovement
<1> QED BY <1>1, <1>6, <1>8, <1>9

LEMMA StartPlacementType ==
    ASSUME NEW d \in VisibleDecision, NEW rev \in Nat, StartPlacement(d, rev) # None
    PROVE  /\ StartPlacement(d, rev) \in PlacementDrafts
           /\ MatchesPlacement(StartPlacement(d, rev), d, rev)
<1> DEFINE draft == [req |-> d.id, unit |-> d.form.unit, rev |-> rev,
                     pose |-> [m \in Model |-> 0], cur |-> 1, payload |-> None]
<1>1. DraftsPlacement(d) /\ d.form.unit # None /\ StartPlacement(d, rev) = draft
    BY DEF StartPlacement
<1>2. d # None /\ d.form.interaction # "hidden" /\ d.form.proposal = "placement"
    BY <1>1 DEF DraftsPlacement, RoutedTo, Supported
<1>3. d \in Decision BY <1>2 DEF VisibleDecision, HiddenDecision, HiddenForm
<1>4. d.id \in Nat \ {0} /\ d.form \in FormShape BY <1>3, FormsAssumption DEF Decision
<1>5. d.form.unit \in Unit BY <1>1, <1>4 DEF FormShape
<1>6. [m \in Model |-> 0] \in [Model -> Spot] BY MaxSpotAssumption DEF Spot
<1>7. draft \in PlacementDrafts BY <1>4, <1>5, <1>6, ModelsExist DEF PlacementDrafts
<1>8. MatchesPlacement(draft, d, rev) BY <1>2 DEF MatchesPlacement
<1> QED BY <1>1, <1>7, <1>8

LEMMA StartAssignmentType ==
    ASSUME NEW d \in VisibleDecision, StartAssignment(d) # None
    PROVE  /\ StartAssignment(d) \in Workspaces
           /\ IsForAssignment(StartAssignment(d), d)
<1> DEFINE work == [req |-> d.id, kind |-> d.form.proposal, actor |-> d.form.actor,
                    complete |-> d.form.complete, declinable |-> d.form.declinable,
                    editable |-> d.form.editable]
<1>1. Assignable(d) /\ StartAssignment(d) = work BY DEF StartAssignment
<1>2. /\ d # None /\ d.form.interaction # "hidden"
      /\ d.form.proposal \in {"shooting", "melee", "stratagem"}
    BY <1>1 DEF Assignable
<1>3. d \in Decision BY <1>2 DEF VisibleDecision, HiddenDecision, HiddenForm
<1>4. d.id \in Nat \ {0} /\ d.form \in FormShape BY <1>3, FormsAssumption DEF Decision
<1>5. work \in Workspaces BY <1>2, <1>4 DEF FormShape, Workspaces
<1>6. IsForAssignment(work, d) BY <1>2 DEF IsForAssignment
<1> QED BY <1>1, <1>5, <1>6

(* An edit of a draft keeps what binds it to its request. *)
SameMovement(draft, next) ==
    /\ next \in MovementDrafts
    /\ next.req = draft.req /\ next.unit = draft.unit /\ next.rev = draft.rev

SamePlacement(draft, next) ==
    /\ next \in PlacementDrafts
    /\ next.req = draft.req /\ next.unit = draft.unit /\ next.rev = draft.rev

LEMMA MovementEdits ==
    ASSUME NEW draft \in MovementDrafts
    PROVE  /\ \A models \in SUBSET Model : SameMovement(draft, WithSelection(draft, models))
           /\ SameMovement(draft, WithPreview(draft))
           /\ SameMovement(draft, WithoutLastWaypoint(draft))
           /\ SameMovement(draft, MovementReadyCleared(draft))
<1>1. ASSUME NEW models \in SUBSET Model
      PROVE  SameMovement(draft, WithSelection(draft, models))
    BY DEF SameMovement, MovementDrafts, WithSelection
<1>2. SameMovement(draft, WithPreview(draft))
    BY DEF SameMovement, MovementDrafts, WithPreview
<1>3. SameMovement(draft, WithoutLastWaypoint(draft))
    <2> DEFINE way == [m \in Model |-> IF m \in draft.active /\ draft.way[m] > 0
                                       THEN draft.way[m] - 1 ELSE draft.way[m]]
    <2>1. draft.way \in [Model -> 0 .. MaxWay] BY DEF MovementDrafts
    <2>2. way \in [Model -> 0 .. MaxWay] BY <2>1, MaxWayAssumption
    <2>3. WithoutLastWaypoint(draft) = [draft EXCEPT !.way = way, !.preview = FALSE, !.payload = None]
        BY DEF WithoutLastWaypoint
    <2> HIDE DEF way
    <2> QED BY <2>2, <2>3 DEF SameMovement, MovementDrafts
<1>4. SameMovement(draft, MovementReadyCleared(draft))
    BY DEF SameMovement, MovementDrafts, MovementReadyCleared
<1> QED BY <1>1, <1>2, <1>3, <1>4

LEMMA WaypointType ==
    ASSUME NEW draft \in MovementDrafts, HasRoom(draft)
    PROVE  SameMovement(draft, WithWaypoint(draft))
<1> DEFINE way == [m \in Model |-> IF m \in draft.active
                                   THEN draft.way[m] + 1 ELSE draft.way[m]]
<1>1. draft.way \in [Model -> 0 .. MaxWay] BY DEF MovementDrafts
<1>2. way \in [Model -> 0 .. MaxWay]
    BY <1>1, MaxWayAssumption DEF HasRoom
<1>3. WithWaypoint(draft) = [draft EXCEPT !.way = way, !.preview = FALSE, !.payload = None]
    BY DEF WithWaypoint
<1> HIDE DEF way
<1> QED BY <1>2, <1>3 DEF SameMovement, MovementDrafts

LEMMA MarkedReadyType ==
    ASSUME NEW draft \in MovementDrafts, draft.preview => HasRoom(draft), NEW moves
    PROVE  SameMovement(draft, MovementMarkedReady(draft, moves))
<1> DEFINE committed == IF draft.preview THEN WithWaypoint(draft) ELSE draft
           payload == IF HasAssignments(committed, moves) \/ draft.noMove THEN committed.way ELSE None
<1>1. draft.preview \in BOOLEAN BY DEF MovementDrafts
<1>2. SameMovement(draft, committed) BY <1>1, WaypointType DEF SameMovement
<1>3. MovementMarkedReady(draft, moves) = [committed EXCEPT !.payload = payload]
    BY DEF MovementMarkedReady
<1> HIDE DEF committed
<1>4. payload \in [Model -> 0 .. MaxWay] \cup {None} BY <1>2 DEF SameMovement, MovementDrafts
<1> HIDE DEF payload
<1> QED BY <1>2, <1>3, <1>4 DEF SameMovement, MovementDrafts

LEMMA PlacementEdits ==
    ASSUME NEW draft \in PlacementDrafts
    PROVE  /\ SamePlacement(draft, WithNextModel(draft))
           /\ SamePlacement(draft, PlacementMarkedReady(draft))
           /\ \A spot \in Spot : SamePlacement(draft, WithModelPlaced(draft, spot))
<1>1. SamePlacement(draft, WithNextModel(draft))
    <2>1. draft.cur \in Nat \ {0} /\ NModels \in Nat \ {0}
        BY ModelsAssumption DEF PlacementDrafts, Model
    <2>2. (draft.cur % NModels) + 1 \in Model BY <2>1 DEF Model
    <2> QED BY <2>2 DEF SamePlacement, PlacementDrafts, WithNextModel
<1>2. SamePlacement(draft, PlacementMarkedReady(draft))
    BY DEF SamePlacement, PlacementDrafts, PlacementMarkedReady
<1>3. ASSUME NEW spot \in Spot
      PROVE  SamePlacement(draft, WithModelPlaced(draft, spot))
    <2> DEFINE pose == [draft.pose EXCEPT ![draft.cur] = spot]
               unplaced == {m \in Model : pose[m] = 0}
               cur == IF unplaced = {} THEN draft.cur ELSE FirstOf(unplaced)
    <2>1. draft.cur \in Model /\ draft.pose \in [Model -> Spot] BY DEF PlacementDrafts
    <2>2. pose \in [Model -> Spot] BY <2>1
    <2>3. WithModelPlaced(draft, spot) = [draft EXCEPT !.pose = pose, !.cur = cur, !.payload = None]
        BY DEF WithModelPlaced
    <2> HIDE DEF pose
    <2>4. unplaced \subseteq Model OBVIOUS
    <2> HIDE DEF unplaced
    <2>5. cur \in Model BY <2>1, <2>4, FirstOfType
    <2> HIDE DEF cur
    <2> QED BY <2>2, <2>3, <2>5 DEF SamePlacement, PlacementDrafts
<1> QED BY <1>1, <1>2, <1>3

-----------------------------------------------------------------------------
(* The window *)

(* What synchronising and selecting leave alone *)
SameShell(u, w) ==
    /\ w.view = u.view /\ w.viewer = u.viewer /\ w.fatal = u.fatal
    /\ w.hudLines = u.hudLines /\ w.drawn = u.drawn

MovementBound(u) ==
    u.movement # None =>
        IsForMovement(u.movement, u.unit, u.fs.pending, ProjectionHash(u))

PlacementBound(u) ==
    u.placement # None => MatchesPlacement(u.placement, u.fs.pending, ProjectionHash(u))

AssignmentBound(u) ==
    u.assignment # None => IsForAssignment(u.assignment, u.fs.pending)

EditorsMatch(u) == MovementBound(u) /\ PlacementBound(u) /\ AssignmentBound(u)

LEMMA ProjectionHashType ==
    ASSUME NEW u \in Window
    PROVE  ProjectionHash(u) \in Nat
BY DEF ProjectionHash, Window, Views

LEMMA SelectingType ==
    ASSUME NEW u \in Window, NEW unit \in Unit \cup {None}, NEW model \in Model \cup {None}
    PROVE  /\ Selecting(u, unit, model) \in Window /\ SameShell(u, Selecting(u, unit, model))
           /\ Selecting(u, unit, model).unit = unit
           /\ Selecting(u, unit, model).fs = u.fs
           /\ Selecting(u, unit, model).movement = u.movement
           /\ Selecting(u, unit, model).placement = u.placement
           /\ Selecting(u, unit, model).assignment = u.assignment
BY DEF Selecting, Window, SameShell

LEMMA FocusHighlightedType ==
    ASSUME NEW u \in Window
    PROVE  /\ FocusHighlighted(u) \in Window /\ SameShell(u, FocusHighlighted(u))
           /\ FocusHighlighted(u).fs = u.fs
           /\ FocusHighlighted(u).movement = u.movement
           /\ FocusHighlighted(u).placement = u.placement
           /\ FocusHighlighted(u).assignment = u.assignment
BY SelectingType DEF FocusHighlighted, SameShell

(* One step of the synchronisation: w comes from u *)
Step(u, w) ==
    /\ w \in Window /\ FsOK(w.fs) /\ Kept(u.fs, w.fs) /\ SameShell(u, w)

LEMMA StepSelf ==
    ASSUME NEW u \in Window, FsOK(u.fs)
    PROVE  Step(u, u)
BY DEF Step, Kept, SameShell

LEMMA SameHash ==
    ASSUME NEW u, NEW w, SameShell(u, w)
    PROVE  ProjectionHash(w) = ProjectionHash(u)
BY DEF SameShell, ProjectionHash

(* Synchronising the movement draft binds it. *)
LEMMA SyncMovementType ==
    ASSUME NEW u \in Window, FsOK(u.fs)
    PROVE  Step(u, SyncMovement(u)) /\ MovementBound(SyncMovement(u))
<1> DEFINE next == StartMovement(u.fs.pending, ProjectionHash(u), u.unit, u.model)
<1>1. CASE u.movement # None /\ IsForMovement(u.movement, u.unit, u.fs.pending, ProjectionHash(u))
    BY <1>1, StepSelf DEF SyncMovement, MovementBound
<1>2. CASE /\ ~(u.movement # None /\ IsForMovement(u.movement, u.unit, u.fs.pending, ProjectionHash(u)))
           /\ MovementStartRaises(u.fs.pending)
    <2> DEFINE fs == LocalInvalid(u.fs)
               w  == [u EXCEPT !.movement = None, !.fs = fs]
    <2>1. FsOK(fs) /\ Kept(u.fs, fs) BY LocalInvalidType
    <2>2. SyncMovement(u) = w BY <1>2 DEF SyncMovement
    <2> HIDE DEF fs
    <2>3. w \in Window /\ SameShell(u, w) /\ w.fs = fs /\ w.movement = None
        BY <2>1 DEF Window, SameShell, FsOK
    <2> HIDE DEF w
    <2> QED BY <2>1, <2>2, <2>3 DEF Step, MovementBound
<1>3. CASE /\ ~(u.movement # None /\ IsForMovement(u.movement, u.unit, u.fs.pending, ProjectionHash(u)))
           /\ ~MovementStartRaises(u.fs.pending)
           /\ next # None
    <2> DEFINE mid == [u EXCEPT !.movement = next, !.placement = None, !.assignment = None]
               w   == Selecting(mid, next.unit, FirstOf(next.active))
    <2>1. u.fs.pending \in VisibleDecision /\ u.model \in Model \cup {None}
        BY DEF FsOK, FiniteState, Window
    <2>2. /\ next \in MovementDrafts /\ next.active # {}
          /\ MatchesMovement(next, u.fs.pending, ProjectionHash(u))
        BY <1>3, <2>1, ProjectionHashType, StartMovementType
    <2>3. SyncMovement(u) = w BY <1>3 DEF SyncMovement, WithMovement
    <2> HIDE DEF next
    <2>4. mid \in Window /\ SameShell(u, mid) /\ mid.fs = u.fs /\ mid.movement = next
        BY <2>2 DEF Window, SameShell
    <2>5. next.unit \in Unit /\ next.active \subseteq Model BY <2>2 DEF MovementDrafts
    <2>6. FirstOf(next.active) \in Model BY <2>2, <2>5, FirstOfType
    <2> HIDE DEF mid
    <2>7. /\ w \in Window /\ SameShell(mid, w) /\ w.fs = mid.fs /\ w.unit = next.unit
          /\ w.movement = mid.movement
        BY <2>4, <2>5, <2>6, SelectingType
    <2> HIDE DEF w
    <2>8. SameShell(u, w) BY <2>4, <2>7 DEF SameShell
    <2>9. ProjectionHash(w) = ProjectionHash(u) BY <2>8, SameHash
    <2>10. MovementBound(w) BY <2>2, <2>4, <2>7, <2>9 DEF MovementBound, IsForMovement
    <2> QED BY <2>3, <2>4, <2>7, <2>8, <2>10 DEF Step, Kept
<1>4. CASE /\ ~(u.movement # None /\ IsForMovement(u.movement, u.unit, u.fs.pending, ProjectionHash(u)))
           /\ ~MovementStartRaises(u.fs.pending)
           /\ next = None
    <2> DEFINE w == [u EXCEPT !.movement = None]
    <2>1. SyncMovement(u) = w BY <1>4 DEF SyncMovement
    <2>2. w \in Window /\ SameShell(u, w) /\ w.fs = u.fs /\ w.movement = None
        BY DEF Window, SameShell
    <2> HIDE DEF w
    <2> QED BY <2>1, <2>2 DEF Step, Kept, MovementBound
<1> QED BY <1>1, <1>2, <1>3, <1>4

(* Synchronising the placement draft binds it and lets a movement draft be, *)
(* or closes it.                                                            *)
LEMMA SyncPlacementType ==
    ASSUME NEW u \in Window, FsOK(u.fs), MovementBound(u)
    PROVE  /\ Step(u, SyncPlacement(u))
           /\ MovementBound(SyncPlacement(u)) /\ PlacementBound(SyncPlacement(u))
<1> DEFINE next == StartPlacement(u.fs.pending, ProjectionHash(u))
           kept == u.placement # None /\ MatchesPlacement(u.placement, u.fs.pending, ProjectionHash(u))
<1>1. CASE kept
    BY <1>1, StepSelf DEF SyncPlacement, PlacementBound
<1>2. CASE ~kept /\ PlacementStartRaises(u.fs.pending)
    <2> DEFINE fs == LocalInvalid(u.fs)
               w  == [u EXCEPT !.placement = None, !.fs = fs]
    <2>1. FsOK(fs) /\ Kept(u.fs, fs) BY LocalInvalidType
    <2>2. SyncPlacement(u) = w BY <1>2 DEF SyncPlacement
    <2> HIDE DEF fs
    <2>3. /\ w \in Window /\ SameShell(u, w) /\ w.fs = fs /\ w.placement = None
          /\ w.movement = u.movement /\ w.unit = u.unit
        BY <2>1 DEF Window, SameShell, FsOK
    <2> HIDE DEF w
    <2>4. ProjectionHash(w) = ProjectionHash(u) BY <2>3, SameHash
    <2>5. MovementBound(w) BY <2>1, <2>3, <2>4 DEF MovementBound, Kept
    <2> QED BY <2>1, <2>2, <2>3, <2>5 DEF Step, PlacementBound
<1>3. CASE ~kept /\ ~PlacementStartRaises(u.fs.pending) /\ next # None
    <2> DEFINE mid == [u EXCEPT !.placement = next, !.movement = None, !.assignment = None]
               w   == Selecting(mid, next.unit, next.cur)
    <2>1. u.fs.pending \in VisibleDecision BY DEF FsOK, FiniteState
    <2>2. next \in PlacementDrafts /\ MatchesPlacement(next, u.fs.pending, ProjectionHash(u))
        BY <1>3, <2>1, ProjectionHashType, StartPlacementType
    <2>3. SyncPlacement(u) = w BY <1>3 DEF SyncPlacement, WithPlacement
    <2> HIDE DEF next
    <2>4. /\ mid \in Window /\ SameShell(u, mid) /\ mid.fs = u.fs /\ mid.placement = next
          /\ mid.movement = None
        BY <2>2 DEF Window, SameShell
    <2>5. next.unit \in Unit /\ next.cur \in Model BY <2>2 DEF PlacementDrafts
    <2> HIDE DEF mid
    <2>6. /\ w \in Window /\ SameShell(mid, w) /\ w.fs = mid.fs
          /\ w.movement = mid.movement /\ w.placement = mid.placement
        BY <2>4, <2>5, SelectingType
    <2> HIDE DEF w
    <2>7. SameShell(u, w) BY <2>4, <2>6 DEF SameShell
    <2>8. ProjectionHash(w) = ProjectionHash(u) BY <2>7, SameHash
    <2>9. MovementBound(w) /\ PlacementBound(w)
        BY <2>2, <2>4, <2>6, <2>8 DEF MovementBound, PlacementBound
    <2> QED BY <2>3, <2>4, <2>6, <2>7, <2>9 DEF Step, Kept
<1>4. CASE ~kept /\ ~PlacementStartRaises(u.fs.pending) /\ next = None
    <2> DEFINE w == [u EXCEPT !.placement = None]
    <2>1. SyncPlacement(u) = w BY <1>4 DEF SyncPlacement
    <2>2. /\ w \in Window /\ SameShell(u, w) /\ w.fs = u.fs /\ w.placement = None
          /\ w.movement = u.movement /\ w.unit = u.unit
        BY DEF Window, SameShell
    <2> HIDE DEF w
    <2>3. ProjectionHash(w) = ProjectionHash(u) BY <2>2, SameHash
    <2>4. MovementBound(w) BY <2>2, <2>3 DEF MovementBound
    <2> QED BY <2>1, <2>2, <2>4 DEF Step, Kept, PlacementBound
<1> QED BY <1>1, <1>2, <1>3, <1>4

(* Synchronising the workspace binds it and lets the drafts be, or closes   *)
(* them.                                                                    *)
LEMMA SyncAssignmentType ==
    ASSUME NEW u \in Window, FsOK(u.fs), MovementBound(u), PlacementBound(u)
    PROVE  Step(u, SyncAssignment(u)) /\ EditorsMatch(SyncAssignment(u))
<1> DEFINE next == StartAssignment(u.fs.pending)
           kept == u.assignment # None /\ IsForAssignment(u.assignment, u.fs.pending)
<1>1. CASE kept
    BY <1>1, StepSelf DEF SyncAssignment, EditorsMatch, AssignmentBound
<1>2. CASE ~kept /\ next # None
    <2> DEFINE w == [u EXCEPT !.assignment = next, !.movement = None, !.placement = None]
    <2>1. u.fs.pending \in VisibleDecision BY DEF FsOK, FiniteState
    <2>2. next \in Workspaces /\ IsForAssignment(next, u.fs.pending)
        BY <1>2, <2>1, StartAssignmentType
    <2>3. SyncAssignment(u) = w BY <1>2 DEF SyncAssignment
    <2> HIDE DEF next
    <2>4. /\ w \in Window /\ SameShell(u, w) /\ w.fs = u.fs /\ w.assignment = next
          /\ w.movement = None /\ w.placement = None
        BY <2>2 DEF Window, SameShell
    <2> HIDE DEF w
    <2> QED BY <2>2, <2>3, <2>4
        DEF Step, Kept, EditorsMatch, MovementBound, PlacementBound, AssignmentBound
<1>3. CASE ~kept /\ next = None
    <2> DEFINE w == [u EXCEPT !.assignment = None]
    <2>1. SyncAssignment(u) = w BY <1>3 DEF SyncAssignment
    <2>2. /\ w \in Window /\ SameShell(u, w) /\ w.fs = u.fs /\ w.assignment = None
          /\ w.movement = u.movement /\ w.unit = u.unit /\ w.placement = u.placement
        BY DEF Window, SameShell
    <2> HIDE DEF w
    <2>3. ProjectionHash(w) = ProjectionHash(u) BY <2>2, SameHash
    <2> QED BY <2>1, <2>2, <2>3
        DEF Step, Kept, EditorsMatch, MovementBound, PlacementBound, AssignmentBound
<1> QED BY <1>1, <1>2, <1>3

(* After synchronising, every open editor is for the pending request. *)
LEMMA SyncEditorsType ==
    ASSUME NEW u \in Window, FsOK(u.fs)
    PROVE  Step(u, SyncEditors(u)) /\ EditorsMatch(SyncEditors(u))
<1> DEFINE m == SyncMovement(u)
           p == SyncPlacement(m)
           a == SyncAssignment(p)
<1>1. Step(u, m) /\ MovementBound(m) BY SyncMovementType
<1>2. SyncEditors(u) = a BY DEF SyncEditors
<1> HIDE DEF m
<1>3. Step(m, p) /\ MovementBound(p) /\ PlacementBound(p)
    BY <1>1, SyncPlacementType DEF Step
<1> HIDE DEF p
<1>4. Step(p, a) /\ EditorsMatch(a)
    BY <1>3, SyncAssignmentType DEF Step
<1> HIDE DEF a
<1> QED BY <1>1, <1>2, <1>3, <1>4 DEF Step, Kept, SameShell

LEMMA HudLinesType ==
    ASSUME NEW old \in Seq(Nat), NEW fs, FsOK(fs)
    PROVE  HudLines(old, fs) \in Seq(Nat)
BY DEF HudLines, FsOK, FiniteState

(* Setting the finite state ends with the editors bound to it. *)
LEMMA SetFiniteType ==
    ASSUME NEW u \in Window, NEW fs, FsOK(fs)
    PROVE  /\ SetFinite(u, fs) \in Window
           /\ FsOK(SetFinite(u, fs).fs) /\ Kept(fs, SetFinite(u, fs).fs)
           /\ EditorsMatch(SetFinite(u, fs))
           /\ SetFinite(u, fs).view = u.view /\ SetFinite(u, fs).viewer = u.viewer
           /\ SetFinite(u, fs).fatal = u.fatal /\ SetFinite(u, fs).drawn = u.drawn
           /\ SetFinite(u, fs).hudLines = HudLines(u.hudLines, fs)
<1> DEFINE lines == HudLines(u.hudLines, fs)
           mid == [u EXCEPT !.fs = fs, !.hudLines = lines]
           seen == FocusHighlighted(mid)
           last == SyncEditors(seen)
<1>1. u.hudLines \in Seq(Nat) BY DEF Window
<1>2. lines \in Seq(Nat) BY <1>1, HudLinesType
<1>3. SetFinite(u, fs) = last BY DEF SetFinite
<1> HIDE DEF lines
<1>4. /\ mid \in Window /\ mid.fs = fs /\ mid.hudLines = lines /\ mid.view = u.view
      /\ mid.viewer = u.viewer /\ mid.fatal = u.fatal /\ mid.drawn = u.drawn
    BY <1>2 DEF Window, FsOK
<1> HIDE DEF mid
<1>5. seen \in Window /\ SameShell(mid, seen) /\ seen.fs = fs
    BY <1>4, FocusHighlightedType
<1> HIDE DEF seen
<1>6. Step(seen, last) /\ EditorsMatch(last) BY <1>5, SyncEditorsType
<1> HIDE DEF last
<1>7. lines = HudLines(u.hudLines, fs) BY DEF lines
<1> QED BY <1>3, <1>4, <1>5, <1>6, <1>7 DEF Step, SameShell

(* With nothing pending and no editor open there is nothing to do. *)
LEMMA QuietSync ==
    ASSUME NEW u \in Window, u.fs.pending = None,
           u.movement = None, u.placement = None, u.assignment = None
    PROVE  SyncEditors(u) = u
<1>1. [u EXCEPT !.movement = None] = u BY DEF Window
<1>2. [u EXCEPT !.placement = None] = u BY DEF Window
<1>3. [u EXCEPT !.assignment = None] = u BY DEF Window
<1>4. SyncMovement(u) = u
    BY <1>1 DEF SyncMovement, MovementStartRaises, StartMovement, DraftsMovement
<1>5. SyncPlacement(u) = u
    BY <1>2 DEF SyncPlacement, PlacementStartRaises, StartPlacement, DraftsPlacement
<1>6. SyncAssignment(u) = u
    BY <1>3 DEF SyncAssignment, StartAssignment, Assignable
<1> QED BY <1>4, <1>5, <1>6 DEF SyncEditors

(* What is left of the game after a fatal error *)
Quiet(u) ==
    /\ u.fs.pending = None /\ u.fs.log = << >> /\ u.hudLines = << >>
    /\ u.movement = None /\ u.placement = None /\ u.assignment = None
    /\ u.unit = None /\ u.model = None
    /\ u.view = None /\ u.viewer = None /\ u.drawn = {}

LEMMA FatalType ==
    ASSUME NEW u \in Window, FsOK(u.fs)
    PROVE  /\ Fatal(u) \in Window /\ FsOK(Fatal(u).fs)
           /\ Fatal(u).fatal /\ Quiet(Fatal(u))
<1> DEFINE fs == WithFatalError(WithoutEvents(u.fs))
           bare == [u EXCEPT !.movement = None, !.placement = None, !.assignment = None,
                             !.unit = None, !.model = None, !.hudLines = << >>, !.view = None,
                             !.viewer = None, !.drawn = {}, !.fatal = TRUE]
           mid == [bare EXCEPT !.fs = fs, !.hudLines = << >>]
<1>1. FsOK(WithoutEvents(u.fs)) /\ WithoutEvents(u.fs).log = << >> BY WithoutEventsType
<1>2. FsOK(fs) /\ fs.pending = None /\ fs.log = << >> BY <1>1, WithFatalErrorType
<1>3. Fatal(u) = SetFinite(bare, fs) BY DEF Fatal
<1> HIDE DEF fs
<1>4. << >> \in Seq(Nat) OBVIOUS
<1>5. /\ bare \in Window /\ bare.hudLines = << >>
      /\ bare.movement = None /\ bare.placement = None /\ bare.assignment = None
      /\ bare.unit = None /\ bare.model = None /\ bare.view = None
      /\ bare.viewer = None /\ bare.drawn = {} /\ bare.fatal = TRUE
    BY <1>4 DEF Window
<1>6. HudLines(bare.hudLines, fs) = << >> BY <1>2, <1>5 DEF HudLines
<1>7. SetFinite(bare, fs) = SyncEditors(FocusHighlighted(mid)) BY <1>6 DEF SetFinite
<1> HIDE DEF bare
<1>8. /\ mid \in Window /\ mid.hudLines = << >> /\ mid.fs = fs
      /\ mid.movement = None /\ mid.placement = None /\ mid.assignment = None
      /\ mid.unit = None /\ mid.model = None /\ mid.view = None
      /\ mid.viewer = None /\ mid.drawn = {} /\ mid.fatal = TRUE
    BY <1>2, <1>4, <1>5 DEF Window, FsOK
<1> HIDE DEF mid
<1>9. HighlightedOption(mid.fs) = None
    BY <1>2, <1>8 DEF HighlightedOption, FiniteOptions
<1>10. None \notin Unit BY NothingAssumption
<1>11. FocusHighlighted(mid) = mid BY <1>9, <1>10 DEF FocusHighlighted
<1>12. SyncEditors(mid) = mid BY <1>2, <1>8, QuietSync
<1>13. Fatal(u) = mid BY <1>3, <1>7, <1>11, <1>12
<1> QED BY <1>2, <1>8, <1>13 DEF Quiet

LEMMA WithGameViewType ==
    ASSUME NEW u \in Window, NEW view \in Views, NEW fs, FsOK(fs)
    PROVE  /\ WithGameView(u, view, fs) \in Window
           /\ WithGameView(u, view, fs).view = view
           /\ WithGameView(u, view, fs).viewer = view.viewer
           /\ WithGameView(u, view, fs).fatal = u.fatal
           /\ u.view # None =>
                WithGameView(u, view, fs).hudLines =
                    HudLines(IF u.view.viewer = view.viewer THEN u.hudLines ELSE << >>, fs)
<1> DEFINE switched == u.view # None /\ u.view.viewer # view.viewer
           bare == [u EXCEPT !.fs = fs, !.movement = None, !.placement = None, !.assignment = None]
           kept == IF switched THEN Selecting(bare, None, None) ELSE u
           lines == HudLines(IF switched THEN << >> ELSE u.hudLines, fs)
           w == [kept EXCEPT !.view = view, !.viewer = view.viewer, !.hudLines = lines]
<1>1. WithGameView(u, view, fs) = w BY DEF WithGameView
<1>2. << >> \in Seq(Nat) /\ u.hudLines \in Seq(Nat) BY DEF Window
<1>3. lines \in Seq(Nat) BY <1>2, HudLinesType
<1> HIDE DEF lines
<1>4. bare \in Window /\ bare.fatal = u.fatal BY DEF Window, FsOK
<1> HIDE DEF bare
<1>5. kept \in Window /\ kept.fatal = u.fatal BY <1>4, SelectingType DEF SameShell
<1> HIDE DEF kept
<1>6. view.viewer \in Player BY DEF Views
<1>7. /\ w \in Window /\ w.view = view /\ w.viewer = view.viewer /\ w.fatal = kept.fatal
      /\ w.hudLines = lines
    BY ZenonT(60), <1>3, <1>5, <1>6 DEF Window
<1> QED BY <1>1, <1>5, <1>7 DEF lines

-----------------------------------------------------------------------------
(* The window agrees with the engine, and its parts with one another. *)
Consistent(u, e) ==
    /\ u \in Window /\ FsOK(u.fs) /\ EditorsMatch(u)
    /\ u.fatal => Quiet(u)
    /\ ~u.fatal => ShowsEngine(u.fs, u.view, e) /\ u.viewer = u.view.viewer

LEMMA FatalConsistent ==
    ASSUME NEW u \in Window, FsOK(u.fs), NEW e
    PROVE  Consistent(Fatal(u), e) /\ Fatal(u).fatal
BY FatalType DEF Consistent, Quiet, EditorsMatch, MovementBound, PlacementBound, AssignmentBound

(* A refreshed window agrees with the engine it was refreshed from. *)
LEMMA RefreshConsistent ==
    ASSUME NEW w \in Window, ~w.fatal, NEW fs, NEW e, ShowsEngine(fs, w.view, e),
           w.viewer = w.view.viewer, NEW old, w.hudLines = HudLines(old, fs)
    PROVE  /\ Consistent(SetFinite(w, fs), e)
           /\ ~SetFinite(w, fs).fatal /\ SetFinite(w, fs).fs.next = fs.next
           /\ SetFinite(w, fs).fs.log = fs.log /\ SetFinite(w, fs).viewer = w.viewer
           /\ SetFinite(w, fs).hudLines = HudLines(old, fs)
<1> DEFINE s == SetFinite(w, fs)
<1>1. FsOK(fs) BY DEF ShowsEngine
<1>2. /\ s \in Window /\ FsOK(s.fs) /\ Kept(fs, s.fs) /\ EditorsMatch(s)
      /\ s.view = w.view /\ s.viewer = w.viewer /\ s.fatal = w.fatal
      /\ s.hudLines = HudLines(w.hudLines, fs)
    BY <1>1, SetFiniteType
<1> HIDE DEF s
<1>3. ShowsEngine(s.fs, s.view, e) BY <1>2 DEF ShowsEngine, Kept
<1>4. s.hudLines = HudLines(old, fs) BY <1>2 DEF HudLines
<1>5. Consistent(s, e) /\ ~s.fatal /\ s.fs.next = fs.next /\ s.fs.log = fs.log
    BY <1>2, <1>3 DEF Consistent, Kept
<1> QED BY <1>2, <1>4, <1>5 DEF s

(* What a submission that returned has done: the window agrees with the     *)
(* engine, one result id further, and its log is the one for its viewer.    *)
Returned(u, w, e) ==
    /\ Consistent(w, e) /\ ~w.fatal /\ w.fs.next = u.fs.next + 1
    /\ w.fs.log = Retold(u.fs, u.viewer, e, w.viewer)
    /\ w.hudLines = IF w.fs.log # << >> THEN w.fs.log
                    ELSE IF w.viewer = u.viewer THEN u.hudLines ELSE << >>

LEMMA AfterReturned ==
    ASSUME NEW u \in Window, FsOK(u.fs), u.viewer \in Player, ~u.fatal,
           u.view # None, u.viewer = u.view.viewer,
           NEW a, Reports(a.status, a.engine)
    PROVE  \A w \in {AfterMovement(u, a), AfterPlacement(u, a), AfterAssignment(u, a),
                     AfterFinite(u, a)} : Returned(u, w, a.engine)
<1> DEFINE r == Refreshed(Submitting(u.fs), a.status, a.engine, u.viewer)
           v == WithGameView(u, r.view, r.fs)
           old == IF u.view.viewer = r.view.viewer THEN u.hudLines ELSE << >>
<1>1. /\ FsOK(Submitting(u.fs)) /\ Submitting(u.fs).next = u.fs.next + 1
      /\ Submitting(u.fs).log = u.fs.log /\ Submitting(u.fs).cursor = u.fs.cursor
    BY SubmittingType
<1>2. /\ ShowsEngine(r.fs, r.view, a.engine) /\ r.fs.next = u.fs.next + 1
      /\ r.fs.log = Retold(Submitting(u.fs), u.viewer, a.engine, r.view.viewer)
    BY <1>1, RefreshedType
<1> HIDE DEF r
<1>3. r.view \in Views /\ FsOK(r.fs) BY <1>2 DEF ShowsEngine
<1>4. r.fs.log = Retold(u.fs, u.viewer, a.engine, r.view.viewer) BY <1>1, <1>2 DEF Retold
<1>5. /\ v \in Window /\ v.view = r.view /\ v.viewer = r.view.viewer /\ ~v.fatal
      /\ v.hudLines = HudLines(old, r.fs)
    BY <1>3, WithGameViewType
<1> HIDE DEF v
<1>6. ASSUME NEW w \in Window, w.view = v.view, w.viewer = v.viewer, w.fatal = v.fatal,
             w.hudLines = v.hudLines
      PROVE  Returned(u, SetFinite(w, r.fs), a.engine)
    <2> DEFINE s == SetFinite(w, r.fs)
    <2>1. /\ Consistent(s, a.engine) /\ ~s.fatal /\ s.fs.next = r.fs.next
          /\ s.fs.log = r.fs.log /\ s.viewer = w.viewer /\ s.hudLines = HudLines(old, r.fs)
        BY <1>2, <1>5, <1>6, RefreshConsistent
    <2> HIDE DEF s
    <2>2. Returned(u, s, a.engine)
        BY <1>2, <1>4, <1>5, <1>6, <2>1 DEF Returned, HudLines
    <2> QED BY <2>2 DEF s
<1>7. Returned(u, AfterFinite(u, a), a.engine) BY <1>5, <1>6 DEF AfterFinite, r, v
<1>8. Returned(u, AfterPlacement(u, a), a.engine)
    <2> DEFINE w == [v EXCEPT !.placement = None]
    <2>1. /\ w \in Window /\ w.view = v.view /\ w.viewer = v.viewer /\ w.fatal = v.fatal
          /\ w.hudLines = v.hudLines
        BY ZenonT(60), <1>5 DEF Window
    <2>2. AfterPlacement(u, a) = SetFinite(w, r.fs) BY DEF AfterPlacement, r, v
    <2> HIDE DEF w
    <2> QED BY <1>6, <2>1, <2>2
<1>9. Returned(u, AfterAssignment(u, a), a.engine)
    <2> DEFINE w == IF a.submitted = "invalid" THEN v ELSE [v EXCEPT !.assignment = None]
    <2>1. /\ w \in Window /\ w.view = v.view /\ w.viewer = v.viewer /\ w.fatal = v.fatal
          /\ w.hudLines = v.hudLines
        BY <1>5 DEF Window
    <2>2. AfterAssignment(u, a) = SetFinite(w, r.fs) BY DEF AfterAssignment, r, v
    <2> HIDE DEF w
    <2> QED BY <1>6, <2>1, <2>2
<1>10. Returned(u, AfterMovement(u, a), a.engine)
    <2> DEFINE w == IF ~KeepsRejectedMovement(u, a, r) THEN [v EXCEPT !.movement = None]
                    ELSE IF v.movement # None
                         THEN [v EXCEPT !.movement = MovementReadyCleared(v.movement)] ELSE v
    <2>1. v.movement # None => MovementReadyCleared(v.movement) \in MovementDrafts
        BY <1>5, MovementEdits DEF Window, SameMovement
    <2>2. /\ w \in Window /\ w.view = v.view /\ w.viewer = v.viewer /\ w.fatal = v.fatal
          /\ w.hudLines = v.hudLines
        BY <1>5, <2>1 DEF Window
    <2>3. AfterMovement(u, a) = SetFinite(w, r.fs) BY DEF AfterMovement, r, v
    <2> HIDE DEF w
    <2> QED BY <1>6, <2>2, <2>3
<1> QED BY <1>7, <1>8, <1>9, <1>10

-----------------------------------------------------------------------------
(* The inductive invariant.  Consistent is needed because a submission is   *)
(* only known to find a request at the engine, and an actor to show the     *)
(* next one to, if the window was in step before; the bound on the result   *)
(* ids because the counter is rolled back by a fatal error; and where the   *)
(* event log began, because a log that was cut no longer tells.             *)
ResultsBelow == ~ui.fatal => \A i \in DOMAIN sent : sent[i].result < ui.fs.next

(* All of lines happened on the stream s. *)
Told(lines, s) == \A i \in DOMAIN lines : \E k \in DOMAIN s : s[k] = lines[i]

Followed(u, e, start) ==
    ~u.fatal =>
        /\ start <= u.fs.cursor
        /\ u.fs.log = LastOf(SubSeq(e.stream[u.viewer], start + 1, u.fs.cursor), LogCap)
        /\ Told(u.hudLines, e.stream[u.viewer])

IInv ==
    /\ engine \in EngineState
    /\ sent \in Seq(Sends)
    /\ logStart \in Nat
    /\ closed \in BOOLEAN
    /\ Consistent(ui, engine)
    /\ Followed(ui, engine, logStart)
    /\ ResultsBelow
    /\ ResultIdsUnique

-----------------------------------------------------------------------------
(* Logs and streams *)

(* The log of a part of a stream holds only what happened on it. *)
LEMMA LogIsTold ==
    ASSUME NEW s \in Seq(Nat), NEW a \in Nat, NEW c \in Nat, a <= c, c <= Len(s)
    PROVE  Told(LastOf(SubSeq(s, a + 1, c), LogCap), s)
<1> DEFINE part == SubSeq(s, a + 1, c)
           log == LastOf(part, LogCap)
<1>1. \A i \in (a + 1) .. c : s[i] \in Nat BY LenProperties
<1>2. a + 1 \in Int /\ c \in Int OBVIOUS
<1>3. /\ part \in Seq(Nat) /\ Len(part) = IF a + 1 <= c THEN c - (a + 1) + 1 ELSE 0
      /\ \A i \in 1 .. c - (a + 1) + 1 : part[i] = s[a + 1 + i - 1]
    BY <1>1, <1>2, SubSeqProperties
<1>4. Len(part) = c - a BY <1>3
<1> HIDE DEF part
<1>5. /\ log \in Seq(Nat)
      /\ \A i \in 1 .. Len(log) : /\ Len(part) - Len(log) + i \in 1 .. Len(part)
                                  /\ log[i] = part[Len(part) - Len(log) + i]
    BY <1>3, LastOfProperties, LogCapAssumption
<1> HIDE DEF log
<1> SUFFICES ASSUME NEW i \in DOMAIN log PROVE \E k \in DOMAIN s : s[k] = log[i]
    BY DEF Told, log, part
<1> DEFINE j == Len(part) - Len(log) + i
<1>6. i \in 1 .. Len(log) /\ DOMAIN s = 1 .. Len(s) BY <1>5
<1>7. j \in 1 .. Len(part) /\ log[i] = part[j] BY <1>5, <1>6
<1> HIDE DEF j
<1>8. part[j] = s[a + 1 + j - 1] BY <1>3, <1>4, <1>7
<1>9. a + 1 + j - 1 = a + j /\ a + j \in 1 .. Len(s) BY <1>4, <1>7
<1> QED BY <1>6, <1>7, <1>8, <1>9

(* What was told on a stream stays told when it grows. *)
LEMMA StillTold ==
    ASSUME NEW s \in Seq(Nat), NEW t \in Seq(Nat), Len(s) <= Len(t),
           \A i \in 1 .. Len(s) : t[i] = s[i], NEW lines, Told(lines, s)
    PROVE  Told(lines, t)
<1>1. DOMAIN s = 1 .. Len(s) /\ DOMAIN t = 1 .. Len(t) /\ DOMAIN s \subseteq DOMAIN t OBVIOUS
<1> QED BY <1>1 DEF Told

(* A log continued with what came since is the log of the grown stream. *)
LEMMA LogContinues ==
    ASSUME NEW s \in Seq(Nat), NEW t \in Seq(Nat), Len(s) <= Len(t),
           \A i \in 1 .. Len(s) : t[i] = s[i], NEW a \in Nat, a <= Len(s)
    PROVE  LastOf(LastOf(SubSeq(s, a + 1, Len(s)), LogCap) \o SubSeq(t, Len(s) + 1, Len(t)), LogCap)
             = LastOf(SubSeq(t, a + 1, Len(t)), LogCap)
<1> DEFINE old == SubSeq(s, a + 1, Len(s))
           new == SubSeq(t, a + 1, Len(s))
           more == SubSeq(t, Len(s) + 1, Len(t))
<1>1. Len(s) \in Nat /\ Len(t) \in Nat OBVIOUS
<1>2. \A i \in (a + 1) .. Len(s) : s[i] \in Nat /\ t[i] \in Nat /\ t[i] = s[i]
    BY <1>1, LenProperties
<1>3. /\ old \in Seq(Nat) /\ Len(old) = IF a + 1 <= Len(s) THEN Len(s) - (a + 1) + 1 ELSE 0
      /\ \A i \in 1 .. Len(s) - (a + 1) + 1 : old[i] = s[a + 1 + i - 1]
    BY <1>1, <1>2, SubSeqProperties
<1>4. /\ new \in Seq(Nat) /\ Len(new) = IF a + 1 <= Len(s) THEN Len(s) - (a + 1) + 1 ELSE 0
      /\ \A i \in 1 .. Len(s) - (a + 1) + 1 : new[i] = t[a + 1 + i - 1]
    BY <1>1, <1>2, SubSeqProperties
<1>5. \A i \in (Len(s) + 1) .. Len(t) : t[i] \in Nat BY <1>1, LenProperties
<1>6. more \in Seq(Nat) BY <1>1, <1>5, SubSeqProperties
<1>7. /\ a + 1 \in 1 .. Len(t) + 1 /\ Len(s) \in (a + 1) - 1 .. Len(t)
      /\ Len(t) \in Len(s) .. Len(t)
    BY <1>1
<1>8. new \o more = SubSeq(t, a + 1, Len(t)) BY <1>7, ConcatAdjacentSubSeq
<1> HIDE DEF old, new, more
<1>9. ASSUME NEW i \in 1 .. Len(old) PROVE old[i] = new[i]
    <2>1. i \in 1 .. Len(s) - (a + 1) + 1 BY <1>1, <1>3
    <2>2. old[i] = s[a + 1 + i - 1] /\ new[i] = t[a + 1 + i - 1] BY <1>3, <1>4, <2>1
    <2>3. a + 1 + i - 1 \in (a + 1) .. Len(s) BY <1>1, <2>1
    <2> QED BY <1>2, <2>2, <2>3
<1>10. old = new BY <1>3, <1>4, <1>9, SeqEqual
<1>11. LastOf(LastOf(old, LogCap) \o more, LogCap) = LastOf(old \o more, LogCap)
    BY <1>3, <1>6, LastOfConcat, LogCapAssumption
<1> QED BY <1>8, <1>10, <1>11 DEF old, new, more

-----------------------------------------------------------------------------
(* What a handler that does not submit has to show *)

Stays(u, w, e) ==
    /\ Consistent(w, e) /\ w.fs.next = u.fs.next /\ w.fatal = u.fatal
    /\ w.viewer = u.viewer /\ w.fs.cursor = u.fs.cursor /\ w.fs.log = u.fs.log
    /\ w.hudLines \in {u.hudLines, HudLines(u.hudLines, u.fs)}

LEMMA ShellStays ==
    ASSUME NEW u, NEW e, Consistent(u, e), ~u.fatal,
           NEW w \in Window, FsOK(w.fs), Kept(u.fs, w.fs), EditorsMatch(w),
           w.view = u.view, w.viewer = u.viewer, w.fatal = u.fatal,
           w.hudLines \in {u.hudLines, HudLines(u.hudLines, u.fs)}
    PROVE  Stays(u, w, e)
BY DEF Stays, Consistent, ShowsEngine, Kept

(* Setting a state that kept the request *)
LEMMA SetFiniteStays ==
    ASSUME NEW u, NEW e, Consistent(u, e), ~u.fatal,
           NEW w \in Window, w.view = u.view, w.viewer = u.viewer, w.fatal = u.fatal,
           w.hudLines = u.hudLines, NEW fs, FsOK(fs), Kept(u.fs, fs)
    PROVE  Stays(u, SetFinite(w, fs), e)
<1> DEFINE s == SetFinite(w, fs)
<1>1. /\ s \in Window /\ FsOK(s.fs) /\ Kept(fs, s.fs) /\ EditorsMatch(s)
      /\ s.view = w.view /\ s.viewer = w.viewer /\ s.fatal = w.fatal
      /\ s.hudLines = HudLines(w.hudLines, fs)
    BY SetFiniteType
<1> HIDE DEF s
<1>2. /\ Kept(u.fs, s.fs)
      /\ s.hudLines \in {u.hudLines, HudLines(u.hudLines, u.fs)}
    BY <1>1 DEF Kept, HudLines
<1>3. Stays(u, s, e) BY <1>1, <1>2, ShellStays
<1> QED BY <1>3 DEF s

LEMMA RefusedStays ==
    ASSUME NEW u, NEW e, Consistent(u, e), ~u.fatal
    PROVE  Stays(u, Refused(u), e)
<1>1. u \in Window /\ FsOK(u.fs) BY DEF Consistent
<1>2. FsOK(LocalInvalid(u.fs)) /\ Kept(u.fs, LocalInvalid(u.fs)) BY <1>1, LocalInvalidType
<1> QED BY <1>1, <1>2, SetFiniteStays DEF Refused

(* Synchronising after a change of the selection or the focus *)
LEMMA SyncStays ==
    ASSUME NEW u, NEW e, Consistent(u, e), ~u.fatal,
           NEW w \in Window, w.view = u.view, w.viewer = u.viewer, w.fatal = u.fatal,
           w.hudLines = u.hudLines, FsOK(w.fs), Kept(u.fs, w.fs)
    PROVE  Stays(u, SyncEditors(w), e)
<1> DEFINE s == SyncEditors(w)
<1>1. Step(w, s) /\ EditorsMatch(s) BY SyncEditorsType
<1> HIDE DEF s
<1>2. Kept(u.fs, s.fs) BY <1>1 DEF Step, Kept
<1>3. Stays(u, s, e) BY <1>1, <1>2, ShellStays DEF Step, SameShell
<1> QED BY <1>3 DEF s

(* The proposal of the pending request admits one editor. *)
LEMMA OneEditor ==
    ASSUME NEW u \in Window, EditorsMatch(u)
    PROVE  /\ u.placement # None => u.movement = None /\ u.assignment = None
           /\ u.assignment # None => u.movement = None /\ u.placement = None
           /\ u.movement # None => u.placement = None /\ u.assignment = None
<1>1. u.movement # None => u.fs.pending.form.proposal = "movement"
    BY DEF EditorsMatch, MovementBound, IsForMovement, MatchesMovement
<1>2. u.placement # None => u.fs.pending.form.proposal = "placement"
    BY DEF EditorsMatch, PlacementBound, MatchesPlacement
<1>3. u.assignment # None => u.fs.pending.form.proposal \in {"shooting", "melee", "stratagem"}
    <2>1. u.assignment # None => u.assignment \in Workspaces BY DEF Window
    <2> QED BY <2>1 DEF EditorsMatch, AssignmentBound, IsForAssignment, Workspaces
<1> QED BY <1>1, <1>2, <1>3

(* An edited movement draft, with any model of its unit selected *)
LEMMA MovementEditStays ==
    ASSUME NEW u, NEW e, Consistent(u, e), ~u.fatal, u.movement # None,
           NEW draft, SameMovement(u.movement, draft)
    PROVE  /\ Stays(u, [u EXCEPT !.movement = draft], e)
           /\ \A m \in Model : Stays(u, Selecting([u EXCEPT !.movement = draft], draft.unit, m), e)
<1> DEFINE mid == [u EXCEPT !.movement = draft]
<1>1. u \in Window /\ FsOK(u.fs) /\ EditorsMatch(u) BY DEF Consistent
<1>2. draft \in MovementDrafts BY DEF SameMovement
<1>3. draft.unit \in Unit BY <1>2 DEF MovementDrafts
<1>4. /\ mid \in Window /\ SameShell(u, mid) /\ mid.fs = u.fs /\ mid.unit = u.unit
      /\ mid.movement = draft /\ mid.placement = u.placement /\ mid.assignment = u.assignment
    BY <1>1, <1>2 DEF Window, SameShell
<1> HIDE DEF mid
<1>5. IsForMovement(draft, u.unit, u.fs.pending, ProjectionHash(u)) /\ u.unit = draft.unit
    BY <1>1 DEF EditorsMatch, MovementBound, IsForMovement, MatchesMovement, SameMovement
<1>6. ASSUME NEW w \in Window, SameShell(mid, w), w.fs = mid.fs, w.unit = draft.unit,
             w.movement = mid.movement, w.placement = mid.placement,
             w.assignment = mid.assignment
      PROVE  Stays(u, w, e)
    <2>1. SameShell(u, w) BY <1>4, <1>6 DEF SameShell
    <2>2. ProjectionHash(w) = ProjectionHash(u) BY <2>1, SameHash
    <2>3. EditorsMatch(w)
        BY <1>1, <1>4, <1>5, <1>6, <2>2
        DEF EditorsMatch, MovementBound, PlacementBound, AssignmentBound
    <2>4. FsOK(w.fs) /\ Kept(u.fs, w.fs) BY <1>1, <1>4, <1>6 DEF Kept
    <2> QED BY <2>1, <2>3, <2>4, ShellStays DEF SameShell
<1>7. Stays(u, mid, e) BY <1>4, <1>5, <1>6 DEF SameShell
<1>8. ASSUME NEW m \in Model PROVE Stays(u, Selecting(mid, draft.unit, m), e)
    BY <1>3, <1>4, <1>6, SelectingType
<1> QED BY <1>7, <1>8 DEF mid

(* An edited placement draft *)
LEMMA PlacementEditStays ==
    ASSUME NEW u, NEW e, Consistent(u, e), ~u.fatal, u.placement # None,
           NEW draft, SamePlacement(u.placement, draft)
    PROVE  /\ Stays(u, [u EXCEPT !.placement = draft], e)
           /\ Stays(u, Selecting([u EXCEPT !.placement = draft], draft.unit, draft.cur), e)
<1> DEFINE mid == [u EXCEPT !.placement = draft]
<1>1. u \in Window /\ FsOK(u.fs) /\ EditorsMatch(u) BY DEF Consistent
<1>2. u.movement = None /\ u.assignment = None BY <1>1, OneEditor
<1>3. draft \in PlacementDrafts BY DEF SamePlacement
<1>4. draft.unit \in Unit /\ draft.cur \in Model BY <1>3 DEF PlacementDrafts
<1>5. /\ mid \in Window /\ SameShell(u, mid) /\ mid.fs = u.fs
      /\ mid.movement = None /\ mid.placement = draft /\ mid.assignment = None
    BY <1>1, <1>2, <1>3 DEF Window, SameShell
<1> HIDE DEF mid
<1>6. MatchesPlacement(draft, u.fs.pending, ProjectionHash(u))
    BY <1>1 DEF EditorsMatch, PlacementBound, MatchesPlacement, SamePlacement
<1>7. ASSUME NEW w \in Window, SameShell(mid, w), w.fs = mid.fs,
             w.movement = None, w.placement = draft, w.assignment = None
      PROVE  Stays(u, w, e)
    <2>1. SameShell(u, w) BY <1>5, <1>7 DEF SameShell
    <2>2. ProjectionHash(w) = ProjectionHash(u) BY <2>1, SameHash
    <2>3. EditorsMatch(w)
        BY <1>5, <1>6, <1>7, <2>2
        DEF EditorsMatch, MovementBound, PlacementBound, AssignmentBound
    <2>4. FsOK(w.fs) /\ Kept(u.fs, w.fs) BY <1>1, <1>5, <1>7 DEF Kept
    <2> QED BY <2>1, <2>3, <2>4, ShellStays DEF SameShell
<1>8. Stays(u, mid, e) BY <1>5, <1>7 DEF SameShell
<1>9. Stays(u, Selecting(mid, draft.unit, draft.cur), e)
    BY <1>4, <1>5, <1>7, SelectingType
<1> QED BY <1>8, <1>9 DEF mid

(* Closing editors, or choosing in the workspace, changes nothing else. *)
LEMMA EditorStays ==
    ASSUME NEW u, NEW e, Consistent(u, e), ~u.fatal,
           NEW w \in Window, SameShell(u, w), w.fs = u.fs,
           w.movement # None => w.movement = u.movement /\ w.unit = u.unit,
           w.placement \in {u.placement, None},
           w.assignment # None => IsForAssignment(w.assignment, u.fs.pending)
    PROVE  Stays(u, w, e)
<1>1. u \in Window /\ FsOK(u.fs) /\ EditorsMatch(u) BY DEF Consistent
<1>2. ProjectionHash(w) = ProjectionHash(u) BY SameHash
<1>3. MovementBound(w) BY <1>1, <1>2 DEF EditorsMatch, MovementBound
<1>4. PlacementBound(w) BY <1>1, <1>2 DEF EditorsMatch, PlacementBound
<1>5. AssignmentBound(w) BY DEF AssignmentBound
<1> QED BY <1>1, <1>3, <1>4, <1>5, ShellStays DEF EditorsMatch, SameShell, Kept

-----------------------------------------------------------------------------
(* One form of step each for handlers that do not and that do submit       *)

LEMMA LocallyInv ==
    ASSUME IInv, NEW STATE w, Stays(ui, w, engine), Locally(w)
    PROVE  IInv'
<1>1. ui' = w /\ UNCHANGED <<engine, sent, closed>> BY DEF Locally
<1>2. logStart' \in Nat BY DEF IInv, Locally, LogStartAfter
<1>3. Consistent(ui', engine') /\ ui'.fs.next = ui.fs.next /\ ui'.fatal = ui.fatal
    BY <1>1 DEF Stays
<1>4. ResultsBelow' BY <1>1, <1>3 DEF IInv, ResultsBelow
<1>5. ResultIdsUnique' BY <1>1 DEF IInv, ResultIdsUnique
<1>6. Followed(ui, engine, logStart) /\ logStart' = logStart /\ engine' = engine
    BY <1>1 DEF IInv, Locally, LogStartAfter, Stays
<1>7. ASSUME ~ui.fatal PROVE Told(w.hudLines, engine.stream[ui.viewer])
    <2>1. ui.viewer \in Player /\ ui.fs.cursor = Len(engine.stream[ui.viewer])
        BY <1>7 DEF IInv, Consistent, ShowsEngine, Views
    <2>2. engine.stream[ui.viewer] \in Seq(Nat) BY <2>1 DEF IInv, EngineState
    <2>3. Told(ui.fs.log, engine.stream[ui.viewer])
        BY <1>6, <1>7, <2>1, <2>2, LogIsTold DEF Followed, IInv
    <2>4. Told(ui.hudLines, engine.stream[ui.viewer]) BY <1>6, <1>7 DEF Followed
    <2>5. w.hudLines \in {ui.hudLines, ui.fs.log} BY DEF Stays, HudLines
    <2> QED BY <2>3, <2>4, <2>5
<1>8. Followed(w, engine, logStart) BY <1>6, <1>7 DEF Followed, Stays
<1> QED BY <1>1, <1>2, <1>3, <1>4, <1>5, <1>6, <1>8 DEF IInv

(* A submission that returns uses up its id and shows what was told since;  *)
(* one that fails is the last.                                              *)
SentWell(u, e, o) ==
    /\ o.engine \in EngineState
    /\ Consistent(o.ui, o.engine)
    /\ o.ui.fatal \/ (Returned(u, o.ui, o.engine) /\ Extends(e, o.engine))

LEMMA SentFollowed ==
    ASSUME IInv, ~ui.fatal, NEW n \in EngineState, Extends(engine, n),
           NEW w, Returned(ui, w, n)
    PROVE  Followed(w, n, LogStartAfter(w, logStart))
<1> DEFINE s == engine.stream[ui.viewer]
           t == n.stream[w.viewer]
           log == w.fs.log
           start == LogStartAfter(w, logStart)
<1>1. ui.viewer \in Player /\ ui.fs.cursor = Len(s)
    BY DEF IInv, Consistent, ShowsEngine, Views
<1>2. ~w.fatal /\ w.viewer \in Player /\ w.fs.cursor = Len(t)
    BY DEF Returned, Consistent, ShowsEngine, Views
<1>3. s \in Seq(Nat) /\ t \in Seq(Nat) BY <1>1, <1>2 DEF IInv, EngineState
<1>4. /\ logStart \in Nat /\ logStart <= Len(s)
      /\ ui.fs.log = LastOf(SubSeq(s, logStart + 1, Len(s)), LogCap)
      /\ Told(ui.hudLines, s)
    BY <1>1 DEF IInv, Followed
<1>5. log = Retold(ui.fs, ui.viewer, n, w.viewer) BY DEF Returned
<1>6. w.hudLines = IF log # << >> THEN log
                   ELSE IF w.viewer = ui.viewer THEN ui.hudLines ELSE << >>
    BY DEF Returned
<1>7. w.viewer = ui.viewer =>
        /\ Len(s) <= Len(t) /\ \A i \in 1 .. Len(s) : t[i] = s[i]
    BY <1>1 DEF Extends
<1>8. start = IF w.viewer = ui.viewer THEN logStart ELSE 0 BY DEF LogStartAfter
<1>9. /\ start \in Nat /\ start <= Len(t)
      /\ log = LastOf(SubSeq(t, start + 1, Len(t)), LogCap)
    <2>1. CASE w.viewer = ui.viewer
        <3>1. log = LastOf(ui.fs.log \o SubSeq(t, Len(s) + 1, Len(t)), LogCap)
            BY <1>1, <1>5, <2>1 DEF Retold, EventsSince
        <3> HIDE DEF s, t, log, start
        <3>2. log = LastOf(SubSeq(t, logStart + 1, Len(t)), LogCap)
            BY <1>3, <1>4, <1>7, <2>1, <3>1, LogContinues
        <3>3. Len(s) \in Nat /\ Len(t) \in Nat BY <1>3
        <3> QED BY <1>4, <1>7, <1>8, <2>1, <3>2, <3>3
    <2>2. CASE w.viewer # ui.viewer
        <3>1. log = LastOf(<< >> \o SubSeq(t, 0 + 1, Len(t)), LogCap)
            BY <1>5, <2>2 DEF Retold, EventsSince
        <3> HIDE DEF s, t, log, start
        <3>2. \A i \in 1 .. Len(t) : t[i] \in Nat BY <1>3, LenProperties
        <3>3. 1 \in Int /\ Len(t) \in Nat /\ 0 + 1 = 1 BY <1>3
        <3>4. SubSeq(t, 1, Len(t)) \in Seq(Nat) BY <3>2, <3>3, SubSeqProperties
        <3>5. << >> \o SubSeq(t, 1, Len(t)) = SubSeq(t, 1, Len(t)) BY <3>4, ConcatEmptySeq
        <3> QED BY <1>8, <2>2, <3>1, <3>3, <3>5
    <2> QED BY <2>1, <2>2
<1> HIDE DEF s, t, log, start
<1>10. Len(t) \in Nat BY <1>3
<1>11. Told(log, t) BY <1>3, <1>9, <1>10, LogIsTold
<1>12. w.viewer = ui.viewer => Told(ui.hudLines, t) BY <1>3, <1>4, <1>7, StillTold
<1>13. Told(<< >>, t) BY DEF Told
<1>14. Told(w.hudLines, t) BY <1>6, <1>11, <1>12, <1>13
<1> QED BY <1>2, <1>9, <1>14 DEF Followed, t, log, start

LEMMA SentInv ==
    ASSUME IInv, ~ui.fatal, NEW STATE record, record \in Sends, record.result = ui.fs.next,
           NEW STATE outcomes, \A o \in outcomes : SentWell(ui, engine, o), Sent(record, outcomes)
    PROVE  IInv'
<1>1. PICK o \in outcomes : ui' = o.ui /\ engine' = o.engine
                            /\ logStart' = LogStartAfter(o.ui, logStart)
    BY DEF Sent
<1>2. engine' \in EngineState /\ Consistent(ui', engine')
      /\ (ui'.fatal \/ ui'.fs.next = ui.fs.next + 1)
    BY <1>1 DEF SentWell, Returned
<1>3. sent' = Append(sent, record) /\ closed' = closed BY DEF Sent
<1>4. sent \in Seq(Sends) /\ closed \in BOOLEAN BY DEF IInv
<1>5. /\ sent' \in Seq(Sends) /\ Len(sent') = Len(sent) + 1
      /\ \A i \in 1 .. Len(sent) : sent'[i] = sent[i]
      /\ sent'[Len(sent) + 1] = record
    BY <1>3, <1>4, AppendProperties
<1>6. logStart' \in Nat BY <1>1 DEF IInv, LogStartAfter
<1>7. ui.fs.next \in Nat BY DEF IInv, Consistent, FsOK, FiniteState
<1>8. \A i \in DOMAIN sent : sent[i].result < ui.fs.next BY DEF IInv, ResultsBelow
<1>9. ASSUME NEW i \in DOMAIN sent PROVE sent[i].result \in Nat
    <2>1. sent[i] \in Sends BY <1>4
    <2> QED BY <2>1 DEF Sends
<1>10. DOMAIN sent = 1 .. Len(sent) /\ DOMAIN sent' = 1 .. (Len(sent) + 1) /\ Len(sent) \in Nat
    BY <1>4, <1>5
<1>11. \A i \in DOMAIN sent' : sent'[i].result <= ui.fs.next
    BY <1>5, <1>7, <1>8, <1>9, <1>10
<1>12. ResultsBelow'
    BY <1>2, <1>5, <1>7, <1>9, <1>10, <1>11 DEF ResultsBelow
<1>13. ResultIdsUnique'
    <2>1. ResultIdsUnique BY DEF IInv
    <2> SUFFICES ASSUME NEW i \in DOMAIN sent', NEW j \in DOMAIN sent',
                        sent'[i].result = sent'[j].result
                 PROVE  i = j
        BY DEF ResultIdsUnique
    <2>2. CASE i \in DOMAIN sent /\ j \in DOMAIN sent
        BY <1>5, <1>10, <2>1, <2>2 DEF ResultIdsUnique
    <2>3. CASE i \notin DOMAIN sent /\ j \notin DOMAIN sent
        BY <1>10, <2>3
    <2>4. CASE i \in DOMAIN sent /\ j \notin DOMAIN sent
        BY <1>5, <1>7, <1>8, <1>9, <1>10, <2>4
    <2>5. CASE i \notin DOMAIN sent /\ j \in DOMAIN sent
        BY <1>5, <1>7, <1>8, <1>9, <1>10, <2>5
    <2> QED BY <2>2, <2>3, <2>4, <2>5
<1>14. Followed(ui', engine', logStart')
    <2>1. CASE o.ui.fatal BY <1>1, <2>1 DEF Followed
    <2>2. CASE ~o.ui.fatal
        <3>1. o.engine \in EngineState /\ Returned(ui, o.ui, o.engine) /\ Extends(engine, o.engine)
            BY <2>2 DEF SentWell
        <3>2. Followed(o.ui, o.engine, LogStartAfter(o.ui, logStart)) BY <3>1, SentFollowed
        <3> QED BY <1>1, <3>2
    <2> QED BY <2>1, <2>2
<1> QED BY <1>2, <1>3, <1>4, <1>5, <1>6, <1>12, <1>13, <1>14 DEF IInv

(* All ways a submission may end are well. *)
LEMMA OutcomesWell ==
    ASSUME NEW u, NEW e \in EngineState, Consistent(u, e), ~u.fatal, u.fs.pending # None
    PROVE  \A o \in MovementOutcomes(u, e) \cup PlacementOutcomes(u, e)
                    \cup AssignmentOutcomes(u, e) \cup FiniteOutcomes(u, e) : SentWell(u, e, o)
<1>1. /\ u \in Window /\ FsOK(u.fs) /\ u.viewer \in Player /\ e.req # None
      /\ u.view # None /\ u.viewer = u.view.viewer
    BY NoViewAssumption DEF Consistent, ShowsEngine, Views
<1>2. ASSUME NEW o, NEW n \in EngineState, o = [ui |-> Fatal(u), engine |-> n]
      PROVE  SentWell(u, e, o)
    BY <1>1, <1>2, FatalConsistent DEF SentWell
<1>3. \A a \in DirectAnswers(e) \cup ContinuedAnswers(e) : Reports(a.status, a.engine)
    BY <1>1, AnswersReport
<1>4. \A a \in DirectAnswers(e) \cup ContinuedAnswers(e) : a.engine \in EngineState
    BY <1>3 DEF Reports
<1>5. \A n \in Applied(e) : n \in EngineState BY AppliedType
<1>6. ASSUME NEW o \in Failures(u, e, DirectAnswers(e)) \cup Failures(u, e, ContinuedAnswers(e))
      PROVE  SentWell(u, e, o)
    <2>1. \E n \in EngineState : o = [ui |-> Fatal(u), engine |-> n]
        BY <1>4, <1>5 DEF Failures
    <2> QED BY <1>2, <2>1
<1>7. ASSUME NEW a \in DirectAnswers(e) \cup ContinuedAnswers(e),
             NEW w \in {AfterMovement(u, a), AfterPlacement(u, a), AfterAssignment(u, a),
                        AfterFinite(u, a)}
      PROVE  SentWell(u, e, [ui |-> w, engine |-> a.engine])
    <2>1. Returned(u, w, a.engine) BY <1>1, <1>3, AfterReturned
    <2>2. Extends(e, a.engine) BY <1>1, AnswersExtend
    <2> QED BY <1>4, <2>1, <2>2 DEF SentWell, Returned
<1>8. ASSUME NEW o \in MovementOutcomes(u, e) PROVE SentWell(u, e, o)
    BY <1>6, <1>7 DEF MovementOutcomes
<1>9. ASSUME NEW o \in PlacementOutcomes(u, e) PROVE SentWell(u, e, o)
    BY <1>6, <1>7 DEF PlacementOutcomes
<1>10. ASSUME NEW o \in AssignmentOutcomes(u, e) PROVE SentWell(u, e, o)
    BY <1>6, <1>7 DEF AssignmentOutcomes
<1>11. ASSUME NEW o \in FiniteOutcomes(u, e) PROVE SentWell(u, e, o)
    BY <1>6, <1>7 DEF FiniteOutcomes
<1> QED BY <1>8, <1>9, <1>10, <1>11

LEMMA SendRecordType ==
    ASSUME IInv, ui.fs.pending # None, NEW STATE for, for \in Nat, NEW STATE at, at \in Nat,
           NEW STATE choice, choice \in OptionId \cup {None}
    PROVE  SendRecord(for, at, choice) \in Sends /\ SendRecord(for, at, choice).result = ui.fs.next
<1>1. ui \in Window /\ ui.fs \in FiniteState BY DEF IInv, Consistent, FsOK
<1>2. ui.fs.next \in Nat /\ ui.viewer \in Player \cup {None} /\ ui.fs.pending \in VisibleDecision
    BY <1>1 DEF Window, FiniteState
<1>3. ui.fs.pending.id \in Nat BY <1>2, PendingType
<1> QED BY <1>2, <1>3 DEF SendRecord, Sends

LEMMA RefuseInv ==
    ASSUME IInv, ~ui.fatal, Locally(Refused(ui))
    PROVE  IInv'
<1>1. Stays(ui, Refused(ui), engine) BY RefusedStays DEF IInv
<1> QED BY <1>1, LocallyInv

LEMMA SubmitMovementInv ==
    ASSUME IInv, ~ui.fatal, SubmitMovement
    PROVE  IInv'
<1>1. CASE MovementSendable(ui)
    <2>1. ui.movement # None /\ ui.fs.pending # None BY <1>1 DEF MovementSendable
    <2>2. ui.movement.req \in Nat /\ ui.movement.rev \in Nat
        BY <2>1 DEF IInv, Consistent, Window, MovementDrafts
    <2>3. SendRecord(ui.movement.req, ui.movement.rev, None) \in Sends
          /\ SendRecord(ui.movement.req, ui.movement.rev, None).result = ui.fs.next
        BY <2>1, <2>2, SendRecordType
    <2>4. \A o \in MovementOutcomes(ui, engine) : SentWell(ui, engine, o)
        BY <2>1, OutcomesWell DEF IInv
    <2>5. Sent(SendRecord(ui.movement.req, ui.movement.rev, None), MovementOutcomes(ui, engine))
        BY <1>1 DEF SubmitMovement
    <2> QED BY <2>3, <2>4, <2>5, SentInv
<1>2. CASE ~MovementSendable(ui)
    BY <1>2, RefuseInv DEF SubmitMovement
<1> QED BY <1>1, <1>2

LEMMA SubmitPlacementInv ==
    ASSUME IInv, ~ui.fatal, SubmitPlacement
    PROVE  IInv'
<1>1. CASE PlacementSendable(ui)
    <2>1. ui.placement # None /\ ui.fs.pending # None BY <1>1 DEF PlacementSendable
    <2>2. ui.placement.req \in Nat /\ ui.placement.rev \in Nat
        BY <2>1 DEF IInv, Consistent, Window, PlacementDrafts
    <2>3. SendRecord(ui.placement.req, ui.placement.rev, None) \in Sends
          /\ SendRecord(ui.placement.req, ui.placement.rev, None).result = ui.fs.next
        BY <2>1, <2>2, SendRecordType
    <2>4. \A o \in PlacementOutcomes(ui, engine) : SentWell(ui, engine, o)
        BY <2>1, OutcomesWell DEF IInv
    <2>5. Sent(SendRecord(ui.placement.req, ui.placement.rev, None), PlacementOutcomes(ui, engine))
        BY <1>1 DEF SubmitPlacement
    <2> QED BY <2>3, <2>4, <2>5, SentInv
<1>2. CASE ~PlacementSendable(ui)
    BY <1>2, RefuseInv DEF SubmitPlacement
<1> QED BY <1>1, <1>2

LEMMA SubmitAssignmentInv ==
    ASSUME IInv, ~ui.fatal, NEW decline \in BOOLEAN, SubmitAssignment(decline)
    PROVE  IInv'
<1>1. CASE AssignmentSendable(ui, decline)
    <2>1. ui.assignment # None /\ ui.fs.pending # None BY <1>1 DEF AssignmentSendable
    <2>2. ui.assignment.req \in Nat
        BY <2>1 DEF IInv, Consistent, Window, Workspaces
    <2>3. SendRecord(ui.assignment.req, 0, None) \in Sends
          /\ SendRecord(ui.assignment.req, 0, None).result = ui.fs.next
        BY <2>1, <2>2, SendRecordType
    <2>4. \A o \in AssignmentOutcomes(ui, engine) : SentWell(ui, engine, o)
        BY <2>1, OutcomesWell DEF IInv
    <2>5. Sent(SendRecord(ui.assignment.req, 0, None), AssignmentOutcomes(ui, engine))
        BY <1>1 DEF SubmitAssignment
    <2> QED BY <2>3, <2>4, <2>5, SentInv
<1>2. CASE ~AssignmentSendable(ui, decline)
    BY <1>2, RefuseInv DEF SubmitAssignment
<1> QED BY <1>1, <1>2

LEMMA SubmitFiniteInv ==
    ASSUME IInv, ~ui.fatal, NEW choice \in OptionId \cup {None}, SubmitFinite(choice)
    PROVE  IInv'
<1>1. CASE ChosenOption(ui.fs, choice) # None
    <2>1. FsOK(ui.fs) BY DEF IInv, Consistent
    <2>2. ChosenOption(ui.fs, choice) \in OptionId /\ ui.fs.pending # None
        BY <1>1, <2>1, ChosenType
    <2>3. ui.fs.pending.id \in Nat BY <2>1, <2>2, PendingType DEF FsOK, FiniteState
    <2>4. SendRecord(ui.fs.pending.id, 0, ChosenOption(ui.fs, choice)) \in Sends
          /\ SendRecord(ui.fs.pending.id, 0, ChosenOption(ui.fs, choice)).result = ui.fs.next
        BY <2>2, <2>3, SendRecordType
    <2>5. \A o \in FiniteOutcomes(ui, engine) : SentWell(ui, engine, o)
        BY <2>2, OutcomesWell DEF IInv
    <2>6. Sent(SendRecord(ui.fs.pending.id, 0, ChosenOption(ui.fs, choice)),
               FiniteOutcomes(ui, engine))
        BY <1>1 DEF SubmitFinite
    <2> QED BY <2>4, <2>5, <2>6, SentInv
<1>2. CASE ~(ChosenOption(ui.fs, choice) # None)
    BY <1>2, RefuseInv DEF SubmitFinite
<1> QED BY <1>1, <1>2

-----------------------------------------------------------------------------
(* A failed window: every action leaves it and the engine alone.           *)
LEMMA FatalStutters ==
    ASSUME IInv, ui.fatal, Next
    PROVE  UNCHANGED <<ui, engine, sent>> /\ logStart' = logStart /\ closed' \in BOOLEAN
<1>1. /\ ui \in Window /\ ui.fs.pending = None /\ ui.drawn = {}
      /\ ui.movement = None /\ ui.placement = None /\ ui.assignment = None
      /\ ui.unit = None /\ ui.model = None
    BY DEF IInv, Consistent, Quiet
<1>2. FiniteOptions(ui.fs) = << >> BY <1>1 DEF FiniteOptions
<1>3. \A o : ~Offers(ui.fs, o) BY <1>2 DEF Offers
<1>4. \A kind : Pressed(kind) = {} BY <1>1 DEF Pressed
<1>5. closed \in BOOLEAN BY DEF IInv
<1>6. ASSUME Locally(ui) PROVE UNCHANGED <<ui, engine, sent>> /\ logStart' = logStart /\ closed' \in BOOLEAN
    BY <1>5, <1>6 DEF Locally, LogStartAfter
<1>7. CASE CycleSelection BY <1>7 DEF CycleSelection, KeysListen
<1>8. CASE \E models \in SUBSET Model : SelectMovers(models) BY <1>8 DEF SelectMovers, KeysListen
<1>9. CASE Confirm BY <1>9 DEF Confirm, KeysListen
<1>10. CASE Cancel BY <1>10 DEF Cancel, KeysListen
<1>11. CASE MoveCursor BY <1>1, <1>11 DEF MoveCursor
<1>12. CASE \E m \in Model : ClickMover(m) BY <1>1, <1>12 DEF ClickMover
<1>13. CASE AddWaypoint BY <1>1, <1>13 DEF AddWaypoint
<1>14. CASE RemoveWaypoint BY <1>1, <1>14 DEF RemoveWaypoint
<1>15. CASE \E spot \in Spot \ {0} : PlaceModel(spot) BY <1>1, <1>15 DEF PlaceModel
<1>16. CASE \E u \in Unit, m \in Model : SelectAt(u, m)
    BY <1>16, NothingAssumption DEF SelectAt
<1>17. CASE SelectAt(None, None)
    <2>1. Selecting(ui, None, None) = ui BY <1>1 DEF Selecting, Window
    <2>2. WithHighlightForUnit(ui.fs, None) = ui.fs BY DEF WithHighlightForUnit
    <2>3. [ui EXCEPT !.fs = ui.fs] = ui BY <1>1 DEF Window
    <2>4. SyncEditors(ui) = ui BY <1>1, QuietSync
    <2>5. Locally(ui) BY <1>17, <2>1, <2>2, <2>3, <2>4 DEF SelectAt
    <2> QED BY <1>6, <2>5
<1>18. CASE \E o \in OptionId : ContextMenu(o) BY <1>3, <1>18 DEF ContextMenu
<1>19. CASE PressFiniteOption BY <1>4, <1>19 DEF PressFiniteOption
<1>20. CASE PressSelectUnit BY <1>4, <1>20 DEF PressSelectUnit
<1>21. CASE PressPlacementSubmit BY <1>1, <1>21 DEF PressPlacementSubmit
<1>22. CASE PressPlacementNext BY <1>1, <1>22 DEF PressPlacementNext
<1>23. CASE PressPlacementClear BY <1>4, <1>23 DEF PressPlacementClear
<1>24. CASE PressAssignmentSubmit BY <1>4, <1>24 DEF PressAssignmentSubmit
<1>25. CASE PressAssignmentDecline BY <1>4, <1>25 DEF PressAssignmentDecline
<1>26. CASE PressAssignmentClear BY <1>4, <1>26 DEF PressAssignmentClear
<1>27. CASE PressAssignmentSelect BY <1>4, <1>27 DEF PressAssignmentSelect
<1>28. CASE Draw
    <2>1. FiniteButtons(ui) = {} BY <1>2 DEF FiniteButtons
    <2>2. RosterButtons(ui) = {} BY DEF RosterButtons
    <2>3. ActionButtons(ui) = {} BY <1>1, <2>1 DEF ActionButtons
    <2>4. ActionButtons(ui) \cup RosterButtons(ui) = {} BY <2>2, <2>3
    <2>5. [ui EXCEPT !.drawn = {}] = ui BY <1>1 DEF Window
    <2>6. Locally(ui) BY <1>28, <2>4, <2>5 DEF Draw
    <2> QED BY <1>6, <2>6
<1>29. CASE Close BY <1>29 DEF Close
<1> QED BY <1>7, <1>8, <1>9, <1>10, <1>11, <1>12, <1>13, <1>14, <1>15, <1>16, <1>17, <1>18,
           <1>19, <1>20, <1>21, <1>22, <1>23, <1>24, <1>25, <1>26, <1>27, <1>28, <1>29 DEF Next

-----------------------------------------------------------------------------
(* The actions of a window that has not failed *)

LEMMA Parts ==
    ASSUME IInv
    PROVE  /\ Consistent(ui, engine) /\ ui \in Window /\ FsOK(ui.fs) /\ EditorsMatch(ui)
           /\ (ui.movement # None => ui.movement \in MovementDrafts)
           /\ (ui.placement # None => ui.placement \in PlacementDrafts)
           /\ (ui.assignment # None => ui.assignment \in Workspaces)
BY DEF IInv, Consistent, Window

LEMMA MovementEditInv ==
    ASSUME IInv, ~ui.fatal, ui.movement # None,
           NEW STATE draft, SameMovement(ui.movement, draft),
           \/ Locally([ui EXCEPT !.movement = draft])
           \/ \E m \in Model : Locally(Selecting([ui EXCEPT !.movement = draft], draft.unit, m))
    PROVE  IInv'
<1>1. /\ Stays(ui, [ui EXCEPT !.movement = draft], engine)
      /\ \A m \in Model :
            Stays(ui, Selecting([ui EXCEPT !.movement = draft], draft.unit, m), engine)
    BY Parts, MovementEditStays
<1> QED BY <1>1, LocallyInv

LEMMA PlacementEditInv ==
    ASSUME IInv, ~ui.fatal, ui.placement # None,
           NEW STATE draft, SamePlacement(ui.placement, draft),
           \/ Locally([ui EXCEPT !.placement = draft])
           \/ Locally(Selecting([ui EXCEPT !.placement = draft], draft.unit, draft.cur))
    PROVE  IInv'
<1>1. /\ Stays(ui, [ui EXCEPT !.placement = draft], engine)
      /\ Stays(ui, Selecting([ui EXCEPT !.placement = draft], draft.unit, draft.cur), engine)
    BY Parts, PlacementEditStays
<1> QED BY <1>1, LocallyInv

LEMMA CycleSelectionInv ==
    ASSUME IInv, ~ui.fatal, CycleSelection
    PROVE  IInv'
<1>1. CASE Locally(SetFinite(ui, CycledOption(ui.fs)))
    <2>1. FsOK(CycledOption(ui.fs)) /\ Kept(ui.fs, CycledOption(ui.fs)) BY Parts, CycledType
    <2>2. Stays(ui, SetFinite(ui, CycledOption(ui.fs)), engine) BY Parts, <2>1, SetFiniteStays
    <2> QED BY <1>1, <2>2, LocallyInv
<1>2. CASE /\ ui.movement # None
           /\ Locally([ui EXCEPT !.movement = WithSelection(ui.movement, ui.movement.active)])
    <2>1. ui.movement.active \in SUBSET Model BY Parts, <1>2 DEF MovementDrafts
    <2>2. SameMovement(ui.movement, WithSelection(ui.movement, ui.movement.active))
        BY Parts, <1>2, <2>1, MovementEdits
    <2> QED BY <1>2, <2>2, MovementEditInv
<1>3. CASE /\ ui.placement # None
           /\ Locally(Selecting([ui EXCEPT !.placement = WithNextModel(ui.placement)],
                                WithNextModel(ui.placement).unit, WithNextModel(ui.placement).cur))
    <2>1. SamePlacement(ui.placement, WithNextModel(ui.placement)) BY Parts, <1>3, PlacementEdits
    <2> QED BY <1>3, <2>1, PlacementEditInv
<1>4. CASE NoDraft /\ \E u \in Unit, m \in Model : Locally(Selecting(ui, u, m))
    <2>1. PICK u \in Unit, m \in Model : Locally(Selecting(ui, u, m)) BY <1>4
    <2> DEFINE w == Selecting(ui, u, m)
    <2>2. /\ w \in Window /\ SameShell(ui, w) /\ w.fs = ui.fs /\ w.movement = None
          /\ w.placement = None /\ w.assignment = ui.assignment
        BY Parts, <1>4, SelectingType DEF NoDraft
    <2> HIDE DEF w
    <2>3. Stays(ui, w, engine)
        BY Parts, <2>2, EditorStays DEF EditorsMatch, AssignmentBound
    <2>4. Locally(w) BY <2>1 DEF w
    <2> QED BY <2>3, <2>4, LocallyInv
<1> QED BY <1>1, <1>2, <1>3, <1>4 DEF CycleSelection

LEMMA SelectMoversInv ==
    ASSUME IInv, ~ui.fatal, NEW models \in SUBSET Model, SelectMovers(models)
    PROVE  IInv'
<1>1. ui.movement # None /\ Locally([ui EXCEPT !.movement = WithSelection(ui.movement, models)])
    BY DEF SelectMovers
<1>2. SameMovement(ui.movement, WithSelection(ui.movement, models)) BY Parts, <1>1, MovementEdits
<1> QED BY <1>1, <1>2, MovementEditInv

LEMMA ConfirmInv ==
    ASSUME IInv, ~ui.fatal, Confirm
    PROVE  IInv'
<1>1. CASE SubmitMovement BY <1>1, SubmitMovementInv
<1>2. CASE /\ ui.movement # None
           /\ ui.movement.preview => HasRoom(ui.movement)
           /\ \E moves \in BOOLEAN : Locally([ui EXCEPT !.movement = MovementMarkedReady(ui.movement, moves)])
    <2>1. PICK moves \in BOOLEAN : Locally([ui EXCEPT !.movement = MovementMarkedReady(ui.movement, moves)])
        BY <1>2
    <2>2. SameMovement(ui.movement, MovementMarkedReady(ui.movement, moves))
        BY Parts, <1>2, MarkedReadyType
    <2> QED BY <1>2, <2>1, <2>2, MovementEditInv
<1>3. CASE SubmitPlacement BY <1>3, SubmitPlacementInv
<1>4. CASE /\ ui.placement # None
           /\ Locally([ui EXCEPT !.placement = PlacementMarkedReady(ui.placement)])
    <2>1. SamePlacement(ui.placement, PlacementMarkedReady(ui.placement))
        BY Parts, <1>4, PlacementEdits
    <2> QED BY <1>4, <2>1, PlacementEditInv
<1>5. CASE SubmitAssignment(FALSE) BY <1>5, SubmitAssignmentInv
<1>6. CASE /\ NoDraft /\ ui.assignment = None
           /\ Locally(IF SyncMovement(ui).movement = None
                      THEN Refused(SyncMovement(ui)) ELSE SyncMovement(ui))
    <2> DEFINE s == SyncMovement(ui)
    <2>1. Step(ui, s) /\ MovementBound(s) BY Parts, SyncMovementType
    <2>2. s.placement = None /\ s.assignment = None
        BY Parts, <1>6, SelectingType DEF SyncMovement, WithMovement, Selecting, Window, NoDraft
    <2>3. Locally(IF s.movement = None THEN Refused(s) ELSE s) BY <1>6
    <2> HIDE DEF s
    <2>4. Stays(ui, s, engine)
        BY Parts, <2>1, <2>2, ShellStays
        DEF Step, SameShell, EditorsMatch, PlacementBound, AssignmentBound
    <2>5. Consistent(s, engine) /\ ~s.fatal BY <2>4 DEF Stays
    <2>6. Stays(s, Refused(s), engine) BY <2>5, RefusedStays
    <2>7. Stays(ui, Refused(s), engine) BY <2>4, <2>6 DEF Stays, HudLines
    <2> QED BY <2>3, <2>4, <2>7, LocallyInv
<1>7. CASE SubmitFinite(None) BY <1>7, SubmitFiniteInv
<1> QED BY <1>1, <1>2, <1>3, <1>4, <1>5, <1>6, <1>7 DEF Confirm

LEMMA CancelInv ==
    ASSUME IInv, ~ui.fatal, Cancel
    PROVE  IInv'
<1>0. PICK moves \in BOOLEAN :
           Locally([ui EXCEPT !.movement = CancelledMovement(ui.movement, moves), !.placement = None,
                              !.assignment = None])
    BY DEF Cancel
<1> DEFINE draft == CancelledMovement(ui.movement, moves)
           mid == IF draft # None THEN [ui EXCEPT !.movement = draft] ELSE ui
           w == [ui EXCEPT !.movement = draft, !.placement = None, !.assignment = None]
<1>1. draft = None \/ (ui.movement # None /\ draft = WithSelection(ui.movement, {}))
    BY DEF CancelledMovement
<1>2. Locally(w) BY <1>0
<1>3. CASE draft = None
    <2> HIDE DEF draft
    <2>1. /\ w \in Window /\ SameShell(ui, w) /\ w.fs = ui.fs /\ w.movement = None
          /\ w.placement = None /\ w.assignment = None
        BY Parts, <1>3 DEF Window, SameShell
    <2> HIDE DEF w
    <2>2. Stays(ui, w, engine) BY Parts, <2>1, EditorStays
    <2> QED BY <1>2, <2>2, LocallyInv
<1>4. CASE ui.movement # None /\ draft = WithSelection(ui.movement, {})
    <2>1. ui.placement = None /\ ui.assignment = None BY Parts, <1>4, OneEditor
    <2>2. SameMovement(ui.movement, draft) BY Parts, <1>4, MovementEdits
    <2> HIDE DEF draft
    <2>3. w = [ui EXCEPT !.movement = draft] BY Parts, <2>1 DEF Window
    <2> QED BY <1>2, <1>4, <2>2, <2>3, MovementEditInv
<1> QED BY <1>1, <1>3, <1>4

LEMMA MoveCursorInv ==
    ASSUME IInv, ~ui.fatal, MoveCursor
    PROVE  IInv'
<1>1. ui.movement # None /\ Locally([ui EXCEPT !.movement = WithPreview(ui.movement)])
    BY DEF MoveCursor
<1>2. SameMovement(ui.movement, WithPreview(ui.movement)) BY Parts, <1>1, MovementEdits
<1> QED BY <1>1, <1>2, MovementEditInv

LEMMA ClickMoverInv ==
    ASSUME IInv, ~ui.fatal, NEW m \in Model, ClickMover(m)
    PROVE  IInv'
<1>1. ui.movement # None BY DEF ClickMover
<1>2. ui.movement \in MovementDrafts BY Parts, <1>1
<1>3. PICK models \in {{m}, ui.movement.active \cup {m}, ui.movement.active \ {m}} :
        Locally(Selecting([ui EXCEPT !.movement = WithSelection(ui.movement, models)],
                          ui.movement.unit, m))
    BY DEF ClickMover
<1>4. models \in SUBSET Model BY <1>2 DEF MovementDrafts
<1>5. SameMovement(ui.movement, WithSelection(ui.movement, models)) BY <1>2, <1>4, MovementEdits
<1>6. WithSelection(ui.movement, models).unit = ui.movement.unit BY <1>5 DEF SameMovement
<1> QED BY <1>1, <1>3, <1>5, <1>6, MovementEditInv

LEMMA WaypointInv ==
    ASSUME IInv, ~ui.fatal, AddWaypoint \/ RemoveWaypoint
    PROVE  IInv'
<1>1. CASE AddWaypoint
    <2>1. /\ ui.movement # None /\ HasRoom(ui.movement)
          /\ Locally([ui EXCEPT !.movement = WithWaypoint(ui.movement)])
        BY <1>1 DEF AddWaypoint
    <2>2. SameMovement(ui.movement, WithWaypoint(ui.movement)) BY Parts, <2>1, WaypointType
    <2> QED BY <2>1, <2>2, MovementEditInv
<1>2. CASE RemoveWaypoint
    <2>1. ui.movement # None /\ Locally([ui EXCEPT !.movement = WithoutLastWaypoint(ui.movement)])
        BY <1>2 DEF RemoveWaypoint
    <2>2. SameMovement(ui.movement, WithoutLastWaypoint(ui.movement))
        BY Parts, <2>1, MovementEdits
    <2> QED BY <2>1, <2>2, MovementEditInv
<1> QED BY <1>1, <1>2

LEMMA PlaceModelInv ==
    ASSUME IInv, ~ui.fatal, NEW spot \in Spot, PlaceModel(spot)
    PROVE  IInv'
<1>1. /\ ui.placement # None
      /\ Locally(Selecting([ui EXCEPT !.placement = WithModelPlaced(ui.placement, spot)],
                           WithModelPlaced(ui.placement, spot).unit,
                           WithModelPlaced(ui.placement, spot).cur))
    BY DEF PlaceModel
<1>2. SamePlacement(ui.placement, WithModelPlaced(ui.placement, spot))
    BY Parts, <1>1, PlacementEdits
<1> QED BY <1>1, <1>2, PlacementEditInv

LEMMA SelectAtInv ==
    ASSUME IInv, ~ui.fatal, NEW unit \in Unit \cup {None}, NEW model \in Model \cup {None},
           SelectAt(unit, model)
    PROVE  IInv'
<1> DEFINE picked == Selecting(ui, unit, model)
           fs == WithHighlightForUnit(ui.fs, unit)
           w == [picked EXCEPT !.fs = fs]
<1>1. Locally(SyncEditors(w)) BY DEF SelectAt
<1>2. FsOK(fs) /\ Kept(ui.fs, fs) BY Parts, WithHighlightForUnitType
<1>3. picked \in Window /\ SameShell(ui, picked) BY Parts, SelectingType
<1> HIDE DEF picked, fs
<1>4. w \in Window /\ SameShell(picked, w) /\ w.fs = fs
    BY <1>2, <1>3 DEF Window, SameShell, FsOK
<1> HIDE DEF w
<1>5. Stays(ui, SyncEditors(w), engine)
    BY Parts, <1>2, <1>3, <1>4, SyncStays DEF SameShell
<1> QED BY <1>1, <1>5, LocallyInv

LEMMA ContextMenuInv ==
    ASSUME IInv, ~ui.fatal, NEW o \in OptionId, ContextMenu(o)
    PROVE  IInv'
<1>1. CASE SubmitFinite(o) BY <1>1, SubmitFiniteInv
<1>2. CASE Locally(Refused(ui)) BY <1>2, RefuseInv
<1> QED BY <1>1, <1>2 DEF ContextMenu

LEMMA PressFiniteOptionInv ==
    ASSUME IInv, ~ui.fatal, PressFiniteOption
    PROVE  IInv'
<1>1. PICK b \in Pressed("finite_option") : Locally(SetFinite(ui, WithHighlight(ui.fs, b.ref)))
    BY DEF PressFiniteOption
<1>2. FsOK(WithHighlight(ui.fs, b.ref)) /\ Kept(ui.fs, WithHighlight(ui.fs, b.ref))
    BY Parts, WithHighlightType
<1>3. Stays(ui, SetFinite(ui, WithHighlight(ui.fs, b.ref)), engine)
    BY Parts, <1>2, SetFiniteStays
<1> QED BY <1>1, <1>3, LocallyInv

LEMMA PressSelectUnitInv ==
    ASSUME IInv, ~ui.fatal, PressSelectUnit
    PROVE  IInv'
<1>1. PICK b \in Pressed("select_unit") : Locally(SelectUnitFromHud(ui, b.ref))
    BY DEF PressSelectUnit
<1> DEFINE unit == b.ref
           w == Selecting(ui, unit, None)
<1>2. b \in Buttons /\ b.kind = "select_unit" BY Parts, <1>1 DEF Pressed, Window
<1>3. unit \in Unit BY <1>2 DEF Buttons
<1>4. Locally(SelectUnitFromHud(ui, unit)) BY <1>1
<1> HIDE DEF unit
<1>5. w \in Window /\ SameShell(ui, w) /\ w.fs = ui.fs BY Parts, <1>3, SelectingType
<1>6. CASE Offers(ui.fs, unit)
    <2>1. FsOK(WithHighlightForUnit(ui.fs, unit)) /\ Kept(ui.fs, WithHighlightForUnit(ui.fs, unit))
        BY Parts, WithHighlightForUnitType
    <2>2. SelectUnitFromHud(ui, unit) = SetFinite(w, WithHighlightForUnit(ui.fs, unit))
        BY <1>6 DEF SelectUnitFromHud
    <2> HIDE DEF w
    <2>3. Stays(ui, SetFinite(w, WithHighlightForUnit(ui.fs, unit)), engine)
        BY Parts, <1>5, <2>1, SetFiniteStays DEF SameShell
    <2> QED BY <1>4, <2>2, <2>3, LocallyInv
<1>7. CASE ~Offers(ui.fs, unit) /\ ui.movement # None /\ ui.movement.unit = unit
    <2> DEFINE draft == WithSelection(ui.movement, {1})
    <2>1. SameMovement(ui.movement, draft) BY Parts, <1>7, MovementEdits, ModelsExist
    <2>2. draft.unit = unit BY <1>7, <2>1 DEF SameMovement
    <2>3. SelectUnitFromHud(ui, unit) = Selecting([ui EXCEPT !.movement = draft], unit, 1)
        BY <1>7 DEF SelectUnitFromHud
    <2> HIDE DEF draft
    <2>4. Locally(Selecting([ui EXCEPT !.movement = draft], draft.unit, 1))
        BY <1>4, <2>2, <2>3
    <2> QED BY <1>7, <2>1, <2>4, ModelsExist, MovementEditInv
<1>8. CASE ~Offers(ui.fs, unit) /\ ~(ui.movement # None /\ ui.movement.unit = unit)
    <2>1. SelectUnitFromHud(ui, unit) = SyncEditors(w) BY <1>8 DEF SelectUnitFromHud
    <2> HIDE DEF w
    <2>2. Stays(ui, SyncEditors(w), engine)
        BY Parts, <1>5, SyncStays DEF SameShell, Kept
    <2> QED BY <1>4, <2>1, <2>2, LocallyInv
<1> QED BY <1>6, <1>7, <1>8

LEMMA PlacementButtonsInv ==
    ASSUME IInv, ~ui.fatal, PressPlacementSubmit \/ PressPlacementNext \/ PressPlacementClear
    PROVE  IInv'
<1>1. CASE SubmitPlacement BY <1>1, SubmitPlacementInv
<1>2. CASE /\ ui.placement # None
           /\ Locally([ui EXCEPT !.placement = PlacementMarkedReady(ui.placement)])
    <2>1. SamePlacement(ui.placement, PlacementMarkedReady(ui.placement))
        BY Parts, <1>2, PlacementEdits
    <2> QED BY <1>2, <2>1, PlacementEditInv
<1>3. CASE PressPlacementNext
    <2>1. /\ ui.placement # None
          /\ Locally(Selecting([ui EXCEPT !.placement = WithNextModel(ui.placement)],
                               WithNextModel(ui.placement).unit, WithNextModel(ui.placement).cur))
        BY <1>3 DEF PressPlacementNext
    <2>2. SamePlacement(ui.placement, WithNextModel(ui.placement)) BY Parts, <2>1, PlacementEdits
    <2> QED BY <2>1, <2>2, PlacementEditInv
<1>4. CASE PressPlacementClear
    <2> DEFINE w == [ui EXCEPT !.placement = None]
    <2>1. Locally(w) BY <1>4 DEF PressPlacementClear
    <2>2. /\ w \in Window /\ SameShell(ui, w) /\ w.fs = ui.fs /\ w.movement = ui.movement
          /\ w.unit = ui.unit /\ w.placement = None /\ w.assignment = ui.assignment
        BY Parts DEF Window, SameShell
    <2> HIDE DEF w
    <2>3. Stays(ui, w, engine)
        BY Parts, <2>2, EditorStays DEF EditorsMatch, AssignmentBound
    <2> QED BY <2>1, <2>3, LocallyInv
<1> QED BY <1>1, <1>2, <1>3, <1>4 DEF PressPlacementSubmit

(* A chosen or cleared workspace is still the one for the request. *)
LEMMA ChoiceKeepsWorkspace ==
    ASSUME NEW work \in Workspaces, NEW complete \in BOOLEAN, NEW d, IsForAssignment(work, d)
    PROVE  WithChoice(work, complete) \in Workspaces /\ IsForAssignment(WithChoice(work, complete), d)
BY DEF WithChoice, Workspaces, IsForAssignment

LEMMA ClearedType ==
    ASSUME IInv, NEW complete \in BOOLEAN, ClearedAssignment(ui, complete) # None
    PROVE  /\ ClearedAssignment(ui, complete) \in Workspaces
           /\ IsForAssignment(ClearedAssignment(ui, complete), ui.fs.pending)
<1>1. ui.assignment # None BY DEF ClearedAssignment
<1>2. ui.assignment \in Workspaces /\ IsForAssignment(ui.assignment, ui.fs.pending)
    BY Parts, <1>1 DEF EditorsMatch, AssignmentBound
<1>3. CASE ClearedAssignment(ui, complete) = StartAssignment(ui.fs.pending)
    <2>1. ui.fs.pending \in VisibleDecision BY Parts DEF FsOK, FiniteState
    <2> QED BY <1>3, <2>1, StartAssignmentType
<1>4. CASE ClearedAssignment(ui, complete) = WithChoice(ui.assignment, complete)
    BY <1>2, <1>4, ChoiceKeepsWorkspace
<1> QED BY <1>3, <1>4 DEF ClearedAssignment

LEMMA AssignmentButtonsInv ==
    ASSUME IInv, ~ui.fatal,
           \/ PressAssignmentSubmit \/ PressAssignmentDecline
           \/ PressAssignmentClear \/ PressAssignmentSelect
    PROVE  IInv'
<1>1. CASE PressAssignmentSubmit BY <1>1, SubmitAssignmentInv DEF PressAssignmentSubmit
<1>2. CASE PressAssignmentDecline BY <1>2, SubmitAssignmentInv DEF PressAssignmentDecline
<1>3. ASSUME NEW work \in Workspaces \cup {None},
             work # None => IsForAssignment(work, ui.fs.pending),
             Locally([ui EXCEPT !.assignment = work])
      PROVE  IInv'
    <2> DEFINE w == [ui EXCEPT !.assignment = work]
    <2>1. /\ w \in Window /\ SameShell(ui, w) /\ w.fs = ui.fs /\ w.movement = ui.movement
          /\ w.unit = ui.unit /\ w.placement = ui.placement /\ w.assignment = work
        BY Parts, <1>3 DEF Window, SameShell
    <2> HIDE DEF w
    <2>2. Stays(ui, w, engine) BY Parts, <1>3, <2>1, EditorStays
    <2>3. Locally(w) BY <1>3 DEF w
    <2> QED BY <2>2, <2>3, LocallyInv
<1>4. CASE PressAssignmentClear
    <2>1. PICK complete \in BOOLEAN :
            Locally([ui EXCEPT !.assignment = ClearedAssignment(ui, complete)])
        BY <1>4 DEF PressAssignmentClear
    <2> DEFINE work == ClearedAssignment(ui, complete)
    <2>2. work # None => work \in Workspaces /\ IsForAssignment(work, ui.fs.pending)
        BY ClearedType
    <2>3. Locally([ui EXCEPT !.assignment = work]) BY <2>1
    <2> HIDE DEF work
    <2> QED BY <1>3, <2>2, <2>3
<1>5. CASE Locally(Refused(ui)) BY <1>5, RefuseInv
<1>6. CASE /\ ui.assignment # None
           /\ \E complete \in BOOLEAN :
                Locally([ui EXCEPT !.assignment = WithChoice(ui.assignment, complete)])
    <2>1. PICK complete \in BOOLEAN :
            Locally([ui EXCEPT !.assignment = WithChoice(ui.assignment, complete)])
        BY <1>6
    <2>2. /\ WithChoice(ui.assignment, complete) \in Workspaces
          /\ IsForAssignment(WithChoice(ui.assignment, complete), ui.fs.pending)
        BY Parts, <1>6, ChoiceKeepsWorkspace DEF EditorsMatch, AssignmentBound
    <2> QED BY <1>3, <2>1, <2>2
<1>7. CASE /\ ui.assignment # None
           /\ \E complete \in BOOLEAN, unit \in Unit \cup {ui.unit} :
                LET chosen == IF ui.assignment.kind = "stratagem"
                              THEN ui.assignment ELSE WithChoice(ui.assignment, complete)
                IN  Locally(Selecting([ui EXCEPT !.assignment = chosen], unit,
                                      IF unit = ui.unit THEN ui.model ELSE None))
    <2>1. PICK complete \in BOOLEAN, unit \in Unit \cup {ui.unit} :
                LET chosen == IF ui.assignment.kind = "stratagem"
                              THEN ui.assignment ELSE WithChoice(ui.assignment, complete)
                IN  Locally(Selecting([ui EXCEPT !.assignment = chosen], unit,
                                      IF unit = ui.unit THEN ui.model ELSE None))
        BY <1>7
    <2> DEFINE chosen == IF ui.assignment.kind = "stratagem"
                         THEN ui.assignment ELSE WithChoice(ui.assignment, complete)
               model == IF unit = ui.unit THEN ui.model ELSE None
               mid == [ui EXCEPT !.assignment = chosen]
               w == Selecting(mid, unit, model)
    <2>2. Locally(w) BY <2>1
    <2>3. chosen \in Workspaces /\ IsForAssignment(chosen, ui.fs.pending)
        BY Parts, <1>7, ChoiceKeepsWorkspace DEF EditorsMatch, AssignmentBound
    <2>4. ui.movement = None /\ ui.placement = None BY Parts, <1>7, OneEditor
    <2>5. unit \in Unit \cup {None} /\ model \in Model \cup {None} BY Parts DEF Window
    <2> HIDE DEF chosen, model
    <2>6. /\ mid \in Window /\ SameShell(ui, mid) /\ mid.fs = ui.fs /\ mid.movement = None
          /\ mid.placement = None /\ mid.assignment = chosen
        BY Parts, <2>3, <2>4 DEF Window, SameShell
    <2> HIDE DEF mid
    <2>7. /\ w \in Window /\ SameShell(mid, w) /\ w.fs = ui.fs /\ w.movement = None
          /\ w.placement = None /\ w.assignment = chosen
        BY <2>5, <2>6, SelectingType
    <2> HIDE DEF w
    <2>8. SameShell(ui, w) BY <2>6, <2>7 DEF SameShell
    <2>9. Stays(ui, w, engine) BY Parts, <2>3, <2>7, <2>8, EditorStays
    <2> QED BY <2>2, <2>9, LocallyInv
<1> QED BY <1>1, <1>2, <1>4, <1>5, <1>6, <1>7 DEF PressAssignmentSelect

(* The buttons of a frame are buttons. *)
LEMMA DrawnType ==
    ASSUME IInv
    PROVE  ActionButtons(ui) \cup RosterButtons(ui) \subseteq Buttons
<1> DEFINE n == IF ui.fs.pending = None THEN 0 ELSE ui.fs.pending.id
<1>1. n \in Nat
    <2>1. ui.fs.pending \in VisibleDecision BY Parts DEF FsOK, FiniteState
    <2> QED BY <2>1, PendingType
<1> HIDE DEF n
<1>2. ASSUME NEW kind \in ButtonKinds, NEW ref \in OptionId \cup Unit \cup {None},
             kind = "select_unit" => ref \in Unit
      PROVE  Button(ui, kind, ref) \in Buttons
    <2>1. Button(ui, kind, ref) = [kind |-> kind, ref |-> ref, request |-> n] BY DEF Button, n
    <2> QED BY <1>1, <1>2, <2>1 DEF Buttons
<1>3. PlacementButtons(ui) \subseteq Buttons BY <1>2 DEF PlacementButtons, ButtonKinds
<1>4. AssignmentButtons(ui) \subseteq Buttons BY <1>2 DEF AssignmentButtons, ButtonKinds
<1>5. FiniteButtons(ui) \subseteq Buttons
    <2>1. FiniteOptions(ui.fs) \in Seq(OptionId) BY Parts, OptionsType DEF FsOK
    <2>2. \A i \in DOMAIN FiniteOptions(ui.fs) : FiniteOptions(ui.fs)[i] \in OptionId BY <2>1
    <2>3. "finite_option" \in ButtonKinds BY DEF ButtonKinds
    <2> QED BY <1>2, <2>2, <2>3 DEF FiniteButtons
<1>6. RosterButtons(ui) \subseteq Buttons BY <1>2 DEF RosterButtons, ButtonKinds
<1> QED BY <1>3, <1>4, <1>5, <1>6 DEF ActionButtons

LEMMA DrawInv ==
    ASSUME IInv, ~ui.fatal, Draw
    PROVE  IInv'
<1> DEFINE drawn == ActionButtons(ui) \cup RosterButtons(ui)
           w == [ui EXCEPT !.drawn = drawn]
<1>1. drawn \in SUBSET Buttons BY DrawnType
<1>2. Locally(w) BY DEF Draw
<1> HIDE DEF drawn
<1>3. /\ w \in Window /\ w.fs = ui.fs /\ w.view = ui.view /\ w.viewer = ui.viewer
      /\ w.fatal = ui.fatal /\ w.hudLines = ui.hudLines /\ w.movement = ui.movement /\ w.unit = ui.unit
      /\ w.placement = ui.placement /\ w.assignment = ui.assignment
    BY Parts, <1>1 DEF Window
<1> HIDE DEF w
<1>4. EditorsMatch(w)
    BY Parts, <1>3
    DEF EditorsMatch, MovementBound, PlacementBound, AssignmentBound, ProjectionHash
<1>5. Stays(ui, w, engine) BY Parts, <1>3, <1>4, ShellStays DEF Kept
<1> QED BY <1>2, <1>5, LocallyInv

-----------------------------------------------------------------------------
(* The first window *)
LEMMA InitInv ==
    ASSUME Init
    PROVE  IInv
<1>1. PICK viewer \in Player :
        /\ engine.req.form.actor \in {None, viewer}
        /\ ui = StartWindow(engine, viewer)
        /\ logStart = Len(engine.stream[viewer])
    BY DEF Init
<1>2. PICK f \in Forms, a \in Audiences :
        engine = [req |-> [id |-> 1, form |-> f], issued |-> 1, rev |-> 1, recorded |-> 1,
                  stream |-> [p \in Player |-> IF p \in a THEN <<1>> ELSE << >>], over |-> FALSE]
    BY DEF Init, StartEngines
<1>3. << >> \in Seq(Nat) /\ <<1>> \in Seq(Nat) /\ << >> \in Seq(Sends) OBVIOUS
<1>4. [id |-> 1, form |-> f] \in Decision BY DEF Decision
<1>5. [p \in Player |-> IF p \in a THEN <<1>> ELSE << >>] \in [Player -> Seq(Nat)] BY <1>3
<1>6. engine \in EngineState BY <1>2, <1>4, <1>5 DEF EngineState
<1>7. engine.req \in Decision /\ engine.rev \in Nat \ {0} BY <1>2, <1>4
<1>8. engine.stream[viewer] \in Seq(Nat) BY <1>6 DEF EngineState
<1>9. Len(engine.stream[viewer]) \in Nat BY <1>8
<1> DEFINE fs == InitFiniteState("waiting_for_decision", engine.req, Len(engine.stream[viewer]))
           view == [viewer |-> viewer, rev |-> engine.rev]
           bare == [fs |-> fs, viewer |-> viewer, view |-> view,
                    unit |-> None, model |-> None, movement |-> None, placement |-> None,
                    assignment |-> None, hudLines |-> << >>, drawn |-> {}, fatal |-> FALSE]
           seen == FocusHighlighted(bare)
           last == SyncAssignment(seen)
<1>10. ui = last BY <1>1 DEF StartWindow
<1>11. /\ FsOK(fs) /\ fs.pending = engine.req /\ fs.cursor = Len(engine.stream[viewer])
       /\ fs.next = 1 /\ fs.log = << >>
    BY <1>3, <1>7, <1>9 DEF InitFiniteState, FsOK, FiniteState, VisibleDecision, StatusKinds
<1> HIDE DEF fs
<1>12. view \in Views /\ view.viewer = viewer /\ view.rev = engine.rev BY <1>7 DEF Views
<1> HIDE DEF view
<1>13. /\ bare \in Window /\ bare.hudLines = << >> /\ bare.fs = fs /\ bare.view = view /\ bare.viewer = viewer
       /\ bare.movement = None /\ bare.placement = None /\ bare.fatal = FALSE
    BY <1>3, <1>11, <1>12 DEF Window, FsOK
<1> HIDE DEF bare
<1>14. /\ seen \in Window /\ SameShell(bare, seen) /\ seen.fs = fs
       /\ seen.movement = None /\ seen.placement = None
    BY <1>13, FocusHighlightedType
<1> HIDE DEF seen
<1>15. Step(seen, last) /\ EditorsMatch(last)
    BY <1>11, <1>14, SyncAssignmentType DEF MovementBound, PlacementBound
<1> HIDE DEF last
<1>16. /\ last \in Window /\ FsOK(last.fs) /\ Kept(fs, last.fs) /\ last.view = view
       /\ last.viewer = viewer /\ last.fatal = FALSE /\ last.hudLines = << >>
    BY <1>13, <1>14, <1>15 DEF Step, SameShell
<1>17. ShowsEngine(last.fs, last.view, engine)
    BY <1>1, <1>11, <1>12, <1>16 DEF ShowsEngine, Kept
<1>18. Consistent(ui, engine) BY <1>10, <1>12, <1>15, <1>16, <1>17 DEF Consistent
<1>19. sent = << >> /\ closed = FALSE BY DEF Init
<1>20. ResultsBelow /\ ResultIdsUnique BY <1>19 DEF ResultsBelow, ResultIdsUnique
<1>21. Followed(ui, engine, logStart)
    <2> DEFINE c == Len(engine.stream[viewer])
               none == SubSeq(engine.stream[viewer], c + 1, c)
    <2>1. c \in Nat BY <1>9
    <2>2. none = << >> BY <2>1, SubSeqEmpty
    <2>3. LastOf(<< >>, LogCap) = << >> BY LogCapAssumption DEF LastOf
    <2>4. /\ ui.viewer = viewer /\ ui.fs.cursor = c /\ ui.fs.log = << >>
          /\ ui.hudLines = << >> /\ logStart = c
        BY <1>1, <1>10, <1>11, <1>16 DEF Kept
    <2>5. Told(ui.hudLines, engine.stream[ui.viewer]) BY <2>4 DEF Told
    <2>6. ui.fs.log = LastOf(SubSeq(engine.stream[ui.viewer], logStart + 1, ui.fs.cursor), LogCap)
        BY <2>2, <2>3, <2>4
    <2> HIDE DEF c
    <2>7. logStart <= ui.fs.cursor BY <2>1, <2>4
    <2> QED BY <2>5, <2>6, <2>7 DEF Followed
<1> QED BY <1>1, <1>3, <1>6, <1>9, <1>18, <1>19, <1>20, <1>21 DEF IInv

-----------------------------------------------------------------------------
(* Every step keeps the invariant. *)
LEMMA NextInv ==
    ASSUME IInv, [Next]_vars
    PROVE  IInv'
<1>1. CASE UNCHANGED vars
    BY <1>1 DEF vars, IInv, ResultsBelow, ResultIdsUnique
<1>2. CASE ui.fatal /\ Next
    <2>1. UNCHANGED <<ui, engine, sent>> /\ logStart' = logStart /\ closed' \in BOOLEAN
        BY <1>2, FatalStutters
    <2> QED BY <2>1 DEF IInv, ResultsBelow, ResultIdsUnique
<1>3. CASE ~ui.fatal /\ Next
    <2> USE <1>3
    <2>1. CASE CycleSelection BY <2>1, CycleSelectionInv
    <2>2. CASE \E models \in SUBSET Model : SelectMovers(models) BY <2>2, SelectMoversInv
    <2>3. CASE Confirm BY <2>3, ConfirmInv
    <2>4. CASE Cancel BY <2>4, CancelInv
    <2>5. CASE MoveCursor BY <2>5, MoveCursorInv
    <2>6. CASE \E m \in Model : ClickMover(m) BY <2>6, ClickMoverInv
    <2>7. CASE AddWaypoint \/ RemoveWaypoint BY <2>7, WaypointInv
    <2>8. CASE \E spot \in Spot \ {0} : PlaceModel(spot) BY <2>8, PlaceModelInv
    <2>9. CASE \E u \in Unit, m \in Model : SelectAt(u, m) BY <2>9, SelectAtInv
    <2>10. CASE SelectAt(None, None) BY <2>10, SelectAtInv
    <2>11. CASE \E o \in OptionId : ContextMenu(o) BY <2>11, ContextMenuInv
    <2>12. CASE PressFiniteOption BY <2>12, PressFiniteOptionInv
    <2>13. CASE PressSelectUnit BY <2>13, PressSelectUnitInv
    <2>14. CASE PressPlacementSubmit \/ PressPlacementNext \/ PressPlacementClear
        BY <2>14, PlacementButtonsInv
    <2>15. CASE \/ PressAssignmentSubmit \/ PressAssignmentDecline
                \/ PressAssignmentClear \/ PressAssignmentSelect
        BY <2>15, AssignmentButtonsInv
    <2>16. CASE Draw BY <2>16, DrawInv
    <2>17. CASE Close BY <2>17 DEF Close
    <2> QED BY <2>1, <2>2, <2>3, <2>4, <2>5, <2>6, <2>7, <2>8, <2>9, <2>10, <2>11, <2>12,
               <2>13, <2>14, <2>15, <2>16, <2>17 DEF Next
<1> QED BY <1>1, <1>2, <1>3

(* The invariant holds in every reachable state. *)
THEOREM Invariance == Spec => []IInv
<1>1. Init => IInv BY InitInv
<1>2. IInv /\ [Next]_vars => IInv' BY NextInv
<1> QED BY <1>1, <1>2, PTL DEF Spec

(* Types: in particular every path keeps at least its start, and each draft *)
(* is for units and models there are.                                       *)
THEOREM TypeCorrect == Spec => []TypeOK
<1>1. IInv => TypeOK BY DEF IInv, TypeOK, Consistent
<1> QED BY <1>1, Invariance, PTL

(* The highlighted index points into the options of the pending decision,   *)
(* whichever press, answer or viewer switch changed either of them last     *)
(* (_with_pending_decision and the highlighting methods).                   *)
THEOREM SessionHighlightExists == Spec => []HighlightExists
<1>1. ASSUME IInv PROVE HighlightExists
    <2>1. FsOK(ui.fs) BY <1>1, Parts
    <2>2. ui.fs.hl \in Nat BY <2>1 DEF FsOK, FiniteState
    <2>3. Len(FiniteOptions(ui.fs)) \in Nat
        <3>1. FiniteOptions(ui.fs) \in Seq(OptionId) BY <2>1, OptionsType DEF FsOK
        <3> QED BY <3>1
    <2>4. ui.fs.hl = 0 \/ ui.fs.hl \in 0 .. Len(FiniteOptions(ui.fs)) - 1
        BY <2>1, <2>2, <2>3 DEF FsOK
    <2> QED BY <2>4 DEF HighlightExists
<1> QED BY <1>1, Invariance, PTL

(* Outside a fatal error the window shows the request the engine awaits, in *)
(* the current state and with the events up to now, however the submission  *)
(* before ended and whoever has to answer next.                             *)
THEOREM SessionInStep == Spec => []InStep
<1>1. ASSUME IInv PROVE InStep
    <2> SUFFICES ASSUME ~ui.fatal
                 PROVE  /\ ui.fs.pending = engine.req
                        /\ ui.view = [viewer |-> ui.viewer, rev |-> engine.rev]
                        /\ ui.fs.cursor = Len(engine.stream[ui.viewer])
        BY DEF InStep
    <2>1. ShowsEngine(ui.fs, ui.view, engine) /\ ui.viewer = ui.view.viewer
        BY <1>1 DEF IInv, Consistent
    <2>2. ui.view = [viewer |-> ui.viewer, rev |-> engine.rev]
        BY <2>1 DEF ShowsEngine, Views
    <2> QED BY <2>1, <2>2 DEF ShowsEngine
<1> QED BY <1>1, Invariance, PTL

(* At most one editor is open, and it is for the pending request and the    *)
(* projection that is shown.                                                *)
THEOREM SessionEditorsBound == Spec => []EditorsBound
<1>1. ASSUME IInv PROVE EditorsBound
    <2>1. ui \in Window /\ EditorsMatch(ui) /\ Consistent(ui, engine) BY <1>1, Parts
    <2>2. (ui.movement # None \/ ui.placement # None \/ ui.assignment # None) =>
            ui.fs.pending # None
        BY <2>1 DEF EditorsMatch, MovementBound, PlacementBound, AssignmentBound,
                    IsForMovement, MatchesMovement, MatchesPlacement, IsForAssignment
    <2>3. ui.fs.pending # None => ui.view \in Views
        BY <2>1 DEF Consistent, Quiet, ShowsEngine
    <2>4. ui.view \in Views => ui.view # None /\ ProjectionHash(ui) = ui.view.rev
        BY NoViewAssumption DEF ProjectionHash
    <2> QED BY <2>1, <2>2, <2>3, <2>4, OneEditor
        DEF EditorsBound, EditorsMatch, MovementBound, PlacementBound, AssignmentBound,
            IsForMovement, MatchesMovement, MatchesPlacement, IsForAssignment
<1> QED BY <1>1, Invariance, PTL

(* No result id is submitted twice, although a fatal error rolls the        *)
(* counter back: it is also the end of submitting.                          *)
THEOREM SessionResultIdsUnique == Spec => []ResultIdsUnique
<1>1. IInv => ResultIdsUnique BY DEF IInv
<1> QED BY <1>1, Invariance, PTL

(* The shown events are the current viewer's own, all of the last ones, each *)
(* once, through any number of refreshes, viewers and cuts of the log.      *)
THEOREM SessionViewerEventsOnly == Spec => []ViewerEventsOnly
<1>1. ASSUME IInv PROVE ViewerEventsOnly
    <2>1. Consistent(ui, engine) /\ Followed(ui, engine, logStart) BY <1>1 DEF IInv
    <2>2. CASE ui.fatal
        <3>1. ui.fs.log = << >> /\ ui.hudLines = << >> BY <2>1, <2>2 DEF Consistent, Quiet
        <3> QED BY <2>2, <3>1 DEF ViewerEventsOnly
    <2>3. CASE ~ui.fatal BY <2>1, <2>3 DEF Followed, Told, ViewerEventsOnly
    <2> QED BY <2>2, <2>3
<1> QED BY <1>1, Invariance, PTL

(* Nothing that reaches a failed window changes it or the engine, although  *)
(* most mouse and button handlers do not ask whether it has failed.         *)
THEOREM SessionFatalIsQuiet == Spec => FatalIsQuiet
<1>1. ASSUME IInv, [Next]_vars PROVE [ui.fatal => UNCHANGED <<ui, engine, sent>>]_vars
    BY <1>1, FatalStutters DEF vars
<1> QED BY <1>1, Invariance, PTL DEF Spec, FatalIsQuiet

-----------------------------------------------------------------------------
(* Reviewed drafts. The invariant needs nothing of the request, the engine *)
(* or the types: only that a draft is a record.                            *)

MovementShown(d) ==
    d # None =>
        /\ {"way", "active", "preview", "payload", "noMove", "unit"} \subseteq DOMAIN d
        /\ MovementReady(d) => d.payload = d.way /\ ~d.preview /\ (HasPaths(d) \/ d.noMove)

PlacementShown(d) ==
    d # None =>
        /\ {"pose", "cur", "payload", "unit"} \subseteq DOMAIN d
        /\ PlacementReady(d) => d.payload = d.pose /\ AllPlaced(d)

WindowFields == {"fs", "viewer", "view", "unit", "model", "movement", "placement", "assignment",
                 "hudLines", "drawn", "fatal"}

Shown(w) ==
    /\ WindowFields \subseteq DOMAIN w
    /\ MovementShown(w.movement)
    /\ PlacementShown(w.placement)

LEMMA StartShown ==
    ASSUME NEW d, NEW rev, NEW unit, NEW model
    PROVE  /\ MovementShown(StartMovement(d, rev, unit, model))
           /\ PlacementShown(StartPlacement(d, rev))
           /\ MovementShown(None) /\ PlacementShown(None)
<1>1. MovementShown(StartMovement(d, rev, unit, model))
    BY DEF StartMovement, MovementShown, MovementReady
<1>2. PlacementShown(StartPlacement(d, rev))
    BY DEF StartPlacement, PlacementShown, PlacementReady
<1> QED BY <1>1, <1>2 DEF MovementShown, PlacementShown

(* Every operation on a movement draft *)
LEMMA MovementEditsShown ==
    ASSUME NEW d, d # None, MovementShown(d), NEW models, NEW moves
    PROVE  /\ MovementShown(WithSelection(d, models))
           /\ MovementShown(WithPreview(d))
           /\ MovementShown(WithWaypoint(d))
           /\ MovementShown(WithoutLastWaypoint(d))
           /\ MovementShown(MovementReadyCleared(d))
           /\ MovementShown(MovementMarkedReady(d, moves))
<1> DEFINE fields == {"way", "active", "preview", "payload", "noMove", "unit"}
<1>1. fields \subseteq DOMAIN d BY DEF MovementShown
<1>2. MovementShown(WithSelection(d, models))
    BY <1>1 DEF WithSelection, MovementShown, MovementReady
<1>3. MovementShown(WithPreview(d))
    BY <1>1 DEF WithPreview, MovementShown, MovementReady
<1>4. /\ MovementShown(WithWaypoint(d))
      /\ fields \subseteq DOMAIN WithWaypoint(d)
      /\ WithWaypoint(d).preview = FALSE /\ WithWaypoint(d).noMove = d.noMove
    BY <1>1 DEF WithWaypoint, MovementShown, MovementReady
<1>5. MovementShown(WithoutLastWaypoint(d))
    BY <1>1 DEF WithoutLastWaypoint, MovementShown, MovementReady
<1>6. MovementShown(MovementReadyCleared(d))
    BY <1>1 DEF MovementReadyCleared, MovementShown, MovementReady
<1>7. MovementShown(MovementMarkedReady(d, moves))
    <2> DEFINE c == IF d.preview THEN WithWaypoint(d) ELSE d
               r == [c EXCEPT !.payload = IF HasAssignments(c, moves) \/ d.noMove THEN c.way ELSE None]
    <2>1. fields \subseteq DOMAIN c /\ ~c.preview /\ c.noMove = d.noMove
        BY <1>1, <1>4
    <2> HIDE DEF c
    <2>2. /\ fields \subseteq DOMAIN r /\ r.way = c.way /\ r.preview = c.preview
          /\ r.noMove = d.noMove
          /\ r.payload = IF HasAssignments(c, moves) \/ d.noMove THEN c.way ELSE None
        BY <2>1
    <2> HIDE DEF r
    <2>3. HasAssignments(c, moves) => HasPaths(r) BY <2>2 DEF HasAssignments, HasPaths
    <2>4. MovementShown(r) BY <2>1, <2>2, <2>3 DEF MovementShown, MovementReady
    <2> QED BY <2>4 DEF MovementMarkedReady, r, c
<1> QED BY <1>2, <1>3, <1>4, <1>5, <1>6, <1>7

(* Every operation on a placement draft *)
LEMMA PlacementEditsShown ==
    ASSUME NEW d, d # None, PlacementShown(d), NEW spot
    PROVE  /\ PlacementShown(WithModelPlaced(d, spot))
           /\ PlacementShown(WithNextModel(d))
           /\ PlacementShown(PlacementMarkedReady(d))
<1>1. {"pose", "cur", "payload", "unit"} \subseteq DOMAIN d BY DEF PlacementShown
<1>2. PlacementShown(WithModelPlaced(d, spot))
    BY <1>1 DEF WithModelPlaced, PlacementShown, PlacementReady
<1>3. PlacementShown(WithNextModel(d))
    BY <1>1 DEF WithNextModel, PlacementShown, PlacementReady
<1>4. PlacementShown(PlacementMarkedReady(d))
    BY <1>1 DEF PlacementMarkedReady, PlacementShown, PlacementReady, AllPlaced
<1> QED BY <1>2, <1>3, <1>4

-----------------------------------------------------------------------------
(* The window's own operations *)

LEMMA SelectingShown ==
    ASSUME NEW u, Shown(u), NEW unit, NEW model
    PROVE  Shown(Selecting(u, unit, model))
BY DEF Selecting, Shown, WindowFields

LEMMA EditsShown ==
    ASSUME NEW u, Shown(u), NEW d
    PROVE  /\ MovementShown(d) => Shown([u EXCEPT !.movement = d])
           /\ PlacementShown(d) => Shown([u EXCEPT !.placement = d])
           /\ Shown([u EXCEPT !.assignment = d])
           /\ Shown([u EXCEPT !.fs = d])
           /\ Shown([u EXCEPT !.drawn = d])
           /\ Shown([u EXCEPT !.hudLines = d])
BY DEF Shown, WindowFields

LEMMA SyncMovementShown ==
    ASSUME NEW u, Shown(u)
    PROVE  Shown(SyncMovement(u))
<1> DEFINE next == StartMovement(u.fs.pending, ProjectionHash(u), u.unit, u.model)
<1>1. MovementShown(next) /\ MovementShown(None) /\ PlacementShown(None) BY StartShown
<1> HIDE DEF next
<1>2. Shown([u EXCEPT !.movement = None, !.fs = LocalInvalid(u.fs)])
    BY <1>1 DEF Shown, WindowFields
<1>3. Shown([u EXCEPT !.movement = None]) BY <1>1, EditsShown
<1>4. Shown(WithMovement(u, next))
    <2>1. Shown([u EXCEPT !.movement = next, !.placement = None, !.assignment = None])
        BY <1>1 DEF Shown, WindowFields
    <2> QED BY <2>1, SelectingShown DEF WithMovement
<1> QED BY <1>2, <1>3, <1>4 DEF SyncMovement, next

LEMMA SyncPlacementShown ==
    ASSUME NEW u, Shown(u)
    PROVE  Shown(SyncPlacement(u))
<1> DEFINE next == StartPlacement(u.fs.pending, ProjectionHash(u))
<1>1. PlacementShown(next) /\ MovementShown(None) /\ PlacementShown(None) BY StartShown
<1> HIDE DEF next
<1>2. Shown([u EXCEPT !.placement = None, !.fs = LocalInvalid(u.fs)])
    BY <1>1 DEF Shown, WindowFields
<1>3. Shown([u EXCEPT !.placement = None]) BY <1>1, EditsShown
<1>4. Shown(WithPlacement(u, next))
    <2>1. Shown([u EXCEPT !.placement = next, !.movement = None, !.assignment = None])
        BY <1>1 DEF Shown, WindowFields
    <2> QED BY <2>1, SelectingShown DEF WithPlacement
<1> QED BY <1>2, <1>3, <1>4 DEF SyncPlacement, next

LEMMA SyncAssignmentShown ==
    ASSUME NEW u, Shown(u)
    PROVE  Shown(SyncAssignment(u))
<1> DEFINE next == StartAssignment(u.fs.pending)
<1>1. MovementShown(None) /\ PlacementShown(None) BY DEF MovementShown, PlacementShown
<1> HIDE DEF next
<1>2. Shown([u EXCEPT !.assignment = next, !.movement = None, !.placement = None])
    BY <1>1 DEF Shown, WindowFields
<1>3. Shown([u EXCEPT !.assignment = None]) BY EditsShown
<1> QED BY <1>2, <1>3 DEF SyncAssignment, next

LEMMA SyncEditorsShown ==
    ASSUME NEW u, Shown(u)
    PROVE  Shown(SyncEditors(u))
BY SyncMovementShown, SyncPlacementShown, SyncAssignmentShown DEF SyncEditors

LEMMA SetFiniteShown ==
    ASSUME NEW u, Shown(u), NEW fs
    PROVE  Shown(SetFinite(u, fs))
<1> DEFINE w == [u EXCEPT !.fs = fs, !.hudLines = HudLines(u.hudLines, fs)]
<1>1. Shown(w) BY DEF Shown, WindowFields
<1> HIDE DEF w
<1>2. Shown(FocusHighlighted(w)) BY <1>1, SelectingShown DEF FocusHighlighted
<1>3. Shown(SyncEditors(FocusHighlighted(w))) BY <1>2, SyncEditorsShown
<1> QED BY <1>3 DEF SetFinite, w

LEMMA FatalShown ==
    ASSUME NEW u, Shown(u)
    PROVE  Shown(Fatal(u))
<1> DEFINE w == [u EXCEPT !.movement = None, !.placement = None, !.assignment = None,
                          !.unit = None, !.model = None, !.hudLines = << >>, !.view = None,
                          !.viewer = None, !.drawn = {}, !.fatal = TRUE]
<1>1. Shown(w) BY DEF Shown, WindowFields, MovementShown, PlacementShown
<1> HIDE DEF w
<1>2. Shown(SetFinite(w, WithFatalError(WithoutEvents(u.fs)))) BY <1>1, SetFiniteShown
<1> QED BY <1>2 DEF Fatal, w

LEMMA WithGameViewShown ==
    ASSUME NEW u, Shown(u), NEW view, NEW fs
    PROVE  Shown(WithGameView(u, view, fs))
<1> DEFINE bare == [u EXCEPT !.fs = fs, !.movement = None, !.placement = None, !.assignment = None]
           kept == IF u.view # None /\ u.view.viewer # view.viewer
                   THEN Selecting(bare, None, None) ELSE u
           lines == HudLines(IF u.view # None /\ u.view.viewer # view.viewer
                             THEN << >> ELSE u.hudLines, fs)
<1>1. Shown(bare) BY DEF Shown, WindowFields, MovementShown, PlacementShown
<1> HIDE DEF bare
<1>2. Shown(kept) BY <1>1, SelectingShown
<1>3. WithGameView(u, view, fs)
        = [kept EXCEPT !.view = view, !.viewer = view.viewer, !.hudLines = lines]
    BY DEF WithGameView, kept, lines, bare
<1> HIDE DEF kept, lines
<1>4. Shown([kept EXCEPT !.view = view, !.viewer = view.viewer, !.hudLines = lines])
    BY <1>2 DEF Shown, WindowFields
<1> QED BY <1>3, <1>4

(* After any answer *)
LEMMA AfterShown ==
    ASSUME NEW u, Shown(u), NEW a
    PROVE  /\ Shown(AfterMovement(u, a))
           /\ Shown(AfterPlacement(u, a))
           /\ Shown(AfterAssignment(u, a))
           /\ Shown(AfterFinite(u, a))
<1> DEFINE r == Refreshed(Submitting(u.fs), a.status, a.engine, u.viewer)
           v == WithGameView(u, r.view, r.fs)
<1>1. Shown(v) BY WithGameViewShown
<1>2. MovementShown(None) /\ PlacementShown(None) BY DEF MovementShown, PlacementShown
<1>3. Shown(AfterMovement(u, a))
    <2> DEFINE kept == KeepsRejectedMovement(u, a, r)
               w == IF ~kept THEN [v EXCEPT !.movement = None]
                    ELSE IF v.movement # None
                         THEN [v EXCEPT !.movement = MovementReadyCleared(v.movement)] ELSE v
    <2>1. AfterMovement(u, a) = SetFinite(w, r.fs) BY DEF AfterMovement
    <2> HIDE DEF kept, v, r
    <2>2. CASE ~kept
        <3>1. Shown([v EXCEPT !.movement = None]) BY <1>1, <1>2, EditsShown
        <3>2. Shown(SetFinite([v EXCEPT !.movement = None], r.fs)) BY <3>1, SetFiniteShown
        <3> QED BY <2>1, <2>2, <3>2
    <2>3. CASE kept /\ v.movement # None
        <3>1. MovementShown(MovementReadyCleared(v.movement))
            BY <1>1, <2>3, MovementEditsShown DEF Shown
        <3> DEFINE x == [v EXCEPT !.movement = MovementReadyCleared(v.movement)]
        <3>2. Shown(x) BY <1>1, <3>1, EditsShown
        <3>3. AfterMovement(u, a) = SetFinite(x, r.fs) BY <2>1, <2>3
        <3> HIDE DEF x
        <3> QED BY <3>2, <3>3, SetFiniteShown
    <2>4. CASE kept /\ v.movement = None
        BY <1>1, <2>1, <2>4, SetFiniteShown
    <2> QED BY <2>2, <2>3, <2>4
<1>4. Shown(AfterPlacement(u, a))
    <2>1. AfterPlacement(u, a) = SetFinite([v EXCEPT !.placement = None], r.fs)
        BY DEF AfterPlacement
    <2> HIDE DEF v, r
    <2>2. Shown([v EXCEPT !.placement = None]) BY <1>1, <1>2, EditsShown
    <2>3. Shown(SetFinite([v EXCEPT !.placement = None], r.fs)) BY <2>2, SetFiniteShown
    <2> QED BY <2>1, <2>3
<1>5. Shown(AfterAssignment(u, a))
    <2> DEFINE x == IF a.submitted = "invalid" THEN v ELSE [v EXCEPT !.assignment = None]
    <2>1. AfterAssignment(u, a) = SetFinite(x, r.fs) BY DEF AfterAssignment
    <2> HIDE DEF v, r
    <2>2. Shown([v EXCEPT !.assignment = None]) BY <1>1, EditsShown
    <2>3. Shown(x) BY <1>1, <2>2
    <2> HIDE DEF x
    <2> QED BY <2>1, <2>3, SetFiniteShown
<1>6. Shown(AfterFinite(u, a))
    <2>1. AfterFinite(u, a) = SetFinite(v, r.fs) BY DEF AfterFinite
    <2> HIDE DEF v, r
    <2> QED BY <1>1, <2>1, SetFiniteShown
<1> QED BY <1>3, <1>4, <1>5, <1>6

(* A submission that is sent shows one of its outcomes, any other nothing new *)
LEMMA SendsShown ==
    ASSUME Shown(ui), NEW decline, NEW choice,
           SubmitMovement \/ SubmitPlacement \/ SubmitAssignment(decline) \/ SubmitFinite(choice)
    PROVE  Shown(ui')
<1>1. Shown(Refused(ui)) BY SetFiniteShown DEF Refused
<1>2. ASSUME Locally(Refused(ui)) PROVE Shown(ui') BY <1>1, <1>2 DEF Locally
<1>3. ASSUME NEW record, NEW outcomes, Sent(record, outcomes),
             \A o \in outcomes : Shown(o.ui)
      PROVE  Shown(ui')
    BY <1>3 DEF Sent
<1>4. \A answers : \A o \in Failures(ui, engine, answers) : Shown(o.ui)
    BY FatalShown DEF Failures
<1>5. \A o \in MovementOutcomes(ui, engine) : Shown(o.ui)
    BY <1>4, AfterShown DEF MovementOutcomes
<1>6. \A o \in PlacementOutcomes(ui, engine) : Shown(o.ui)
    BY <1>4, AfterShown DEF PlacementOutcomes
<1>7. \A o \in AssignmentOutcomes(ui, engine) : Shown(o.ui)
    BY <1>4, AfterShown DEF AssignmentOutcomes
<1>8. \A o \in FiniteOutcomes(ui, engine) : Shown(o.ui)
    BY <1>4, AfterShown DEF FiniteOutcomes
<1>9. CASE SubmitMovement BY <1>2, <1>3, <1>5, <1>9 DEF SubmitMovement
<1>10. CASE SubmitPlacement BY <1>2, <1>3, <1>6, <1>10 DEF SubmitPlacement
<1>11. CASE SubmitAssignment(decline) BY <1>2, <1>3, <1>7, <1>11 DEF SubmitAssignment
<1>12. CASE SubmitFinite(choice) BY <1>2, <1>3, <1>8, <1>12 DEF SubmitFinite
<1> QED BY <1>9, <1>10, <1>11, <1>12

LEMMA InitShown == Init => Shown(ui)
<1> SUFFICES ASSUME Init PROVE Shown(ui)
    OBVIOUS
<1>1. PICK viewer \in Player : ui = StartWindow(engine, viewer) BY DEF Init
<1> DEFINE bare ==
        [fs |-> InitFiniteState("waiting_for_decision", engine.req, Len(engine.stream[viewer])),
         viewer |-> viewer, view |-> [viewer |-> viewer, rev |-> engine.rev],
         unit |-> None, model |-> None, movement |-> None, placement |-> None,
         assignment |-> None, hudLines |-> << >>, drawn |-> {}, fatal |-> FALSE]
<1>2. Shown(bare) BY DEF Shown, WindowFields, MovementShown, PlacementShown
<1>3. ui = SyncAssignment(FocusHighlighted(bare)) BY <1>1 DEF StartWindow
<1> HIDE DEF bare
<1>4. Shown(FocusHighlighted(bare)) BY <1>2, SelectingShown DEF FocusHighlighted
<1> QED BY <1>3, <1>4, SyncAssignmentShown

LEMMA NextShown == Shown(ui) /\ [Next]_vars => Shown(ui')
<1> SUFFICES ASSUME Shown(ui), [Next]_vars PROVE Shown(ui')
    OBVIOUS
<1>1. ASSUME NEW u, Shown(u), Locally(u) PROVE Shown(ui') BY <1>1 DEF Locally
<1>2. ASSUME NEW d, MovementShown(d), Locally([ui EXCEPT !.movement = d]) PROVE Shown(ui')
    BY <1>1, <1>2, EditsShown
<1>3. ASSUME NEW d, MovementShown(d), NEW unit, NEW model,
             Locally(Selecting([ui EXCEPT !.movement = d], unit, model))
      PROVE  Shown(ui')
    <2>1. Shown([ui EXCEPT !.movement = d]) BY <1>3, EditsShown
    <2> QED BY <1>1, <1>3, <2>1, SelectingShown
<1>4. ASSUME NEW d, PlacementShown(d), Locally([ui EXCEPT !.placement = d]) PROVE Shown(ui')
    BY <1>1, <1>4, EditsShown
<1>5. ASSUME NEW d, PlacementShown(d), NEW unit, NEW model,
             Locally(Selecting([ui EXCEPT !.placement = d], unit, model))
      PROVE  Shown(ui')
    <2>1. Shown([ui EXCEPT !.placement = d]) BY <1>5, EditsShown
    <2> QED BY <1>1, <1>5, <2>1, SelectingShown
<1>6. ASSUME NEW u, Shown(u), NEW fs, Locally(SetFinite(u, fs)) PROVE Shown(ui')
    BY <1>1, <1>6, SetFiniteShown
<1>7. Shown(Refused(ui)) BY SetFiniteShown DEF Refused
<1>8. /\ MovementShown(ui.movement) /\ PlacementShown(ui.placement)
      /\ MovementShown(None) /\ PlacementShown(None)
    BY DEF Shown, MovementShown, PlacementShown
<1>9. CASE CycleSelection
    <2>1. CASE Locally(SetFinite(ui, CycledOption(ui.fs))) BY <1>6, <2>1
    <2>2. CASE /\ ui.movement # None
               /\ Locally([ui EXCEPT !.movement = WithSelection(ui.movement, ui.movement.active)])
        BY <1>2, <1>8, <2>2, MovementEditsShown
    <2>3. CASE /\ ui.placement # None
               /\ LET next == WithNextModel(ui.placement)
                  IN  Locally(Selecting([ui EXCEPT !.placement = next], next.unit, next.cur))
        BY <1>5, <1>8, <2>3, PlacementEditsShown
    <2>4. CASE \E u \in Unit, m \in Model : Locally(Selecting(ui, u, m))
        BY <1>1, <2>4, SelectingShown
    <2> QED BY <1>9, <2>1, <2>2, <2>3, <2>4 DEF CycleSelection
<1>10. CASE \E models \in SUBSET Model : SelectMovers(models)
    BY <1>2, <1>8, <1>10, MovementEditsShown DEF SelectMovers
<1>11. CASE Confirm
    <2>1. CASE SubmitMovement \/ SubmitPlacement \/ SubmitAssignment(FALSE) \/ SubmitFinite(None)
        BY <2>1, SendsShown
    <2>2. CASE /\ ui.movement # None
               /\ \E moves \in BOOLEAN : Locally([ui EXCEPT !.movement = MovementMarkedReady(ui.movement, moves)])
        BY <1>2, <1>8, <2>2, MovementEditsShown
    <2>3. CASE /\ ui.placement # None
               /\ Locally([ui EXCEPT !.placement = PlacementMarkedReady(ui.placement)])
        BY <1>4, <1>8, <2>3, PlacementEditsShown
    <2>4. CASE LET u == SyncMovement(ui)
               IN  Locally(IF u.movement = None THEN Refused(u) ELSE u)
        <3>1. Shown(SyncMovement(ui)) BY SyncMovementShown
        <3>2. Shown(Refused(SyncMovement(ui))) BY <3>1, SetFiniteShown DEF Refused
        <3> QED BY <1>1, <2>4, <3>1, <3>2
    <2> QED BY <1>11, <2>1, <2>2, <2>3, <2>4 DEF Confirm
<1>12. CASE Cancel
    <2>0. PICK moves \in BOOLEAN :
               Locally([ui EXCEPT !.movement = CancelledMovement(ui.movement, moves), !.placement = None,
                                  !.assignment = None])
        BY <1>12 DEF Cancel
    <2> DEFINE d == CancelledMovement(ui.movement, moves)
               w == [ui EXCEPT !.movement = d, !.placement = None, !.assignment = None]
    <2>1. MovementShown(d) BY <1>8, MovementEditsShown DEF CancelledMovement
    <2>2. Locally(w) BY <2>0
    <2> HIDE DEF d
    <2>3. Shown(w) BY <1>8, <2>1 DEF Shown, WindowFields
    <2> QED BY <1>1, <2>2, <2>3
<1>13. CASE MoveCursor BY <1>2, <1>8, <1>13, MovementEditsShown DEF MoveCursor
<1>14. CASE \E m \in Model : ClickMover(m)
    BY <1>3, <1>8, <1>14, MovementEditsShown DEF ClickMover
<1>15. CASE AddWaypoint BY <1>2, <1>8, <1>15, MovementEditsShown DEF AddWaypoint
<1>16. CASE RemoveWaypoint BY <1>2, <1>8, <1>16, MovementEditsShown DEF RemoveWaypoint
<1>17. CASE \E spot \in Spot \ {0} : PlaceModel(spot)
    BY <1>5, <1>8, <1>17, PlacementEditsShown DEF PlaceModel
<1>18. ASSUME NEW unit, NEW model, SelectAt(unit, model) PROVE Shown(ui')
    <2> DEFINE w == [Selecting(ui, unit, model) EXCEPT !.fs = WithHighlightForUnit(ui.fs, unit)]
    <2>1. Locally(SyncEditors(w)) BY <1>18 DEF SelectAt
    <2>2. Shown(w) BY SelectingShown, EditsShown
    <2> HIDE DEF w
    <2> QED BY <1>1, <2>1, <2>2, SyncEditorsShown
<1>19. CASE \E o \in OptionId : ContextMenu(o)
    BY <1>1, <1>7, <1>19, SendsShown DEF ContextMenu
<1>20. CASE PressFiniteOption BY <1>6, <1>20 DEF PressFiniteOption
<1>21. CASE PressSelectUnit
    <2>1. PICK b \in Pressed("select_unit") : Locally(SelectUnitFromHud(ui, b.ref))
        BY <1>21 DEF PressSelectUnit
    <2> DEFINE unit == b.ref
               w == Selecting(ui, unit, None)
               d == WithSelection(ui.movement, {1})
    <2>2. Shown(w) BY SelectingShown
    <2>3. Shown(SetFinite(w, WithHighlightForUnit(ui.fs, unit))) BY <2>2, SetFiniteShown
    <2>4. Shown(SyncEditors(w)) BY <2>2, SyncEditorsShown
    <2>5. ASSUME ui.movement # None PROVE Shown(Selecting([ui EXCEPT !.movement = d], unit, 1))
        <3>1. MovementShown(d) BY <1>8, <2>5, MovementEditsShown
        <3>2. Shown([ui EXCEPT !.movement = d]) BY <3>1, EditsShown
        <3> QED BY <3>2, SelectingShown
    <2>6. Shown(SelectUnitFromHud(ui, unit)) BY <2>3, <2>4, <2>5 DEF SelectUnitFromHud
    <2> QED BY <1>1, <2>1, <2>6
<1>22. CASE PressPlacementSubmit
    <2>1. CASE SubmitPlacement BY <2>1, SendsShown
    <2>2. CASE /\ ui.placement # None
               /\ Locally([ui EXCEPT !.placement = PlacementMarkedReady(ui.placement)])
        BY <1>4, <1>8, <2>2, PlacementEditsShown
    <2> QED BY <1>22, <2>1, <2>2 DEF PressPlacementSubmit
<1>23. CASE PressPlacementNext
    BY <1>5, <1>8, <1>23, PlacementEditsShown DEF PressPlacementNext
<1>24. CASE PressPlacementClear BY <1>4, <1>8, <1>24 DEF PressPlacementClear
<1>25. CASE PressAssignmentSubmit \/ PressAssignmentDecline
    BY <1>25, SendsShown DEF PressAssignmentSubmit, PressAssignmentDecline
<1>26. ASSUME NEW work, Locally([ui EXCEPT !.assignment = work]) PROVE Shown(ui')
    BY <1>1, <1>26, EditsShown
<1>27. CASE PressAssignmentClear BY <1>26, <1>27 DEF PressAssignmentClear
<1>28. CASE PressAssignmentSelect
    <2>1. ASSUME NEW work, NEW unit, NEW model,
                 Locally(Selecting([ui EXCEPT !.assignment = work], unit, model))
          PROVE  Shown(ui')
        <3>1. Shown([ui EXCEPT !.assignment = work]) BY EditsShown
        <3> QED BY <1>1, <2>1, <3>1, SelectingShown
    <2>2. CASE Locally(Refused(ui)) BY <1>1, <1>7, <2>2
    <2>3. CASE \E complete \in BOOLEAN :
                  Locally([ui EXCEPT !.assignment = WithChoice(ui.assignment, complete)])
        BY <1>26, <2>3
    <2>4. CASE \E complete \in BOOLEAN, unit \in Unit \cup {ui.unit} :
                LET chosen == IF ui.assignment.kind = "stratagem"
                              THEN ui.assignment ELSE WithChoice(ui.assignment, complete)
                IN  Locally(Selecting([ui EXCEPT !.assignment = chosen], unit,
                                      IF unit = ui.unit THEN ui.model ELSE None))
        BY <2>1, <2>4
    <2> QED BY <1>28, <2>2, <2>3, <2>4 DEF PressAssignmentSelect
<1>29. CASE Draw BY <1>1, <1>29, EditsShown DEF Draw
<1>30. CASE Close \/ UNCHANGED vars BY <1>30 DEF Close, vars
<1> QED BY <1>9, <1>10, <1>11, <1>12, <1>13, <1>14, <1>15, <1>16, <1>17, <1>18, <1>19, <1>20,
           <1>21, <1>22, <1>23, <1>24, <1>25, <1>27, <1>28, <1>29, <1>30 DEF Next

(* What Enter will send is what was reviewed: no edit, selection, cancel,   *)
(* rejection, switch of the player or failure leaves another payload behind *)
(* (MovementDraft.mark_ready, PlacementDraft.mark_ready and every caller of *)
(* their editing methods).                                                  *)
THEOREM SessionPayloadIsShown == Spec => []PayloadIsShown
<1> DEFINE Inv == Shown(ui)
<1>1. Inv => PayloadIsShown
    BY DEF Shown, MovementShown, PlacementShown, PayloadIsShown
<1>2. Init => Inv BY InitShown
<1>3. Inv /\ [Next]_vars => Inv' BY NextShown
<1> HIDE DEF Inv
<1> QED BY <1>1, <1>2, <1>3, PTL DEF Spec

-----------------------------------------------------------------------------
(* The engine is continued                                                 *)

(* Only an action that submits reaches the engine *)
LEMMA StepsAreSends ==
    ASSUME Next
    PROVE  \/ UNCHANGED <<engine, sent>>
           \/ SubmitMovement \/ SubmitPlacement
           \/ \E decline \in BOOLEAN : SubmitAssignment(decline)
           \/ \E choice : SubmitFinite(choice)
<1>1. ASSUME NEW u, Locally(u) PROVE UNCHANGED <<engine, sent>> BY <1>1 DEF Locally
<1>2. CASE CycleSelection BY <1>1, <1>2 DEF CycleSelection
<1>3. CASE \E models \in SUBSET Model : SelectMovers(models) BY <1>1, <1>3 DEF SelectMovers
<1>4. CASE Confirm BY <1>1, <1>4 DEF Confirm
<1>5. CASE Cancel \/ MoveCursor \/ AddWaypoint \/ RemoveWaypoint \/ Draw \/ PressPlacementClear
    BY <1>1, <1>5 DEF Cancel, MoveCursor, AddWaypoint, RemoveWaypoint, Draw, PressPlacementClear
<1>6. CASE \/ \E m \in Model : ClickMover(m)
           \/ \E spot \in Spot \ {0} : PlaceModel(spot)
    BY <1>1, <1>6 DEF ClickMover, PlaceModel
<1>7. CASE (\E u \in Unit, m \in Model : SelectAt(u, m)) \/ SelectAt(None, None)
    BY <1>1, <1>7 DEF SelectAt
<1>8. CASE \E o \in OptionId : ContextMenu(o) BY <1>1, <1>8 DEF ContextMenu
<1>9. CASE PressFiniteOption \/ PressSelectUnit BY <1>1, <1>9 DEF PressFiniteOption, PressSelectUnit
<1>10. CASE PressPlacementSubmit \/ PressPlacementNext
    BY <1>1, <1>10 DEF PressPlacementSubmit, PressPlacementNext
<1>11. CASE PressAssignmentSubmit \/ PressAssignmentDecline
    BY <1>11 DEF PressAssignmentSubmit, PressAssignmentDecline
<1>12. CASE PressAssignmentClear BY <1>1, <1>12 DEF PressAssignmentClear
<1>13. CASE PressAssignmentSelect BY <1>1, <1>13 DEF PressAssignmentSelect
<1>14. CASE Close BY <1>14 DEF Close
<1> QED BY <1>2, <1>3, <1>4, <1>5, <1>6, <1>7, <1>8, <1>9, <1>10, <1>11, <1>12, <1>13, <1>14 DEF Next

(* The engine asks again or is done after a continued answer *)
LEMMA ContinuedIsNotWorking ==
    ASSUME NEW e \in EngineState, e.req # None, NEW a \in ContinuedAnswers(e)
    PROVE  ~Working(a.engine)
<1>1. ASSUME NEW n \in EngineState, NEW c \in Continuations(n) PROVE ~Working(c.engine)
    <2>1. \/ \E f \in Forms : c = [status |-> "waiting_for_decision", engine |-> Asking(n, f)]
          \/ \E s \in {"terminal", "unsupported"} :
                  c = [status |-> s, engine |-> [n EXCEPT !.over = TRUE]]
        BY <1>1, Zenon DEF Continuations
    <2>2. CASE \E f \in Forms : c = [status |-> "waiting_for_decision", engine |-> Asking(n, f)]
        <3>1. PICK f \in Forms : c.engine = Asking(n, f) BY <2>2
        <3>2. c.engine.req = [id |-> n.issued + 1, form |-> f] BY <3>1 DEF Asking, EngineState
        <3>3. n.issued + 1 \in Nat \ {0} BY DEF EngineState
        <3>4. c.engine.req \in Decision BY <3>2, <3>3 DEF Decision
        <3> QED BY <3>4, NoDecisionAssumption DEF Working
    <2>3. CASE \E s \in {"terminal", "unsupported"} :
                  c = [status |-> s, engine |-> [n EXCEPT !.over = TRUE]]
        BY <2>3 DEF Working, EngineState
    <2> QED BY <2>1, <2>2, <2>3
<1>2. ASSUME NEW r \in Rejections(e) PROVE ~Working(r.engine)
    <2>1. PICK n \in Noted(e) : r.engine = n \/ r.engine = Asking(n, e.req.form)
        BY <1>2 DEF Rejections
    <2>2. n \in EngineState /\ n.req = e.req BY <2>1, NotedType
    <2>3. e.req.form \in Forms BY DEF EngineState, Decision
    <2>4. CASE r.engine = Asking(n, e.req.form)
        <3>1. r.engine.req = [id |-> n.issued + 1, form |-> e.req.form]
            BY <2>2, <2>4 DEF Asking, EngineState
        <3>2. n.issued + 1 \in Nat \ {0} BY <2>2 DEF EngineState
        <3>3. r.engine.req \in Decision BY <2>3, <3>1, <3>2 DEF Decision
        <3> QED BY <3>3, NoDecisionAssumption DEF Working
    <2> QED BY <2>1, <2>2, <2>4 DEF Working
<1>3. ASSUME NEW r \in Responses(e), r.status # "advanced" PROVE ~Working(r.engine)
    <2>1. CASE r \in Rejections(e) BY <1>2, <2>1
    <2>2. CASE \E n \in Applied(e) : r \in Continuations(n)
        <3>1. PICK n \in Applied(e) : r \in Continuations(n) BY <2>2
        <3>2. n \in EngineState BY <3>1, AppliedType
        <3> QED BY <1>1, <3>1, <3>2
    <2>3. \/ r \in Rejections(e)
          \/ \E n \in Applied(e) : r = [status |-> "advanced", engine |-> n] \/ r \in Continuations(n)
        BY <1>3 DEF Responses
    <2> QED BY <1>3, <2>1, <2>2, <2>3
<1>4. \/ \E r \in Responses(e) : r.status # "advanced" /\ a.engine = r.engine
      \/ \E r \in Responses(e) : r.status = "advanced" /\
              \E c \in Continuations(r.engine) : a.engine = c.engine
    BY DEF ContinuedAnswers
<1>5. CASE \E r \in Responses(e) : r.status = "advanced" /\
              \E c \in Continuations(r.engine) : a.engine = c.engine
    <2>1. PICK r \in Responses(e) : r.status = "advanced" /\
              \E c \in Continuations(r.engine) : a.engine = c.engine
        BY <1>5
    <2>2. r.engine \in EngineState BY <2>1, ResponsesReport DEF Reports
    <2> QED BY <1>1, <2>1, <2>2
<1> QED BY <1>3, <1>4, <1>5

(* A draft's submission leaves the engine asking, done, or the window failed *)
LEMMA DraftIsContinued ==
    ASSUME IInv, ui.fs.pending # None, ~ui.fatal, NEW record, NEW outcomes,
           outcomes \in {MovementOutcomes(ui, engine), PlacementOutcomes(ui, engine),
                         AssignmentOutcomes(ui, engine)},
           Sent(record, outcomes)
    PROVE  ui'.fatal \/ ~Working(engine')
<1>1. engine \in EngineState /\ engine.req # None BY DEF IInv, Consistent, ShowsEngine
<1>2. ui \in Window /\ FsOK(ui.fs) BY Parts
<1>3. Fatal(ui).fatal BY <1>2, FatalType
<1>4. \A a \in ContinuedAnswers(engine) : ~Working(a.engine) BY <1>1, ContinuedIsNotWorking
<1>5. \A o \in outcomes : o.ui.fatal \/ ~Working(o.engine)
    BY <1>3, <1>4 DEF MovementOutcomes, PlacementOutcomes, AssignmentOutcomes, Failures
<1> QED BY <1>5 DEF Sent

LEMMA NextNeverStranded ==
    ASSUME IInv, NeverStranded, [Next]_vars
    PROVE  NeverStranded'
<1>1. CASE UNCHANGED vars BY <1>1 DEF vars, NeverStranded, Working
<1>2. CASE ui.fatal /\ Next
    BY <1>2, FatalStutters DEF NeverStranded
<1>3. CASE ~ui.fatal /\ Next
    <2>1. CASE UNCHANGED <<engine, sent>>
        BY <1>3, <2>1 DEF NeverStranded, Working
    <2>2. ASSUME ui'.fatal \/ ~Working(engine') PROVE NeverStranded'
        BY <2>2 DEF NeverStranded, Working
    <2>3. ASSUME Locally(Refused(ui)) PROVE NeverStranded'
        BY <1>3, <2>3, <2>1 DEF Locally
    <2>4. CASE SubmitMovement
        BY <1>3, <2>2, <2>3, <2>4, DraftIsContinued DEF SubmitMovement, MovementSendable
    <2>5. CASE SubmitPlacement
        BY <1>3, <2>2, <2>3, <2>5, DraftIsContinued DEF SubmitPlacement, PlacementSendable
    <2>6. CASE \E decline \in BOOLEAN : SubmitAssignment(decline)
        BY <1>3, <2>2, <2>3, <2>6, DraftIsContinued DEF SubmitAssignment, AssignmentSendable
    <2>7. CASE \E choice : SubmitFinite(choice)
        <3>1. PICK choice : SubmitFinite(choice) BY <2>7
        <3>2. CASE ChosenOption(ui.fs, choice) = None
            BY <2>3, <3>1, <3>2 DEF SubmitFinite
        <3>3. CASE ChosenOption(ui.fs, choice) # None
            <4> DEFINE record == SendRecord(ui.fs.pending.id, 0, ChosenOption(ui.fs, choice))
            <4>1. sent' = Append(sent, record) BY <3>1, <3>3 DEF SubmitFinite, Sent
            <4>2. record.choice # None BY <3>3 DEF SendRecord
            <4> HIDE DEF record
            <4>3. sent \in Seq(Sends) BY DEF IInv
            <4>4. Len(sent') = Len(sent) + 1 /\ sent'[Len(sent')] = record /\ sent' # << >>
                BY <4>1, <4>3
            <4> QED BY <4>2, <4>4 DEF NeverStranded
        <3> QED BY <3>2, <3>3
    <2> QED BY <1>3, <2>1, <2>4, <2>5, <2>6, <2>7, StepsAreSends
<1> QED BY <1>1, <1>2, <1>3

(* A drafted answer is continued until the engine asks again or is done:    *)
(* only a finite answer can leave it waiting to be advanced                 *)
(* (status_after_submission and its three callers).                         *)
THEOREM SessionNeverStranded == Spec => []NeverStranded
<1>1. Init => NeverStranded
    <2> SUFFICES ASSUME Init PROVE NeverStranded
        OBVIOUS
    <2>1. IInv BY InitInv
    <2>2. engine \in StartEngines BY DEF Init
    <2>3. PICK f \in Forms : engine.req = [id |-> 1, form |-> f] BY <2>2 DEF StartEngines
    <2>4. engine.req \in Decision BY <2>3 DEF Decision
    <2> QED BY <2>4, NoDecisionAssumption DEF NeverStranded, Working
<1>2. IInv /\ NeverStranded /\ [Next]_vars => NeverStranded' BY NextNeverStranded
<1> QED BY <1>1, <1>2, Invariance, PTL DEF Spec

-----------------------------------------------------------------------------
(* What is sent is current                                                 *)

(* AnswersCurrent, of one submission *)
Current(s) ==
    /\ engine.req # None
    /\ s.request = engine.req.id /\ s.draftedFor = engine.req.id
    /\ engine.req.form.actor \in {None, s.viewer}
    /\ s.draftedAt \in {0, engine.rev}
    /\ s.choice # None =>
          \E i \in DOMAIN engine.req.form.options : engine.req.form.options[i] = s.choice

(* A record made for the pending request is current if it was drafted for   *)
(* it, on the shown projection, and chooses one of its options.             *)
LEMMA RecordIsCurrent ==
    ASSUME IInv, ~ui.fatal, ui.fs.pending # None, NEW at, at \in {0, ui.view.rev}, NEW choice,
           choice # None => Offers(ui.fs, choice)
    PROVE  Current(SendRecord(ui.fs.pending.id, at, choice))
<1>1. /\ ui.fs.pending = engine.req /\ ui.view.rev = engine.rev
      /\ engine.req.form.actor \in {None, ui.viewer}
    BY DEF IInv, Consistent, ShowsEngine
<1>2. choice # None =>
        \E i \in DOMAIN engine.req.form.options : engine.req.form.options[i] = choice
    BY <1>1 DEF Offers, FiniteOptions
<1> QED BY <1>1, <1>2 DEF Current, SendRecord

(* The highlighted option is one of the options of the request. *)
LEMMA ChosenIsOffered ==
    ASSUME NEW fs, FsOK(fs), NEW choice, ChosenOption(fs, choice) # None
    PROVE  Offers(fs, ChosenOption(fs, choice))
<1>1. FiniteOptions(fs) \in Seq(OptionId) BY OptionsType DEF FsOK
<1>2. CASE choice # None BY <1>2 DEF ChosenOption
<1>3. CASE choice = None
    <2>1. FiniteOptions(fs) # << >> /\ ChosenOption(fs, choice) = FiniteOptions(fs)[fs.hl + 1]
        BY <1>3 DEF ChosenOption, HighlightedOption
    <2>2. Len(FiniteOptions(fs)) \in Nat \ {0} BY <1>1, <2>1
    <2>3. fs.hl \in Nat BY DEF FsOK, FiniteState
    <2>4. fs.hl + 1 \in 1 .. Len(FiniteOptions(fs)) BY <2>2, <2>3 DEF FsOK
    <2>5. fs.hl + 1 \in DOMAIN FiniteOptions(fs) BY <1>1, <2>4
    <2> QED BY <2>1, <2>5 DEF Offers
<1> QED BY <1>2, <1>3

(* A submission appends a current record, or nothing. *)
LEMMA SendIsCurrent ==
    ASSUME IInv, NEW record, NEW outcomes, Sent(record, outcomes), Current(record)
    PROVE  Current(sent'[Len(sent')])
<1>1. sent \in Seq(Sends) /\ sent' = Append(sent, record) BY DEF IInv, Sent
<1>2. sent'[Len(sent')] = record BY <1>1
<1> QED BY <1>2

LEMMA NextAnswersCurrent ==
    ASSUME IInv, [Next]_vars, sent' # sent
    PROVE  Current(sent'[Len(sent')])
<1>1. Next BY DEF vars
<1>2. ~ui.fatal BY <1>1, FatalStutters
<1>3. ui \in Window /\ FsOK(ui.fs) /\ EditorsMatch(ui) BY Parts
<1>4. ProjectionHash(ui) = ui.view.rev
    BY <1>2, NoViewAssumption DEF IInv, Consistent, ShowsEngine, ProjectionHash
<1>5. ~Locally(Refused(ui)) BY DEF Locally
<1>6. CASE SubmitMovement
    <2>1. MovementSendable(ui) BY <1>5, <1>6 DEF SubmitMovement
    <2>2. ui.movement.req = ui.fs.pending.id /\ ui.movement.rev = ui.view.rev /\ ui.fs.pending # None
        BY <1>4, <2>1 DEF MovementSendable, MatchesMovement
    <2>3. Sent(SendRecord(ui.fs.pending.id, ui.view.rev, None), MovementOutcomes(ui, engine))
        BY <1>6, <2>1, <2>2 DEF SubmitMovement
    <2> QED BY <1>2, <2>2, <2>3, RecordIsCurrent, SendIsCurrent
<1>7. CASE SubmitPlacement
    <2>1. PlacementSendable(ui) BY <1>5, <1>7 DEF SubmitPlacement
    <2>2. ui.placement.req = ui.fs.pending.id /\ ui.placement.rev = ui.view.rev /\ ui.fs.pending # None
        BY <1>4, <2>1 DEF PlacementSendable, MatchesPlacement
    <2>3. Sent(SendRecord(ui.fs.pending.id, ui.view.rev, None), PlacementOutcomes(ui, engine))
        BY <1>7, <2>1, <2>2 DEF SubmitPlacement
    <2> QED BY <1>2, <2>2, <2>3, RecordIsCurrent, SendIsCurrent
<1>8. ASSUME NEW decline \in BOOLEAN, SubmitAssignment(decline)
      PROVE  Current(sent'[Len(sent')])
    <2>1. AssignmentSendable(ui, decline) BY <1>5, <1>8 DEF SubmitAssignment
    <2>2. ui.assignment.req = ui.fs.pending.id /\ ui.fs.pending # None
        BY <2>1 DEF AssignmentSendable, IsForAssignment
    <2>3. Sent(SendRecord(ui.fs.pending.id, 0, None), AssignmentOutcomes(ui, engine))
        BY <1>8, <2>1, <2>2 DEF SubmitAssignment
    <2> QED BY <1>2, <2>2, <2>3, RecordIsCurrent, SendIsCurrent
<1>9. ASSUME NEW choice, SubmitFinite(choice)
      PROVE  Current(sent'[Len(sent')])
    <2>1. ChosenOption(ui.fs, choice) # None /\ ui.fs.pending # None
        BY <1>5, <1>9 DEF SubmitFinite
    <2>2. Offers(ui.fs, ChosenOption(ui.fs, choice)) BY <1>3, <2>1, ChosenIsOffered
    <2>3. Sent(SendRecord(ui.fs.pending.id, 0, ChosenOption(ui.fs, choice)),
               FiniteOutcomes(ui, engine))
        BY <1>9, <2>1 DEF SubmitFinite
    <2> QED BY <1>2, <2>1, <2>2, <2>3, RecordIsCurrent, SendIsCurrent
<1> QED BY <1>1, <1>6, <1>7, <1>8, <1>9, StepsAreSends

(* Every submission answers the request the engine awaits, for its actor,   *)
(* with one of its options or with content drafted for this very request on *)
(* the engine's current state (the prepare_*_submission guards, and the     *)
(* refresh that reloads the projection for the next actor).                 *)
THEOREM SessionAnswersCurrent == Spec => AnswersCurrent
<1>1. ASSUME IInv, [Next]_vars
      PROVE  [sent' # sent => Current(sent'[Len(sent')])]_vars
    BY <1>1, NextAnswersCurrent
<1>2. ASSUME IInv, [Next]_vars
      PROVE  [sent' # sent =>
                LET s == sent'[Len(sent')]
                IN  /\ engine.req # None
                    /\ s.request = engine.req.id /\ s.draftedFor = engine.req.id
                    /\ engine.req.form.actor \in {None, s.viewer}
                    /\ s.draftedAt \in {0, engine.rev}
                    /\ s.choice # None =>
                          \E i \in DOMAIN engine.req.form.options :
                              engine.req.form.options[i] = s.choice]_vars
    BY <1>1, <1>2 DEF Current
<1> QED BY <1>2, Invariance, PTL DEF Spec, AnswersCurrent
-----------------------------------------------------------------------------
(* What an answer leaves alone                                             *)

(* A submission that did not fail shows the answer of the engine to it. *)
Answered(u, e, w, n) ==
    \E a \in DirectAnswers(e) \cup ContinuedAnswers(e) :
        /\ Reports(a.status, a.engine)
        /\ n = a.engine
        /\ w \in {AfterMovement(u, a), AfterPlacement(u, a), AfterAssignment(u, a), AfterFinite(u, a)}

LEMMA SendIsAnswered ==
    ASSUME IInv, [Next]_vars, sent' # sent, ~ui'.fatal
    PROVE  ~ui.fatal /\ ui.fs.pending # None /\ Answered(ui, engine, ui', engine')
<1>1. Next BY DEF vars
<1>2. ~ui.fatal BY <1>1, FatalStutters
<1>3. ~Locally(Refused(ui)) BY DEF Locally
<1>4. Fatal(ui).fatal BY Parts, FatalType
<1>5. ASSUME ui.fs.pending # None, NEW record, NEW outcomes, Sent(record, outcomes),
             outcomes \in {MovementOutcomes(ui, engine), PlacementOutcomes(ui, engine),
                           AssignmentOutcomes(ui, engine), FiniteOutcomes(ui, engine)}
      PROVE  Answered(ui, engine, ui', engine')
    <2>1. engine \in EngineState /\ engine.req # None
        BY <1>2, <1>5 DEF IInv, Consistent, ShowsEngine
    <2>2. \A a \in DirectAnswers(engine) \cup ContinuedAnswers(engine) : Reports(a.status, a.engine)
        BY <2>1, AnswersReport
    <2>3. PICK o \in outcomes : ui' = o.ui /\ engine' = o.engine BY <1>5 DEF Sent
    <2>4. \A answers : o \notin Failures(ui, engine, answers) BY <1>4, <2>3 DEF Failures
    <2>5. CASE outcomes = MovementOutcomes(ui, engine)
        BY <2>2, <2>3, <2>4, <2>5 DEF Answered, MovementOutcomes
    <2>6. CASE outcomes = PlacementOutcomes(ui, engine)
        BY <2>2, <2>3, <2>4, <2>6 DEF Answered, PlacementOutcomes
    <2>7. CASE outcomes = AssignmentOutcomes(ui, engine)
        BY <2>2, <2>3, <2>4, <2>7 DEF Answered, AssignmentOutcomes
    <2>8. CASE outcomes = FiniteOutcomes(ui, engine)
        BY <2>2, <2>3, <2>4, <2>8 DEF Answered, FiniteOutcomes
    <2> QED BY <1>5, <2>5, <2>6, <2>7, <2>8
<1>6. CASE SubmitMovement BY <1>2, <1>3, <1>5, <1>6 DEF SubmitMovement, MovementSendable
<1>7. CASE SubmitPlacement BY <1>2, <1>3, <1>5, <1>7 DEF SubmitPlacement, PlacementSendable
<1>8. CASE \E decline \in BOOLEAN : SubmitAssignment(decline)
    BY <1>2, <1>3, <1>5, <1>8 DEF SubmitAssignment, AssignmentSendable
<1>9. CASE \E choice : SubmitFinite(choice) BY <1>2, <1>3, <1>5, <1>9 DEF SubmitFinite
<1> QED BY <1>1, <1>6, <1>7, <1>8, <1>9, StepsAreSends

(* Pending stays, so the highlight stays. *)
LEMMA WithPendingFocus ==
    ASSUME NEW fs, FsOK(fs), fs.pending # None
    PROVE  WithPending(fs, fs.pending).hl = fs.hl
<1>1. HighlightAfter(fs.pending, fs.pending, fs.hl) = fs.hl BY DEF HighlightAfter
<1>2. [fs EXCEPT !.pending = fs.pending, !.hl = fs.hl] = fs BY DEF FsOK, FiniteState
<1>3. WithPending(fs, fs.pending) = Normalized(fs) BY <1>1, <1>2 DEF WithPending
<1> QED BY <1>3 DEF Normalized, FsOK, FiniteState

(* The refresh loads the projection of the actor of the next decision, and  *)
(* the same decision keeps the highlight.                                   *)
LEMMA RefreshedFocus ==
    ASSUME NEW fs, FsOK(fs), NEW status, NEW e, Reports(status, e), NEW viewer \in Player
    PROVE  /\ Refreshed(fs, status, e, viewer).view.viewer = RefreshViewer(e.req, viewer)
           /\ (fs.pending # None /\ e.req = fs.pending) =>
                Refreshed(fs, status, e, viewer).fs.hl = fs.hl
<1> DEFINE next  == RefreshViewer(e.req, viewer)
           start == IF next # viewer THEN WithoutEvents(fs) ELSE fs
           told  == WithStatus(start, status, e.req)
           shown == WithView(told, e.req)
           last  == WithEvents(shown, EventsSince(e, shown.cursor, next), Len(e.stream[next]))
<1>1. e \in EngineState /\ status \in StatusKinds BY DEF Reports
<1>2. ProjectedDecision(e, next) = e.req /\ StatusDecision(e, viewer) = e.req
    BY <1>1, ProjectionFollowsActor
<1>3. Refreshed(fs, status, e, viewer) = [fs |-> last, view |-> [viewer |-> next, rev |-> e.rev]]
    BY <1>2 DEF Refreshed
<1> HIDE DEF next
<1>4. ASSUME fs.pending # None, e.req = fs.pending
      PROVE  last.hl = fs.hl
    <2>1. status \notin {"unsupported", "terminal"} BY <1>4 DEF Reports
    <2>2. FsOK(start) /\ start.pending = fs.pending /\ start.hl = fs.hl
        <3>1. WithoutEvents(fs).pending = fs.pending /\ WithoutEvents(fs).hl = fs.hl
            BY DEF FsOK, FiniteState, WithoutEvents
        <3> QED BY <3>1, WithoutEventsType
    <2> HIDE DEF start
    <2>3. told = [WithPending(start, start.pending) EXCEPT !.status = status]
        BY <1>4, <2>1, <2>2 DEF WithStatus
    <2>4. WithPending(start, start.pending).hl = start.hl BY <1>4, <2>2, WithPendingFocus
    <2>5. start.pending \in VisibleDecision BY <2>2 DEF FsOK, FiniteState
    <2>6. /\ FsOK(WithPending(start, start.pending))
          /\ WithPending(start, start.pending).pending = start.pending
        BY <2>2, <2>5, WithPendingType
    <2>7. told.hl = start.hl /\ told.pending = start.pending /\ told.status = status
        BY <2>3, <2>4, <2>6 DEF FsOK, FiniteState
    <2>8. FsOK(told) BY <1>1, <1>4, <2>2, <2>5, WithStatusType
    <2> HIDE DEF told
    <2>9. status # "fatal" BY <1>1 DEF StatusKinds
    <2>10. shown = WithPending(told, told.pending)
        BY <1>4, <2>1, <2>2, <2>7, <2>9 DEF WithView
    <2>11. shown.hl = told.hl /\ FsOK(shown)
        BY <1>4, <2>2, <2>5, <2>7, <2>8, <2>10, WithPendingFocus, WithPendingType
    <2> HIDE DEF shown
    <2>12. last.hl = shown.hl BY <2>11 DEF FsOK, FiniteState, WithEvents
    <2> QED BY <2>2, <2>7, <2>11, <2>12
<1> QED BY <1>3, <1>4 DEF next

(* Synchronising the editors may put up a diagnostic, no more. *)
LEMMA SyncKeepsFocus ==
    ASSUME NEW u \in Window, FsOK(u.fs)
    PROVE  SyncEditors(u).fs.hl = u.fs.hl
<1>1. ASSUME NEW fs, FsOK(fs) PROVE LocalInvalid(fs).hl = fs.hl
    BY <1>1 DEF LocalInvalid, FsOK, FiniteState
<1> DEFINE m == SyncMovement(u)
           p == SyncPlacement(m)
           a == SyncAssignment(p)
<1>2. Step(u, m) /\ MovementBound(m) BY SyncMovementType
<1>3. m.fs \in {u.fs, LocalInvalid(u.fs)}
    BY DEF SyncMovement, WithMovement, Selecting, Window
<1>4. SyncEditors(u) = a BY DEF SyncEditors
<1> HIDE DEF m
<1>5. m \in Window /\ FsOK(m.fs) BY <1>2 DEF Step
<1>6. Step(m, p) BY <1>2, <1>5, SyncPlacementType
<1>7. p.fs \in {m.fs, LocalInvalid(m.fs)}
    BY <1>5 DEF SyncPlacement, WithPlacement, Selecting, Window
<1> HIDE DEF p
<1>8. a.fs = p.fs BY <1>6 DEF Step, SyncAssignment, Window
<1> HIDE DEF a
<1>9. m.fs.hl = u.fs.hl /\ p.fs.hl = m.fs.hl BY <1>1, <1>3, <1>5, <1>7
<1> QED BY <1>4, <1>8, <1>9

LEMMA SetFiniteKeepsFocus ==
    ASSUME NEW u \in Window, NEW fs, FsOK(fs)
    PROVE  SetFinite(u, fs).fs.hl = fs.hl
<1> DEFINE mid == [u EXCEPT !.fs = fs, !.hudLines = HudLines(u.hudLines, fs)]
           seen == FocusHighlighted(mid)
<1>1. HudLines(u.hudLines, fs) \in Seq(Nat) BY HudLinesType DEF Window
<1>2. mid \in Window /\ mid.fs = fs BY <1>1 DEF Window, FsOK
<1>3. SetFinite(u, fs) = SyncEditors(seen) BY DEF SetFinite
<1> HIDE DEF mid
<1>4. seen \in Window /\ seen.fs = fs BY <1>2, FocusHighlightedType
<1> HIDE DEF seen
<1> QED BY <1>3, <1>4, SyncKeepsFocus

(* Every answer is shown by setting the refreshed state on a window that    *)
(* has the refreshed view and, for another viewer, no selection or draft.   *)
Refreshing(u, a, w) ==
    LET r == Refreshed(Submitting(u.fs), a.status, a.engine, u.viewer)
    IN  /\ w \in Window
        /\ w.view = r.view /\ w.viewer = r.view.viewer
        /\ u.viewer # r.view.viewer => w.unit = None /\ w.movement = None /\ w.placement = None

LEMMA AfterRefreshing ==
    ASSUME NEW u \in Window, FsOK(u.fs), u.viewer \in Player,
           u.view # None, u.viewer = u.view.viewer, NEW a, Reports(a.status, a.engine),
           NEW s \in {AfterMovement(u, a), AfterPlacement(u, a), AfterAssignment(u, a),
                      AfterFinite(u, a)}
    PROVE  \E w : Refreshing(u, a, w)
                  /\ s = SetFinite(w, Refreshed(Submitting(u.fs), a.status, a.engine, u.viewer).fs)
<1> DEFINE r == Refreshed(Submitting(u.fs), a.status, a.engine, u.viewer)
           v == WithGameView(u, r.view, r.fs)
<1>1. FsOK(Submitting(u.fs)) BY SubmittingType
<1>2. ShowsEngine(r.fs, r.view, a.engine) BY <1>1, RefreshedType
<1> HIDE DEF r
<1>3. r.view \in Views /\ FsOK(r.fs) BY <1>2 DEF ShowsEngine
<1>4. v \in Window /\ v.view = r.view /\ v.viewer = r.view.viewer BY <1>3, WithGameViewType
<1>5. u.viewer # r.view.viewer => v.unit = None /\ v.movement = None /\ v.placement = None
    BY DEF WithGameView, Selecting, Window
<1> HIDE DEF v
<1>6. Refreshing(u, a, v) BY <1>4, <1>5 DEF Refreshing, r
<1>7. CASE s = AfterFinite(u, a)
    <2>1. s = SetFinite(v, r.fs) BY <1>7 DEF AfterFinite, r, v
    <2> QED BY <1>6, <2>1 DEF r
<1>8. CASE s = AfterPlacement(u, a)
    <2> DEFINE w == [v EXCEPT !.placement = None]
    <2>1. Refreshing(u, a, w) BY ZenonT(60), <1>4, <1>5 DEF Refreshing, Window, r
    <2>2. s = SetFinite(w, r.fs) BY <1>8 DEF AfterPlacement, r, v
    <2> HIDE DEF w
    <2> QED BY <2>1, <2>2 DEF r
<1>9. CASE s = AfterAssignment(u, a)
    <2> DEFINE w == IF a.submitted = "invalid" THEN v ELSE [v EXCEPT !.assignment = None]
    <2>1. Refreshing(u, a, [v EXCEPT !.assignment = None])
        BY ZenonT(60), <1>4, <1>5 DEF Refreshing, Window, r
    <2>2. s = SetFinite(w, r.fs) BY <1>9 DEF AfterAssignment, r, v
    <2>3. Refreshing(u, a, w) BY <1>6, <2>1
    <2> HIDE DEF w
    <2> QED BY <2>2, <2>3 DEF r
<1>10. CASE s = AfterMovement(u, a)
    <2> DEFINE kept == KeepsRejectedMovement(u, a, r)
               w == IF ~kept THEN [v EXCEPT !.movement = None]
                    ELSE IF v.movement # None
                         THEN [v EXCEPT !.movement = MovementReadyCleared(v.movement)] ELSE v
    <2>1. s = SetFinite(w, r.fs) BY <1>10 DEF AfterMovement, r, v
    <2> HIDE DEF kept
    <2>2. Refreshing(u, a, [v EXCEPT !.movement = None])
        BY ZenonT(60), <1>4, <1>5 DEF Refreshing, Window, r
    <2>3. ASSUME v.movement # None
          PROVE  Refreshing(u, a, [v EXCEPT !.movement = MovementReadyCleared(v.movement)])
        <3>1. MovementReadyCleared(v.movement) \in MovementDrafts
            BY <1>4, <2>3, MovementEdits DEF Window, SameMovement
        <3> QED BY ZenonT(60), <1>4, <1>5, <2>3, <3>1 DEF Refreshing, Window, r
    <2>4. Refreshing(u, a, w) BY <1>6, <2>2, <2>3
    <2> HIDE DEF w
    <2> QED BY <2>1, <2>4 DEF r
<1> QED BY <1>7, <1>8, <1>9, <1>10

(* An answer to the request that stays pending keeps the highlight. *)
LEMMA NextKeepsHighlight ==
    ASSUME IInv, [Next]_vars, sent' # sent, ~ui'.fatal, ui'.fs.pending = ui.fs.pending
    PROVE  HighlightedOption(ui'.fs) = HighlightedOption(ui.fs)
<1>1. ~ui.fatal /\ ui.fs.pending # None /\ Answered(ui, engine, ui', engine') BY SendIsAnswered
<1>2. PICK a : /\ Reports(a.status, a.engine)
               /\ ui' \in {AfterMovement(ui, a), AfterPlacement(ui, a), AfterAssignment(ui, a),
                            AfterFinite(ui, a)}
    BY <1>1 DEF Answered
<1>3. /\ ui \in Window /\ FsOK(ui.fs) /\ ui.viewer \in Player
      /\ ui.view # None /\ ui.viewer = ui.view.viewer
    BY <1>1, Parts, NoViewAssumption DEF Consistent, ShowsEngine, Views
<1> DEFINE fs == Submitting(ui.fs)
           r == Refreshed(fs, a.status, a.engine, ui.viewer)
<1>4. PICK w : Refreshing(ui, a, w) /\ ui' = SetFinite(w, r.fs) BY <1>2, <1>3, AfterRefreshing
<1>5. FsOK(fs) /\ fs.pending = ui.fs.pending /\ fs.hl = ui.fs.hl
    BY <1>3, SubmittingType DEF Submitting, FsOK, FiniteState
<1> HIDE DEF fs
<1>6. ShowsEngine(r.fs, r.view, a.engine) BY <1>2, <1>3, <1>5, RefreshedType
<1>7. a.engine.req = fs.pending => r.fs.hl = fs.hl BY <1>1, <1>2, <1>3, <1>5, RefreshedFocus
<1> HIDE DEF r
<1>8. FsOK(r.fs) /\ r.fs.pending = a.engine.req BY <1>6 DEF ShowsEngine
<1>9. w \in Window BY <1>4 DEF Refreshing
<1>10. Kept(r.fs, ui'.fs) /\ ui'.fs.hl = r.fs.hl
    BY <1>4, <1>8, <1>9, SetFiniteType, SetFiniteKeepsFocus
<1>11. ui'.fs.pending = ui.fs.pending /\ ui'.fs.hl = ui.fs.hl
    BY <1>5, <1>7, <1>8, <1>10 DEF Kept
<1> QED BY <1>11 DEF HighlightedOption, FiniteOptions

(* While the same request stays pending, an answer of the engine leaves the *)
(* highlighted option, and so what Enter would send, where it was           *)
(* (FiniteDecisionUiState.with_status, with_game_view and the normalisation *)
(* of the index in between).                                                *)
THEOREM SessionKeepsHighlight == Spec => RejectionKeepsHighlight
<1>1. ASSUME IInv, [Next]_vars
      PROVE  [(sent' # sent /\ ~ui'.fatal /\ ui'.fs.pending = ui.fs.pending) =>
                HighlightedOption(ui'.fs) = HighlightedOption(ui.fs)]_vars
    BY <1>1, NextKeepsHighlight
<1> QED BY <1>1, Invariance, PTL DEF Spec, RejectionKeepsHighlight

(* A refresh that shows another request highlights its first option. *)
LEMMA RefreshedStartsOver ==
    ASSUME NEW fs, FsOK(fs), NEW status, NEW e, Reports(status, e), NEW viewer \in Player,
           fs.pending # None, e.req # None, e.req.id # fs.pending.id
    PROVE  Refreshed(fs, status, e, viewer).fs.hl = 0
<1> DEFINE next  == RefreshViewer(e.req, viewer)
           start == IF next # viewer THEN WithoutEvents(fs) ELSE fs
           told  == WithStatus(start, status, e.req)
           shown == WithView(told, e.req)
           last  == WithEvents(shown, EventsSince(e, shown.cursor, next), Len(e.stream[next]))
<1>1. e \in EngineState /\ status \in StatusKinds BY DEF Reports
<1>2. ProjectedDecision(e, next) = e.req /\ StatusDecision(e, viewer) = e.req
    BY <1>1, ProjectionFollowsActor
<1>3. Refreshed(fs, status, e, viewer).fs = last BY <1>2 DEF Refreshed
<1> HIDE DEF next
<1>4. status \notin {"unsupported", "terminal", "fatal"} BY <1>1 DEF Reports, StatusKinds
<1>5. FsOK(start) /\ start.pending = fs.pending
    <2>1. WithoutEvents(fs).pending = fs.pending BY DEF FsOK, FiniteState, WithoutEvents
    <2> QED BY <2>1, WithoutEventsType
<1> HIDE DEF start
<1>6. e.req \in VisibleDecision BY <1>1, <1>2 DEF EngineState, VisibleDecision
<1>7. told = [WithPending(start, e.req) EXCEPT !.status = status] BY <1>4 DEF WithStatus
<1>8. WithPending(start, e.req).hl = 0
    <2>1. HighlightAfter(start.pending, e.req, start.hl) = 0 BY <1>5 DEF HighlightAfter
    <2> QED BY <1>5, <2>1 DEF WithPending, Normalized, FsOK, FiniteState
<1>9. FsOK(WithPending(start, e.req)) /\ WithPending(start, e.req).pending = e.req
    BY <1>5, <1>6, WithPendingType
<1>10. told.hl = 0 /\ told.pending = e.req /\ told.status = status
    BY <1>7, <1>8, <1>9 DEF FsOK, FiniteState
<1>11. FsOK(told) BY <1>1, <1>5, <1>6, WithStatusType
<1> HIDE DEF told
<1>12. shown = WithPending(told, told.pending) BY <1>4, <1>10 DEF WithView
<1>13. shown.hl = 0 /\ FsOK(shown)
    BY <1>6, <1>10, <1>11, <1>12, WithPendingFocus, WithPendingType
<1> HIDE DEF shown
<1>14. last.hl = shown.hl BY <1>13 DEF FsOK, FiniteState, WithEvents
<1> QED BY <1>3, <1>13, <1>14

(* Only a submission moves the engine. *)
LEMMA UnsentKeepsEngine ==
    ASSUME IInv, Next, sent' = sent
    PROVE  engine' = engine
<1>1. ASSUME NEW u, Locally(u) PROVE engine' = engine BY <1>1 DEF Locally
<1>2. ASSUME NEW record, NEW outcomes, Sent(record, outcomes) PROVE FALSE
    <2>1. sent \in Seq(Sends) /\ sent' = Append(sent, record) BY <1>2 DEF IInv, Sent
    <2>2. Len(sent') = Len(sent) + 1 /\ Len(sent) \in Nat BY <2>1
    <2> QED BY <2>2
<1>3. CASE SubmitMovement BY <1>1, <1>2, <1>3 DEF SubmitMovement
<1>4. CASE SubmitPlacement BY <1>1, <1>2, <1>4 DEF SubmitPlacement
<1>5. CASE \E decline \in BOOLEAN : SubmitAssignment(decline) BY <1>1, <1>2, <1>5 DEF SubmitAssignment
<1>6. CASE \E choice : SubmitFinite(choice) BY <1>1, <1>2, <1>6 DEF SubmitFinite
<1> QED BY <1>3, <1>4, <1>5, <1>6, StepsAreSends

LEMMA NextStartsOver ==
    ASSUME IInv, [Next]_vars, ui'.fs.pending # None,
           ui.fs.pending = None \/ ui'.fs.pending.id # ui.fs.pending.id
    PROVE  ui'.fs.hl = 0
<1>1. IInv' BY NextInv
<1>2. ~ui'.fatal /\ ui'.fs.pending = engine'.req
    BY <1>1 DEF IInv, Consistent, Quiet, ShowsEngine
<1>3. Next BY DEF vars
<1>4. ~ui.fatal BY <1>3, FatalStutters
<1>5. ui.fs.pending = engine.req BY <1>4 DEF IInv, Consistent, ShowsEngine
<1>6. sent' # sent BY <1>2, <1>3, <1>5, UnsentKeepsEngine
<1>7. ui.fs.pending # None /\ Answered(ui, engine, ui', engine') BY <1>2, <1>6, SendIsAnswered
<1>8. PICK a : /\ Reports(a.status, a.engine)
               /\ ui' \in {AfterMovement(ui, a), AfterPlacement(ui, a), AfterAssignment(ui, a),
                            AfterFinite(ui, a)}
    BY <1>7 DEF Answered
<1>9. /\ ui \in Window /\ FsOK(ui.fs) /\ ui.viewer \in Player
      /\ ui.view # None /\ ui.viewer = ui.view.viewer
    BY <1>4, Parts, NoViewAssumption DEF Consistent, ShowsEngine, Views
<1> DEFINE fs == Submitting(ui.fs)
           r == Refreshed(fs, a.status, a.engine, ui.viewer)
<1>10. PICK w : Refreshing(ui, a, w) /\ ui' = SetFinite(w, r.fs) BY <1>8, <1>9, AfterRefreshing
<1>11. FsOK(fs) /\ fs.pending = ui.fs.pending
    BY <1>9, SubmittingType DEF Submitting, FsOK, FiniteState
<1> HIDE DEF fs
<1>12. ShowsEngine(r.fs, r.view, a.engine) BY <1>8, <1>9, <1>11, RefreshedType
<1>13. (a.engine.req # None /\ a.engine.req.id # fs.pending.id) => r.fs.hl = 0
    BY <1>7, <1>8, <1>9, <1>11, RefreshedStartsOver
<1> HIDE DEF r
<1>14. FsOK(r.fs) /\ r.fs.pending = a.engine.req BY <1>12 DEF ShowsEngine
<1>15. w \in Window BY <1>10 DEF Refreshing
<1>16. Kept(r.fs, ui'.fs) /\ ui'.fs.hl = r.fs.hl
    BY <1>10, <1>14, <1>15, SetFiniteType, SetFiniteKeepsFocus
<1>17. ui'.fs.pending = a.engine.req BY <1>14, <1>16 DEF Kept
<1> QED BY <1>7, <1>11, <1>13, <1>16, <1>17

(* A request that becomes pending starts at its first option, whatever was  *)
(* highlighted in the one before (FiniteDecisionUiState.with_status and     *)
(* with_game_view, which compare the request ids).                          *)
THEOREM SessionStartsOver == Spec => FocusStartsOver
<1>1. ASSUME IInv, [Next]_vars
      PROVE  [(ui'.fs.pending # None
                  /\ (ui.fs.pending = None \/ ui'.fs.pending.id # ui.fs.pending.id)) =>
                ui'.fs.hl = 0]_vars
    BY <1>1, NextStartsOver
<1> QED BY <1>1, Invariance, PTL DEF Spec, FocusStartsOver
-----------------------------------------------------------------------------
(* Another player's projection                                             *)

(* A selection that is the focus of the shown decision or of an open draft *)
Focused(u) ==
    u.unit # None =>
        \/ u.unit = HighlightedOption(u.fs)
        \/ u.movement # None /\ u.movement.unit = u.unit
        \/ u.placement # None /\ u.placement.unit = u.unit

LEMMA SetFiniteFocuses ==
    ASSUME NEW u \in Window, NEW fs, FsOK(fs),
           u.unit = None, u.movement = None, u.placement = None
    PROVE  Focused(SetFinite(u, fs))
<1> DEFINE mid == [u EXCEPT !.fs = fs, !.hudLines = HudLines(u.hudLines, fs)]
           seen == FocusHighlighted(mid)
           m == SyncMovement(seen)
           p == SyncPlacement(m)
           a == SyncAssignment(p)
<1>1. HudLines(u.hudLines, fs) \in Seq(Nat) BY HudLinesType DEF Window
<1>2. mid \in Window /\ mid.fs = fs /\ mid.unit = None /\ mid.movement = None /\ mid.placement = None
    BY <1>1 DEF Window, FsOK
<1>3. SetFinite(u, fs) = a BY DEF SetFinite, SyncEditors
<1> HIDE DEF mid
<1>4. ASSUME NEW f, FsOK(f)
      PROVE  HighlightedOption(LocalInvalid(f)) = HighlightedOption(f)
    <2>1. LocalInvalid(f).pending = f.pending /\ LocalInvalid(f).hl = f.hl
        BY <1>4 DEF LocalInvalid, FsOK, FiniteState
    <2> QED BY <2>1 DEF HighlightedOption, FiniteOptions
<1>5. seen \in Window /\ seen.fs = fs /\ seen.movement = None /\ seen.placement = None
    BY <1>2, FocusHighlightedType
<1>6. Focused(seen)
    <2>1. CASE HighlightedOption(fs) \in Unit
        <3>1. seen = Selecting(mid, HighlightedOption(fs), None) BY <1>2, <2>1 DEF FocusHighlighted
        <3>2. seen.unit = HighlightedOption(fs) BY <1>2, <3>1 DEF Selecting, Window
        <3> QED BY <1>5, <3>2 DEF Focused
    <2>2. CASE HighlightedOption(fs) \notin Unit
        BY <1>2, <2>2 DEF FocusHighlighted, Focused
    <2> QED BY <2>1, <2>2
<1> HIDE DEF seen
<1>7. Step(seen, m) /\ MovementBound(m) BY <1>5, SyncMovementType
<1>8. Focused(m) /\ m.placement = None
    <2> DEFINE next == StartMovement(seen.fs.pending, ProjectionHash(seen), seen.unit, seen.model)
    <2>1. CASE MovementStartRaises(seen.fs.pending)
        <3>1. m = [seen EXCEPT !.movement = None, !.fs = LocalInvalid(fs)]
            BY <1>5, <2>1 DEF SyncMovement
        <3>2. m.unit = seen.unit /\ m.fs = LocalInvalid(fs) /\ m.movement = None /\ m.placement = None
            BY <1>5, <3>1 DEF Window
        <3> QED BY <1>4, <1>5, <1>6, <3>2 DEF Focused
    <2>2. CASE ~MovementStartRaises(seen.fs.pending) /\ next = None
        <3>1. m = [seen EXCEPT !.movement = None] BY <1>5, <2>2 DEF SyncMovement
        <3>2. m.unit = seen.unit /\ m.fs = seen.fs /\ m.movement = None /\ m.placement = None
            BY <1>5, <3>1 DEF Window
        <3> QED BY <1>5, <1>6, <3>2 DEF Focused
    <2>3. CASE ~MovementStartRaises(seen.fs.pending) /\ next # None
        <3>1. m = WithMovement(seen, next) BY <1>5, <2>3 DEF SyncMovement
        <3> HIDE DEF next
        <3>2. m.unit = next.unit /\ m.movement = next /\ m.placement = None
            BY <1>5, <3>1 DEF WithMovement, Selecting, Window
        <3> QED BY <2>3, <3>2 DEF Focused
    <2> QED BY <2>1, <2>2, <2>3
<1> HIDE DEF m
<1>9. m \in Window /\ FsOK(m.fs) BY <1>7 DEF Step
<1>10. Step(m, p) /\ MovementBound(p) /\ PlacementBound(p) BY <1>7, <1>9, SyncPlacementType
<1>11. Focused(p)
    <2> DEFINE next == StartPlacement(m.fs.pending, ProjectionHash(m))
    <2>1. CASE PlacementStartRaises(m.fs.pending)
        <3>1. p = [m EXCEPT !.placement = None, !.fs = LocalInvalid(m.fs)]
            BY <1>8, <2>1 DEF SyncPlacement
        <3>2. /\ p.unit = m.unit /\ p.fs = LocalInvalid(m.fs)
              /\ p.movement = m.movement /\ p.placement = None
            BY <1>9, <3>1 DEF Window
        <3> QED BY <1>4, <1>8, <1>9, <3>2 DEF Focused
    <2>2. CASE ~PlacementStartRaises(m.fs.pending) /\ next = None
        <3>1. p = [m EXCEPT !.placement = None] BY <1>8, <2>2 DEF SyncPlacement
        <3>2. p.unit = m.unit /\ p.fs = m.fs /\ p.movement = m.movement /\ p.placement = None
            BY <1>9, <3>1 DEF Window
        <3> QED BY <1>8, <3>2 DEF Focused
    <2>3. CASE ~PlacementStartRaises(m.fs.pending) /\ next # None
        <3>1. p = WithPlacement(m, next) BY <1>8, <2>3 DEF SyncPlacement
        <3> HIDE DEF next
        <3>2. p.unit = next.unit /\ p.placement = next
            BY <1>9, <3>1 DEF WithPlacement, Selecting, Window
        <3> QED BY <2>3, <3>2 DEF Focused
    <2> QED BY <2>1, <2>2, <2>3
<1> HIDE DEF p
<1>12. p \in Window BY <1>10 DEF Step
<1>13. Focused(a)
    <2> DEFINE next == StartAssignment(p.fs.pending)
    <2>1. CASE p.assignment # None /\ IsForAssignment(p.assignment, p.fs.pending)
        BY <1>11, <2>1 DEF SyncAssignment
    <2>2. CASE ~(p.assignment # None /\ IsForAssignment(p.assignment, p.fs.pending)) /\ next = None
        <3>1. a = [p EXCEPT !.assignment = None] BY <2>2 DEF SyncAssignment
        <3>2. a.unit = p.unit /\ a.fs = p.fs /\ a.movement = p.movement /\ a.placement = p.placement
            BY <1>12, <3>1 DEF Window
        <3> QED BY <1>11, <3>2 DEF Focused
    <2>3. CASE ~(p.assignment # None /\ IsForAssignment(p.assignment, p.fs.pending)) /\ next # None
        <3>1. p.fs.pending.form.proposal \in {"shooting", "melee", "stratagem"}
            BY <2>3 DEF StartAssignment, Assignable
        <3>2. p.movement = None /\ p.placement = None
            BY <1>10, <3>1
            DEF MovementBound, IsForMovement, MatchesMovement, PlacementBound, MatchesPlacement
        <3>3. a = [p EXCEPT !.assignment = next, !.movement = None, !.placement = None]
            BY <2>3 DEF SyncAssignment
        <3>4. a.unit = p.unit /\ a.fs = p.fs /\ a.movement = p.movement /\ a.placement = p.placement
            BY <1>12, <3>2, <3>3 DEF Window
        <3> QED BY <1>11, <3>4 DEF Focused
    <2> QED BY <2>1, <2>2, <2>3
<1> QED BY <1>3, <1>13

(* A handler that does not submit keeps the player whose view is loaded. *)
SameViewer(u, w) == "viewer" \in DOMAIN u => "viewer" \in DOMAIN w /\ w.viewer = u.viewer

LEMMA EditsKeepViewer ==
    ASSUME NEW u, NEW d
    PROVE  /\ SameViewer(u, [u EXCEPT !.movement = d])
           /\ SameViewer(u, [u EXCEPT !.placement = d])
           /\ SameViewer(u, [u EXCEPT !.assignment = d])
           /\ SameViewer(u, [u EXCEPT !.fs = d])
           /\ SameViewer(u, [u EXCEPT !.drawn = d])
           /\ \A unit, model : SameViewer(u, Selecting(u, unit, model))
           /\ \A unit, model : SameViewer(u, Selecting([u EXCEPT !.movement = d], unit, model))
           /\ \A unit, model : SameViewer(u, Selecting([u EXCEPT !.placement = d], unit, model))
           /\ \A unit, model : SameViewer(u, Selecting([u EXCEPT !.assignment = d], unit, model))
BY DEF SameViewer, Selecting

LEMMA SyncKeepsViewer ==
    ASSUME NEW u
    PROVE  /\ SameViewer(u, SyncMovement(u))
           /\ SameViewer(u, SyncEditors(u))
           /\ \A fs : SameViewer(u, SetFinite(u, fs))
<1>1. \A w : SameViewer(w, SyncMovement(w))
    BY DEF SameViewer, SyncMovement, WithMovement, Selecting
<1>2. \A w : SameViewer(w, SyncPlacement(w))
    BY DEF SameViewer, SyncPlacement, WithPlacement, Selecting
<1>3. \A w : SameViewer(w, SyncAssignment(w))
    BY DEF SameViewer, SyncAssignment
<1>4. \A w : SameViewer(w, SyncEditors(w))
    <2> TAKE w
    <2>1. /\ SameViewer(w, SyncMovement(w))
          /\ SameViewer(SyncMovement(w), SyncPlacement(SyncMovement(w)))
          /\ SameViewer(SyncPlacement(SyncMovement(w)), SyncEditors(w))
        BY <1>1, <1>2, <1>3 DEF SyncEditors
    <2> QED BY <2>1 DEF SameViewer
<1>5. ASSUME NEW fs PROVE SameViewer(u, SetFinite(u, fs))
    <2> DEFINE mid == [u EXCEPT !.fs = fs, !.hudLines = HudLines(u.hudLines, fs)]
    <2>1. SameViewer(u, mid) BY DEF SameViewer
    <2>2. SetFinite(u, fs) = SyncEditors(FocusHighlighted(mid)) BY DEF SetFinite
    <2> HIDE DEF mid
    <2>3. SameViewer(mid, FocusHighlighted(mid))
        <3>1. SameViewer(mid, mid) BY DEF SameViewer
        <3> QED BY <3>1, EditsKeepViewer DEF FocusHighlighted
    <2>4. SameViewer(FocusHighlighted(mid), SyncEditors(FocusHighlighted(mid))) BY <1>4
    <2> QED BY <2>1, <2>2, <2>3, <2>4 DEF SameViewer
<1> QED BY <1>1, <1>4, <1>5

LEMMA LocalKeepsViewer ==
    ASSUME Next, "viewer" \in DOMAIN ui
    PROVE  \/ ui'.viewer = ui.viewer
           \/ SubmitMovement \/ SubmitPlacement
           \/ \E decline \in BOOLEAN : SubmitAssignment(decline)
           \/ \E choice : SubmitFinite(choice)
<1>1. ASSUME NEW u, Locally(u), SameViewer(ui, u) PROVE ui'.viewer = ui.viewer
    BY <1>1 DEF Locally, SameViewer
<1>2. CASE CycleSelection
    BY <1>1, <1>2, EditsKeepViewer, SyncKeepsViewer DEF CycleSelection
<1>3. CASE \E models \in SUBSET Model : SelectMovers(models)
    BY <1>1, <1>3, EditsKeepViewer DEF SelectMovers
<1>4. SameViewer(ui, Refused(ui)) BY SyncKeepsViewer DEF Refused
<1>5. CASE Confirm
    <2>1. CASE /\ ui.movement # None
               /\ \E moves \in BOOLEAN : Locally([ui EXCEPT !.movement = MovementMarkedReady(ui.movement, moves)])
        BY <1>1, <2>1, EditsKeepViewer
    <2>2. CASE Locally([ui EXCEPT !.placement = PlacementMarkedReady(ui.placement)])
        BY <1>1, <2>2, EditsKeepViewer
    <2>3. CASE LET u == SyncMovement(ui)
               IN  Locally(IF u.movement = None THEN Refused(u) ELSE u)
        <3>1. SameViewer(ui, SyncMovement(ui)) BY SyncKeepsViewer
        <3>2. SameViewer(SyncMovement(ui), Refused(SyncMovement(ui)))
            BY SyncKeepsViewer DEF Refused
        <3>3. SameViewer(ui, Refused(SyncMovement(ui))) BY <3>1, <3>2 DEF SameViewer
        <3> QED BY <1>1, <2>3, <3>1, <3>3
    <2> QED BY <1>5, <2>1, <2>2, <2>3 DEF Confirm
<1>6. CASE Cancel
    <2>1. PICK moves \in BOOLEAN :
               Locally([ui EXCEPT !.movement = CancelledMovement(ui.movement, moves), !.placement = None,
                                  !.assignment = None])
        BY <1>6 DEF Cancel
    <2> DEFINE w == [ui EXCEPT !.movement = CancelledMovement(ui.movement, moves),
                               !.placement = None, !.assignment = None]
    <2>2. Locally(w) BY <2>1
    <2>3. SameViewer(ui, w) BY DEF SameViewer
    <2> HIDE DEF w
    <2> QED BY <1>1, <2>2, <2>3
<1>7. CASE MoveCursor BY <1>1, <1>7, EditsKeepViewer DEF MoveCursor
<1>8. CASE \E m \in Model : ClickMover(m) BY <1>1, <1>8, EditsKeepViewer DEF ClickMover
<1>9. CASE AddWaypoint \/ RemoveWaypoint
    BY <1>1, <1>9, EditsKeepViewer DEF AddWaypoint, RemoveWaypoint
<1>10. CASE \E spot \in Spot \ {0} : PlaceModel(spot)
    BY <1>1, <1>10, EditsKeepViewer DEF PlaceModel
<1>11. ASSUME NEW unit, NEW model, SelectAt(unit, model) PROVE ui'.viewer = ui.viewer
    <2> DEFINE w == [Selecting(ui, unit, model) EXCEPT !.fs = WithHighlightForUnit(ui.fs, unit)]
    <2>1. Locally(SyncEditors(w)) BY <1>11 DEF SelectAt
    <2>2. SameViewer(ui, w) BY DEF SameViewer, Selecting
    <2> HIDE DEF w
    <2>3. SameViewer(w, SyncEditors(w)) BY SyncKeepsViewer
    <2>4. SameViewer(ui, SyncEditors(w)) BY <2>2, <2>3 DEF SameViewer
    <2> QED BY <1>1, <2>1, <2>4
<1>12. CASE \E o \in OptionId : ContextMenu(o) BY <1>1, <1>4, <1>12 DEF ContextMenu
<1>13. CASE PressFiniteOption BY <1>1, <1>13, SyncKeepsViewer DEF PressFiniteOption
<1>14. CASE PressSelectUnit
    <2>1. PICK b \in Pressed("select_unit") : Locally(SelectUnitFromHud(ui, b.ref))
        BY <1>14 DEF PressSelectUnit
    <2> DEFINE unit == b.ref
               w == Selecting(ui, unit, None)
               d == WithSelection(ui.movement, {1})
    <2>2. SameViewer(ui, w) BY EditsKeepViewer
    <2> HIDE DEF w
    <2>3. SameViewer(w, SetFinite(w, WithHighlightForUnit(ui.fs, unit))) /\ SameViewer(w, SyncEditors(w))
        BY SyncKeepsViewer
    <2>4. SameViewer(ui, Selecting([ui EXCEPT !.movement = d], unit, 1)) BY EditsKeepViewer
    <2>5. SelectUnitFromHud(ui, unit) \in
            {SetFinite(w, WithHighlightForUnit(ui.fs, unit)),
             Selecting([ui EXCEPT !.movement = d], unit, 1), SyncEditors(w)}
        BY DEF SelectUnitFromHud, w
    <2>6. SameViewer(ui, SelectUnitFromHud(ui, unit)) BY <2>2, <2>3, <2>4, <2>5 DEF SameViewer
    <2> QED BY <1>1, <2>1, <2>6
<1>15. CASE PressPlacementSubmit BY <1>1, <1>15, EditsKeepViewer DEF PressPlacementSubmit
<1>16. CASE PressPlacementNext BY <1>1, <1>16, EditsKeepViewer DEF PressPlacementNext
<1>17. CASE PressPlacementClear BY <1>1, <1>17, EditsKeepViewer DEF PressPlacementClear
<1>18. CASE PressAssignmentSubmit \/ PressAssignmentDecline
    BY <1>18 DEF PressAssignmentSubmit, PressAssignmentDecline
<1>19. CASE PressAssignmentClear BY <1>1, <1>19, EditsKeepViewer DEF PressAssignmentClear
<1>20. CASE PressAssignmentSelect
    BY <1>1, <1>4, <1>20, EditsKeepViewer DEF PressAssignmentSelect
<1>21. CASE Draw BY <1>1, <1>21, EditsKeepViewer DEF Draw
<1>22. CASE Close BY <1>22 DEF Close
<1> QED BY <1>2, <1>3, <1>5, <1>6, <1>7, <1>8, <1>9, <1>10, <1>11, <1>12, <1>13, <1>14, <1>15,
           <1>16, <1>17, <1>18, <1>19, <1>20, <1>21, <1>22 DEF Next

(* A step that loads another player's projection submits. *)
LEMMA SwitchIsSend ==
    ASSUME IInv, [Next]_vars, ui'.viewer # ui.viewer
    PROVE  sent' # sent
<1>1. Next BY DEF vars
<1>2. ~ui.fatal BY <1>1, FatalStutters
<1>3. "viewer" \in DOMAIN ui BY Parts DEF Window
<1>4. ~Locally(Refused(ui))
    <2>1. SameViewer(ui, Refused(ui)) BY SyncKeepsViewer DEF Refused
    <2> QED BY <1>3, <2>1 DEF Locally, SameViewer
<1>5. ASSUME NEW record, NEW outcomes, Sent(record, outcomes) PROVE sent' # sent
    <2>1. sent \in Seq(Sends) /\ sent' = Append(sent, record) BY <1>5 DEF IInv, Sent
    <2>2. Len(sent') = Len(sent) + 1 /\ Len(sent) \in Nat BY <2>1
    <2> QED BY <2>2
<1>6. CASE SubmitMovement BY <1>4, <1>5, <1>6 DEF SubmitMovement
<1>7. CASE SubmitPlacement BY <1>4, <1>5, <1>7 DEF SubmitPlacement
<1>8. CASE \E decline \in BOOLEAN : SubmitAssignment(decline) BY <1>4, <1>5, <1>8 DEF SubmitAssignment
<1>9. CASE \E choice : SubmitFinite(choice) BY <1>4, <1>5, <1>9 DEF SubmitFinite
<1> QED BY <1>1, <1>3, <1>6, <1>7, <1>8, <1>9, LocalKeepsViewer

LEMMA NextForgetsSelection ==
    ASSUME IInv, [Next]_vars, ui'.viewer # ui.viewer
    PROVE  Focused(ui')
<1>1. sent' # sent BY SwitchIsSend
<1>2. CASE ui'.fatal
    <2>1. IInv' BY NextInv
    <2> QED BY <1>2, <2>1 DEF IInv, Consistent, Quiet, Focused
<1>3. CASE ~ui'.fatal
    <2>1. ~ui.fatal /\ Answered(ui, engine, ui', engine') BY <1>1, <1>3, SendIsAnswered
    <2>2. PICK a : /\ Reports(a.status, a.engine)
                   /\ ui' \in {AfterMovement(ui, a), AfterPlacement(ui, a),
                                AfterAssignment(ui, a), AfterFinite(ui, a)}
        BY <2>1 DEF Answered
    <2>3. /\ ui \in Window /\ FsOK(ui.fs) /\ ui.viewer \in Player
          /\ ui.view # None /\ ui.viewer = ui.view.viewer
        BY <2>1, Parts, NoViewAssumption DEF Consistent, ShowsEngine, Views
    <2> DEFINE r == Refreshed(Submitting(ui.fs), a.status, a.engine, ui.viewer)
    <2>4. PICK w : Refreshing(ui, a, w) /\ ui' = SetFinite(w, r.fs) BY <2>2, <2>3, AfterRefreshing
    <2>5. FsOK(Submitting(ui.fs)) BY <2>3, SubmittingType
    <2>6. FsOK(r.fs) BY <2>2, <2>3, <2>5, RefreshedType DEF ShowsEngine
    <2>7. w \in Window /\ w.viewer = r.view.viewer BY <2>4 DEF Refreshing
    <2>8. ui.viewer # r.view.viewer => w.unit = None /\ w.movement = None /\ w.placement = None
        BY <2>4 DEF Refreshing
    <2> HIDE DEF r
    <2>9. ui'.viewer = w.viewer BY <2>4, <2>6, <2>7, SetFiniteType
    <2> QED BY <2>4, <2>6, <2>7, <2>8, <2>9, SetFiniteFocuses
<1> QED BY <1>2, <1>3

(* When the loaded projection becomes another player's, what stays selected *)
(* is the new focus or the new draft's unit, nothing of the former player's *)
(* (_apply_refreshed_game_view and the synchronisation that follows).       *)
THEOREM SessionForgetsSelection == Spec => SwitchForgetsSelection
<1>1. ASSUME IInv, [Next]_vars
      PROVE  [(ui'.viewer # ui.viewer /\ ui'.unit # None) =>
                \/ ui'.unit = HighlightedOption(ui'.fs)
                \/ ui'.movement # None /\ ui'.movement.unit = ui'.unit
                \/ ui'.placement # None /\ ui'.placement.unit = ui'.unit]_vars
    BY <1>1, NextForgetsSelection DEF Focused
<1> QED BY <1>1, Invariance, PTL DEF Spec, SwitchForgetsSelection
-----------------------------------------------------------------------------
(* A rejected movement                                                     *)

(* An applied answer changes the state of the engine for good. *)
LEMMA AppliedMovesOn ==
    ASSUME NEW e \in EngineState, NEW n \in Applied(e)
    PROVE  n \in EngineState /\ n.rev > e.rev
<1> DEFINE done == [e EXCEPT !.req = None, !.rev = e.rev + 1]
<1>1. e.rev + 1 \in Nat \ {0} BY DEF EngineState
<1>2. done \in EngineState /\ done.rev = e.rev + 1 BY <1>1 DEF EngineState
<1>3. n = done \/ \E a \in Audiences : n = Recorded(done, a) BY DEF Applied
<1> HIDE DEF done
<1>4. \A a \in Audiences : Recorded(done, a).rev = done.rev + 1
    BY <1>2 DEF Recorded, EngineState
<1>5. e.rev \in Nat BY DEF EngineState
<1> QED BY <1>2, <1>3, <1>4, <1>5, AppliedType

LEMMA ContinuationsStay ==
    ASSUME NEW e \in EngineState, NEW c \in Continuations(e)
    PROVE  c.engine.rev = e.rev
<1>1. \/ \E f \in Forms : c = [status |-> "waiting_for_decision", engine |-> Asking(e, f)]
      \/ \E s \in {"terminal", "unsupported"} :
              c = [status |-> s, engine |-> [e EXCEPT !.over = TRUE]]
    BY Zenon DEF Continuations
<1>2. CASE \E f \in Forms : c = [status |-> "waiting_for_decision", engine |-> Asking(e, f)]
    <2>1. PICK f \in Forms : c.engine = Asking(e, f) BY <1>2
    <2> QED BY <2>1 DEF Asking, EngineState
<1>3. CASE \E s \in {"terminal", "unsupported"} :
              c = [status |-> s, engine |-> [e EXCEPT !.over = TRUE]]
    BY <1>3 DEF EngineState
<1> QED BY <1>1, <1>2, <1>3

(* So an answer that leaves the engine's state as it was is a rejection. *)
LEMMA SameStateIsRejection ==
    ASSUME NEW e \in EngineState, e.req # None, NEW a \in ContinuedAnswers(e),
           a.engine.rev = e.rev
    PROVE  a.submitted = "invalid"
<1>1. e.rev \in Nat BY DEF EngineState
<1>2. ASSUME NEW r \in Responses(e), r.status # "invalid"
      PROVE  r.engine \in EngineState /\ r.engine.rev > e.rev
    <2>1. r \notin Rejections(e) BY <1>2 DEF Rejections
    <2>2. PICK n \in Applied(e) : r = [status |-> "advanced", engine |-> n] \/ r \in Continuations(n)
        BY <2>1 DEF Responses
    <2>3. n \in EngineState /\ n.rev > e.rev BY AppliedMovesOn
    <2>4. r.engine.rev = n.rev BY <2>2, <2>3, ContinuationsStay
    <2>5. r.engine \in EngineState BY ResponsesReport DEF Reports
    <2> QED BY <2>3, <2>4, <2>5
<1>3. CASE \E r \in Responses(e) : /\ r.status # "advanced"
                                  /\ a.submitted = r.status /\ a.engine = r.engine
    BY <1>1, <1>2, <1>3 DEF EngineState
<1>4. CASE \E r \in Responses(e) : /\ r.status = "advanced"
                                  /\ \E c \in Continuations(r.engine) : a.engine = c.engine
    <2>1. PICK r \in Responses(e) : /\ r.status = "advanced"
                                   /\ \E c \in Continuations(r.engine) : a.engine = c.engine
        BY <1>4
    <2>2. r.engine \in EngineState /\ r.engine.rev > e.rev BY <1>2, <2>1
    <2>3. a.engine.rev = r.engine.rev BY <2>1, <2>2, ContinuationsStay
    <2> QED BY <1>1, <2>2, <2>3 DEF EngineState
<1> QED BY <1>3, <1>4 DEF ContinuedAnswers

(* Only its own submission can answer the request of an open movement draft. *)
LEMMA MovementSendsItself ==
    ASSUME IInv, [Next]_vars, sent' # sent, ui.movement # None
    PROVE  MovementSendable(ui) /\ SubmitMovement
<1>1. Next BY DEF vars
<1>2. ~ui.fatal BY <1>1, FatalStutters
<1>3. ~Locally(Refused(ui)) BY DEF Locally
<1>4. ui \in Window /\ FsOK(ui.fs) /\ EditorsMatch(ui) BY Parts
<1>5. ui.placement = None /\ ui.assignment = None BY <1>4, OneEditor
<1>6. ~SubmitPlacement BY <1>3, <1>5 DEF SubmitPlacement, PlacementSendable
<1>7. \A decline \in BOOLEAN : ~SubmitAssignment(decline)
    BY <1>3, <1>5 DEF SubmitAssignment, AssignmentSendable
<1>8. \A choice : ~SubmitFinite(choice)
    <2>1. ui.fs.pending # None /\ ui.fs.pending.form.proposal = "movement"
        BY <1>4 DEF EditorsMatch, MovementBound, IsForMovement, MatchesMovement
    <2>2. ui.fs.pending \in Decision
        BY <1>4, <2>1 DEF FsOK, FiniteState, VisibleDecision, HiddenDecision, HiddenForm
    <2>3. ui.fs.pending.form.parameterized BY <2>1, <2>2, ProposalAssumption DEF Decision
    <2> QED BY <1>3, <2>3 DEF SubmitFinite, ChosenOption
<1>9. SubmitMovement BY <1>1, <1>6, <1>7, <1>8, StepsAreSends
<1> QED BY <1>3, <1>9 DEF SubmitMovement

(* Setting a state that still awaits the drafted movement keeps the draft. *)
LEMMA SetFiniteKeepsMovement ==
    ASSUME NEW u \in Window, NEW fs, FsOK(fs), u.movement # None, u.placement = None,
           IsForMovement(u.movement, u.unit, fs.pending, ProjectionHash(u)),
           fs.pending.form.parameterized
    PROVE  SetFinite(u, fs).movement = u.movement
<1> DEFINE mid == [u EXCEPT !.fs = fs, !.hudLines = HudLines(u.hudLines, fs)]
           p == SyncPlacement(mid)
           a == SyncAssignment(p)
<1>1. HudLines(u.hudLines, fs) \in Seq(Nat) BY HudLinesType DEF Window
<1>2. /\ mid \in Window /\ mid.fs = fs /\ mid.movement = u.movement /\ mid.placement = None
      /\ mid.unit = u.unit /\ ProjectionHash(mid) = ProjectionHash(u)
    BY <1>1 DEF Window, FsOK, ProjectionHash
<1>3. SetFinite(u, fs) = SyncEditors(FocusHighlighted(mid)) BY DEF SetFinite
<1> HIDE DEF mid
<1>4. fs.pending.form.proposal = "movement" BY DEF IsForMovement, MatchesMovement
<1>5. FocusHighlighted(mid) = mid
    <2>1. HighlightedOption(fs) = None BY DEF HighlightedOption, FiniteOptions
    <2> QED BY <1>2, <2>1, NothingAssumption DEF FocusHighlighted
<1>6. SyncMovement(mid) = mid BY <1>2 DEF SyncMovement
<1>7. SetFinite(u, fs) = a BY <1>3, <1>5, <1>6 DEF SyncEditors
<1>8. p = [mid EXCEPT !.placement = None]
    BY <1>2, <1>4 DEF SyncPlacement, PlacementStartRaises, StartPlacement, DraftsPlacement
<1>9. p \in Window /\ p.movement = u.movement /\ p.fs = fs BY <1>2, <1>8 DEF Window
<1> HIDE DEF p
<1>10. a = p \/ a = [p EXCEPT !.assignment = None]
    BY <1>4, <1>9 DEF SyncAssignment, StartAssignment, Assignable
<1>11. a.movement = p.movement BY <1>9, <1>10 DEF Window
<1> QED BY <1>7, <1>9, <1>11

LEMMA NextKeepsPaths ==
    ASSUME IInv, [Next]_vars, sent' # sent, ui.movement # None, ~ui'.fatal,
           engine'.req = engine.req, engine'.rev = engine.rev
    PROVE  /\ ui'.movement # None /\ ui'.movement.way = ui.movement.way
           /\ ~MovementReady(ui'.movement)
<1>1. MovementSendable(ui) /\ SubmitMovement BY MovementSendsItself
<1>2. ~ui.fatal BY FatalStutters DEF vars
<1>3. /\ ui \in Window /\ FsOK(ui.fs) /\ EditorsMatch(ui) /\ engine \in EngineState
      /\ ui.movement \in MovementDrafts
    BY Parts DEF IInv
<1>4. /\ ShowsEngine(ui.fs, ui.view, engine) /\ ui.viewer = ui.view.viewer /\ ui.viewer \in Player
      /\ ui.view # None
    BY <1>2, NoViewAssumption DEF IInv, Consistent, ShowsEngine, Views
<1>5. /\ ui.fs.pending = engine.req /\ engine.req # None /\ engine.req.form.parameterized
      /\ ui.movement.req = engine.req.id /\ engine.req.form.actor \in {None, ui.viewer}
    BY <1>1, <1>4 DEF MovementSendable, MatchesMovement, ShowsEngine
<1>6. PICK a \in ContinuedAnswers(engine) : ui' = AfterMovement(ui, a) /\ engine' = a.engine
    <2>1. PICK o \in MovementOutcomes(ui, engine) : ui' = o.ui /\ engine' = o.engine
        BY <1>1 DEF SubmitMovement, Sent
    <2>2. Fatal(ui).fatal BY <1>3, FatalType
    <2>3. o \notin Failures(ui, engine, ContinuedAnswers(engine)) BY <2>1, <2>2 DEF Failures
    <2> QED BY <2>1, <2>3 DEF MovementOutcomes
<1>7. Reports(a.status, a.engine) BY <1>3, <1>5, AnswersReport
<1>8. a.submitted = "invalid" BY <1>3, <1>5, <1>6, SameStateIsRejection
<1> DEFINE r == Refreshed(Submitting(ui.fs), a.status, a.engine, ui.viewer)
           v == WithGameView(ui, r.view, r.fs)
           d == MovementReadyCleared(ui.movement)
           w == [v EXCEPT !.movement = d]
<1>9. FsOK(Submitting(ui.fs)) BY <1>3, SubmittingType
<1>10. ShowsEngine(r.fs, r.view, a.engine) /\ r.view.viewer = RefreshViewer(a.engine.req, ui.viewer)
    BY <1>4, <1>7, <1>9, RefreshedType, RefreshedFocus
<1>11. r.view.viewer = ui.viewer BY <1>5, <1>6, <1>10 DEF RefreshViewer
<1>12. KeepsRejectedMovement(ui, a, r)
    BY <1>5, <1>6, <1>8, <1>10 DEF KeepsRejectedMovement, ShowsEngine
<1>13. ui' = SetFinite(IF v.movement # None
                       THEN [v EXCEPT !.movement = MovementReadyCleared(v.movement)] ELSE v, r.fs)
    BY <1>6, <1>12 DEF AfterMovement
<1> HIDE DEF r
<1>14. /\ r.view \in Views /\ FsOK(r.fs) /\ r.fs.pending = engine.req /\ r.view.rev = ui.view.rev
    BY <1>4, <1>6, <1>10 DEF ShowsEngine
<1>15. v \in Window /\ v.view = r.view BY <1>3, <1>14, WithGameViewType
<1>16. v.movement = ui.movement /\ v.unit = ui.unit /\ v.placement = ui.placement
    BY <1>3, <1>4, <1>11 DEF WithGameView, Window
<1> HIDE DEF v
<1>17. ui' = SetFinite(w, r.fs) BY <1>13, <1>16
<1>18. SameMovement(ui.movement, d) /\ d.way = ui.movement.way /\ d.payload = None
    BY <1>3, MovementEdits DEF MovementReadyCleared, MovementDrafts
<1> HIDE DEF d
<1>19. d \in MovementDrafts /\ d # None BY <1>18, NoMovementDraftAssumption DEF SameMovement
<1>20. /\ w \in Window /\ w.movement = d /\ w.unit = ui.unit /\ w.placement = None /\ w.view = r.view
    <2>1. ui.placement = None BY <1>3, OneEditor
    <2> QED BY <1>15, <1>16, <1>19, <2>1 DEF Window
<1> HIDE DEF w
<1>21. ProjectionHash(w) = ui.view.rev /\ ProjectionHash(ui) = ui.view.rev
    BY <1>4, <1>14, <1>20, NoViewAssumption DEF ProjectionHash
<1>22. IsForMovement(d, ui.unit, r.fs.pending, ui.view.rev)
    BY <1>3, <1>5, <1>14, <1>18, <1>21
    DEF EditorsMatch, MovementBound, IsForMovement, MatchesMovement, SameMovement
<1>23. ui'.movement = d
    BY <1>5, <1>14, <1>17, <1>19, <1>20, <1>21, <1>22, SetFiniteKeepsMovement
<1> QED BY <1>18, <1>19, <1>23 DEF MovementReady

(* A rejected movement that leaves the request and the state as they were   *)
(* keeps the drafted paths, unreviewed, whatever the rejection recorded     *)
(* (submit_movement_draft, and a synchronisation that keeps the draft).     *)
THEOREM SessionKeepsPaths == Spec => RejectedMovementKeepsPaths
<1>1. ASSUME IInv, [Next]_vars
      PROVE  [(sent' # sent /\ ui.movement # None /\ ~ui'.fatal
               /\ engine'.req = engine.req /\ engine'.rev = engine.rev) =>
                /\ ui'.movement # None
                /\ ui'.movement.way = ui.movement.way
                /\ ~MovementReady(ui'.movement)]_vars
    BY <1>1, NextKeepsPaths
<1> QED BY <1>1, Invariance, PTL DEF Spec, RejectedMovementKeepsPaths
=============================================================================
