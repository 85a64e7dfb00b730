------------------------- MODULE ModelStreamProofs -------------------------
(***************************************************************************)
(* The safety of one conversation of the agent loop with its model, for    *)
(* every length of streams and runs, every limit on tokens and every       *)
(* server.  StreamInStep is what makes ActsOnWhole inductive: as long as   *)
(* nobody objects to the stream, the transport knows all that the endpoint *)
(* sent and the loop has all that the transport made of it.                *)
(***************************************************************************)
EXTENDS ModelStream, SequenceTheorems, WellFoundedInduction, TLAPS

Finish == Finishes \cup {"none"}
GenType == [finish : Finish, text : Seq(Contents), call : Calls, returned : BOOLEAN]
LoopType == [text : Seq(Contents), finish : Finish]
SentType ==
  [text : Seq(Contents), tool : BOOLEAN, ids : SUBSET {"a", "b"}, names : Seq(Names),
   args : Seq(Arguments), finish : Seq(Finishes), late : BOOLEAN, done : BOOLEAN]
FrameType == [data : Payloads \cup {NoChunk}, event : {"none", "error"}]
Outcomes == {"none", "command", "done", "unparseable", "model_error", "tool_error", "max_steps"}

\* The parts of TypeOK, by the variables they are about.
LoopState ==
  /\ mode \in {"fenced", "budgeted", "native"}
  /\ pc \in {"request", "budget", "post", "stream", "tool", "end"}
  /\ step \in 0..MaxSteps
ServerState ==
  /\ server \in Servers \cup {NoServer} /\ server.instance <= MaxRestarts + 1
  /\ receipt \in Servers \cup {NoServer}
  /\ granted \in 0..MaxTokens /\ open \in BOOLEAN
StreamState ==
  /\ frame \in FrameType /\ gen \in GenType
  /\ events \in Seq(Events) /\ Len(events) <= 2
  /\ loop \in LoopType /\ sent \in SentType /\ chunks \in 0..MaxChunks
OutcomeState == outcome.kind \in Outcomes /\ outcome.cmd \in Seq(Contents)

LEMMA TypeParts == TypeOK <=> LoopState /\ ServerState /\ StreamState /\ OutcomeState
  BY DEF TypeOK, LoopState, ServerState, StreamState, OutcomeState, GenType, LoopType, SentType,
         FrameType, Finish, Outcomes

LEMMA LenZero == \A S : \A s \in Seq(S) : Len(s) \in Nat /\ (Len(s) = 0 <=> s = << >>)
  BY EmptySeq, LenProperties

\* An empty stream is well typed.
LEMMA FreshTypes ==
  /\ NoFrame \in FrameType /\ Fresh \in GenType /\ Quiet \in LoopType /\ Unsent \in SentType
  /\ << >> \in Seq(Events) /\ Len(<< >>) = 0 /\ << >> \in Seq(Contents)
<1>1. << >> \in Seq(Events) /\ << >> \in Seq(Contents) /\ << >> \in Seq(Arguments)
      /\ << >> \in Seq(Names) /\ << >> \in Seq(Finishes) /\ Len(<< >>) = 0
  BY EmptySeq
<1>2. NoFrame \in FrameType
  BY DEF NoFrame, FrameType
<1>3. Fresh \in GenType
  BY <1>1 DEF Fresh, NoCall, GenType, Calls, Finish
<1>4. Quiet \in LoopType
  BY <1>1 DEF Quiet, LoopType, Finish
<1>5. Unsent \in SentType
  BY <1>1 DEF Unsent, SentType
<1> QED
  BY <1>1, <1>2, <1>3, <1>4, <1>5

LEMMA ServerNumbers ==
  ASSUME NEW srv \in Servers \cup {NoServer}
  PROVE  srv.context \in Nat /\ srv.prompt \in Nat /\ Reserved \in Nat
<1>0. Contexts \subseteq Nat /\ Prompts \subseteq Nat /\ Reserved \in Nat
  BY ModelStreamAssumption
<1>1. CASE srv = NoServer
  BY <1>0, <1>1 DEF NoServer
<1>2. CASE srv \in Servers
  <2>1. srv.context \in Contexts /\ srv.prompt \in Prompts
    BY <1>2 DEF Servers
  <2> QED
    BY <1>0, <2>1
<1> QED
  BY <1>1, <1>2

\* The budget is a number the client asked for at most.
LEMMA EffectiveType ==
  ASSUME NEW srv \in Servers \cup {NoServer}
  PROVE  Effective(srv) \in 0..MaxTokens /\ (Effective(srv) > 0 => Effective(srv) <= Available(srv))
<1>0. srv.context \in Nat /\ srv.prompt \in Nat /\ Reserved \in Nat /\ MaxTokens \in Nat
  BY ServerNumbers, ModelStreamAssumption
<1>2. Available(srv) \in Int
  BY <1>0 DEF Available
<1>3. PICK a \in Int : a = Available(srv)
  BY <1>2
<1>4. Effective(srv) = IF MaxTokens < (IF a < 0 THEN 0 ELSE a) THEN MaxTokens
                       ELSE IF a < 0 THEN 0 ELSE a
  BY <1>3 DEF Effective, Least
<1>5. Effective(srv) \in 0..MaxTokens
  BY <1>0, <1>4
<1>6. Effective(srv) > 0 => Effective(srv) <= a
  BY <1>0, <1>4
<1> QED
  BY <1>3, <1>5, <1>6

LEMMA InvParts ==
  ASSUME StreamInv
  PROVE  /\ LoopState /\ ServerState /\ StreamState /\ OutcomeState
         /\ ResponsesClosed /\ Unstarted /\ StreamInStep /\ ActsOnWhole /\ BudgetHolds
  BY TypeParts DEF StreamInv

LEMMA InvPrime ==
  ASSUME LoopState', ServerState', StreamState', OutcomeState',
         ResponsesClosed', Unstarted', StreamInStep', ActsOnWhole', BudgetHolds'
  PROVE  StreamInv'
<1>1. TypeOK'
  BY DEF TypeOK, LoopState, ServerState, StreamState, OutcomeState, GenType, LoopType, SentType,
         FrameType, Finish, Outcomes
<1> QED
  BY <1>1 DEF StreamInv

-----------------------------------------------------------------------------
(* The steps around a stream *)

LEMMA InitStream == Init => StreamInv
<1> SUFFICES ASSUME Init PROVE StreamInv
  OBVIOUS
<1>1. LoopState /\ ServerState
  <2>1. MaxSteps \in Nat /\ MaxRestarts \in Nat /\ MaxTokens \in Nat
    BY ModelStreamAssumption
  <2>2. server \in Servers \cup {NoServer} /\ server.instance \in {0, 1}
    <3>1. CASE mode = "budgeted"
      BY <3>1 DEF Init, Servers
    <3>2. CASE mode # "budgeted"
      BY <3>2 DEF Init, NoServer
    <3> QED BY <3>1, <3>2
  <2>3. ServerState
    <3>1. open \in BOOLEAN
      BY Zenon DEF Init
    <3>2. receipt = NoServer /\ granted = 0
      BY DEF Init
    <3>3. server.instance <= MaxRestarts + 1
      BY <2>1, <2>2
    <3> QED BY <2>1, <2>2, <3>1, <3>2, <3>3 DEF ServerState
  <2>4. LoopState
    <3>1. step \in 0..MaxSteps /\ pc \in {"end", "request"}
      BY <2>1 DEF Init
    <3> QED BY <3>1 DEF Init, LoopState
  <2> QED BY <2>3, <2>4
<1>2. StreamState
  <2>1. MaxChunks \in Nat
    BY ModelStreamAssumption
  <2> QED BY <2>1, FreshTypes DEF Init, StreamState
<1>3. OutcomeState
  <2>1. outcome.kind \in {"none", "max_steps"} /\ outcome.cmd = << >>
    BY DEF Init, Nothing
  <2> QED BY <2>1, FreshTypes DEF OutcomeState, Outcomes
<1>4. ResponsesClosed /\ Unstarted /\ StreamInStep /\ ActsOnWhole /\ BudgetHolds
  BY DEF Init, ResponsesClosed, Unstarted, StreamInStep, ActsOnWhole, BudgetHolds, Nothing
<1> QED
  BY <1>1, <1>2, <1>3, <1>4, TypeParts DEF StreamInv

\* However the loop meets an exception, nothing of the stream is left.
LEMMA AbortStep ==
  ASSUME StreamInv, Abort, UNCHANGED <<untouched, receipt>>
  PROVE  StreamInv'
<1> USE InvParts
<1>1. LoopState' /\ ServerState'
  <2>1. MaxTokens \in Nat
    BY ModelStreamAssumption
  <2>2. open' \in BOOLEAN
    BY Zenon DEF Abort
  <2> QED BY <2>1, <2>2 DEF LoopState, ServerState, Abort, untouched
<1>2. StreamState'
  <2>1. MaxChunks \in Nat
    BY ModelStreamAssumption
  <2> QED BY <2>1, FreshTypes DEF StreamState, Abort, Forget
<1>3. OutcomeState'
  BY FreshTypes DEF OutcomeState, Outcomes, Abort
<1>4. ResponsesClosed' /\ Unstarted' /\ StreamInStep' /\ ActsOnWhole' /\ BudgetHolds'
  BY DEF Abort, ResponsesClosed, Unstarted, StreamInStep, ActsOnWhole, BudgetHolds
<1> QED
  BY <1>1, <1>2, <1>3, <1>4, InvPrime

LEMMA PreflightStep == ASSUME StreamInv, Preflight PROVE StreamInv'
<1>1. CASE Abort
  BY <1>1, AbortStep DEF Preflight, Abort
<1>2. CASE ~Abort
  <2> USE InvParts
  <2>1. /\ receipt' = server /\ pc = "request" /\ pc' = "budget"
        /\ UNCHANGED <<outcome, open, granted, events, reading, untouched>>
    BY <1>2 DEF Preflight
  <2>2. LoopState' /\ ServerState' /\ StreamState' /\ OutcomeState'
    BY <2>1 DEF LoopState, ServerState, StreamState, OutcomeState, untouched, reading
  <2>3. ResponsesClosed' /\ Unstarted' /\ StreamInStep' /\ BudgetHolds'
    BY <2>1 DEF ResponsesClosed, Unstarted, StreamInStep, BudgetHolds, untouched, reading
  <2>4. ActsOnWhole'
    BY <2>1 DEF ActsOnWhole, Unstarted, Nothing
  <2> QED
    BY <2>2, <2>3, <2>4, InvPrime
<1> QED
  BY <1>1, <1>2

LEMMA TakeBudgetStep == ASSUME StreamInv, TakeBudget PROVE StreamInv'
<1>1. CASE Effective(receipt) = 0
  BY <1>1, AbortStep DEF TakeBudget
<1>2. CASE Effective(receipt) # 0
  <2> USE InvParts
  <2>1. /\ receipt' = receipt /\ pc = "budget" /\ pc' = "post"
        /\ UNCHANGED <<outcome, open, granted, events, reading, untouched>>
    BY <1>2 DEF TakeBudget
  <2>2. LoopState' /\ ServerState' /\ StreamState' /\ OutcomeState'
    BY <2>1 DEF LoopState, ServerState, StreamState, OutcomeState, untouched, reading
  <2>3. Effective(receipt) > 0 /\ Effective(receipt') = Effective(receipt)
    BY <1>2, <2>1, EffectiveType, ModelStreamAssumption DEF ServerState
  <2>4. ResponsesClosed' /\ Unstarted' /\ StreamInStep' /\ BudgetHolds'
    BY <2>1, <2>3 DEF ResponsesClosed, Unstarted, StreamInStep, BudgetHolds, untouched, reading
  <2>5. ActsOnWhole'
    BY <2>1 DEF ActsOnWhole, Unstarted, Nothing
  <2> QED
    BY <2>2, <2>4, <2>5, InvPrime
<1> QED
  BY <1>1, <1>2

\* The endpoint grants what fits in its context as it is now.
LEMMA PostStep == ASSUME StreamInv, Post PROVE StreamInv'
<1>1. CASE Abort
  BY <1>1, AbortStep DEF Post
<1>2. CASE ~Abort
  <2> USE InvParts
  <2>1. /\ Accepts(server) /\ open' = TRUE /\ pc' = "stream"
        /\ granted' = IF mode = "budgeted" THEN Effective(receipt) ELSE MaxTokens
        /\ pc = IF mode = "budgeted" THEN "post" ELSE "request"
        /\ UNCHANGED <<outcome, events, reading, untouched, receipt>>
    BY <1>2 DEF Post
  <2>2. ServerState'
    <3>1. MaxTokens \in Nat
      BY ModelStreamAssumption
    <3>2. granted' \in 0..MaxTokens
      BY <2>1, <3>1, EffectiveType DEF ServerState
    <3> QED BY <2>1, <3>2 DEF ServerState, untouched
  <2>3. LoopState' /\ StreamState' /\ OutcomeState'
    BY <2>1 DEF LoopState, StreamState, OutcomeState, untouched, reading
  <2>4. gen = Fresh /\ events = << >> /\ loop = Quiet /\ sent = Unsent /\ outcome = Nothing
    BY <2>1 DEF Unstarted
  <2>5. /\ gen' = Fresh /\ events' = << >> /\ loop' = Quiet /\ sent' = Unsent
        /\ outcome' = Nothing /\ pc' = "stream" /\ mode' = mode
    BY <2>1, <2>4 DEF reading, untouched
  <2>6. TransportInStep' /\ LoopInStep'
    <3>1. << >> \o << >> = << >>
      BY EmptySeq, ConcatProperties
    <3>2. Yielded' = << >>
      BY <2>5 DEF Yielded, Fresh
    <3>3. LoopInStep'
      BY <2>5, <3>1, <3>2 DEF LoopInStep, Fresh, Quiet
    <3>4. TransportInStep'
      BY <2>5 DEF TransportInStep, Fresh, Unsent, NoCall
    <3> QED BY <3>3, <3>4
  <2>7. ResponsesClosed' /\ Unstarted' /\ StreamInStep' /\ ActsOnWhole'
    BY <2>5, <2>6 DEF ResponsesClosed, Unstarted, StreamInStep, ActsOnWhole, Nothing
  <2>8. BudgetHolds'
    <3> SUFFICES ASSUME mode = "budgeted"
                 PROVE  granted' > 0 /\ server'.prompt + Reserved + granted' + 1 <= server'.context
      BY <2>1 DEF BudgetHolds, untouched
    <3>1. receipt = server /\ granted' = Effective(server) /\ server' = server /\ Effective(server) > 0
      BY <2>1 DEF Accepts, Unstarted, untouched
    <3>2. Effective(server) \in Nat /\ Effective(server) <= Available(server)
      BY <3>1, EffectiveType, ModelStreamAssumption DEF ServerState
    <3>3. server.prompt \in Nat /\ server.context \in Nat /\ Reserved \in Nat
      BY ServerNumbers DEF ServerState
    <3> QED
      BY <3>1, <3>2, <3>3 DEF Available
  <2> QED
    BY <2>2, <2>3, <2>7, <2>8, InvPrime
<1> QED
  BY <1>1, <1>2

LEMMA RestartStep == ASSUME StreamInv, Restart PROVE StreamInv'
<1> USE InvParts
<1>1. /\ server' \in Servers /\ server'.instance = server.instance + 1
      /\ server.instance \in 1..MaxRestarts
      /\ pc \in {"request", "budget", "post"}
      /\ UNCHANGED <<mode, step, pc, receipt, granted, open, events, reading, outcome>>
  <2>1. /\ server.instance \in 1..MaxRestarts /\ MaxRestarts \in Nat
        /\ server' \in [instance : {server.instance + 1}, context : Contexts, prompt : Prompts]
    BY ModelStreamAssumption DEF Restart
  <2>2. server' \in Servers /\ server'.instance = server.instance + 1
    BY <2>1 DEF Servers
  <2> QED BY <2>1, <2>2 DEF Restart
<1>2. LoopState' /\ ServerState' /\ StreamState' /\ OutcomeState'
  <2>1. MaxRestarts \in Nat
    BY ModelStreamAssumption
  <2> QED
    BY <1>1, <2>1 DEF LoopState, ServerState, StreamState, OutcomeState, reading
<1>3. ResponsesClosed' /\ StreamInStep' /\ BudgetHolds'
  BY <1>1 DEF ResponsesClosed, StreamInStep, BudgetHolds
<1>4. Unstarted' /\ ActsOnWhole'
  BY <1>1 DEF Unstarted, ActsOnWhole, Nothing, reading
<1> QED
  BY <1>2, <1>3, <1>4, InvPrime

\* The command was executed; the next step, or the end of the run.
LEMMA ToolStep == ASSUME StreamInv, Tool PROVE StreamInv'
<1> USE InvParts
<1>1. /\ Forget /\ receipt' = NoServer /\ UNCHANGED <<mode, server, open, granted>> /\ pc = "tool"
      /\ step' \in 0..MaxSteps
      /\ \/ pc' = "request" /\ outcome' = Nothing
         \/ pc' = "end" /\ outcome'.kind \in {"max_steps", "tool_error"} /\ outcome'.cmd = << >>
  BY ModelStreamAssumption DEF Tool, LoopState
<1>2. LoopState' /\ ServerState' /\ OutcomeState'
  <2>1. LoopState'
    BY <1>1 DEF LoopState
  <2>2. ServerState'
    BY <1>1 DEF ServerState
  <2>3. OutcomeState'
    <3>1. << >> \in Seq(Contents)
      BY FreshTypes
    <3>2. CASE outcome' = Nothing
      BY <3>1, <3>2 DEF OutcomeState, Outcomes, Nothing
    <3>3. CASE outcome' # Nothing
      BY <1>1, <3>1, <3>3 DEF OutcomeState, Outcomes
    <3> QED BY <3>2, <3>3
  <2> QED BY <2>1, <2>2, <2>3
<1>3. StreamState'
  <2>1. MaxChunks \in Nat
    BY ModelStreamAssumption
  <2> QED BY <1>1, <2>1, FreshTypes DEF StreamState, Forget
<1>4. ResponsesClosed' /\ Unstarted' /\ StreamInStep' /\ ActsOnWhole' /\ BudgetHolds'
  BY <1>1 DEF ResponsesClosed, Unstarted, StreamInStep, ActsOnWhole, BudgetHolds, Forget, Nothing
<1> QED
  BY <1>2, <1>3, <1>4, InvPrime

-----------------------------------------------------------------------------
(* Chunks, and what a transport makes of one *)

LEMMA PayloadFields ==
  ASSUME NEW c \in Payloads
  PROVE  /\ c.text \in Contents \cup {"none", "empty", "thought", "[DONE]", "malformed"}
         /\ c.delta.id \in {"none", "second", "a", "b"}
         /\ c.delta.name \in Names \cup {"none"} /\ c.delta.arg \in Arguments \cup {"none"}
         /\ c.delta.id = "second" => c.delta = Second
         /\ c.delta.name # "none" => c.delta.id = "a"
         /\ c.finish \in Finish
         /\ c.usage \in {"none", "counted", "excess", "invalid"}
         /\ c.usage # "none" => c.text = "none" /\ c.delta = NoDelta /\ c.finish = "none"
         /\ c.delta # NoDelta /\ c.delta # Second =>
              c.delta.id \in {"a", "b"} \/ (c.delta.id = "none" /\ c.delta.arg # "none")
         /\ c.delta = NoDelta => c.delta.id = "none" /\ c.delta.name = "none" /\ c.delta.arg = "none"
<1>1. \A d \in Deltas :
        /\ d.id \in {"none", "second", "a", "b"} /\ (d.id = "second" => d = Second)
        /\ d.name \in Names \cup {"none"} /\ d.arg \in Arguments \cup {"none"}
        /\ d.name # "none" => d.id = "a"
        /\ d # NoDelta /\ d # Second => d.id \in {"a", "b"} \/ (d.id = "none" /\ d.arg # "none")
  <2> SUFFICES ASSUME NEW d \in Deltas
               PROVE  /\ d.id \in {"none", "second", "a", "b"} /\ (d.id = "second" => d = Second)
                      /\ d.name \in Names \cup {"none"} /\ d.arg \in Arguments \cup {"none"}
                      /\ d.name # "none" => d.id = "a"
                      /\ d # NoDelta /\ d # Second => d.id \in {"a", "b"} \/ (d.id = "none" /\ d.arg # "none")
    OBVIOUS
  <2>1. CASE d \in {NoDelta, Second, [id |-> "b", name |-> "none", arg |-> "tail"]}
    BY <2>1 DEF NoDelta, Second, Names, Arguments
  <2>2. CASE d \in [id : {"a"}, name : {"execute_bash"}, arg : {"none", "head"}]
    BY <2>2 DEF Names, Arguments
  <2>3. CASE d \in [id : {"a"}, name : {"finish"}, arg : {"done"}]
    BY <2>3 DEF Names, Arguments
  <2>4. CASE d \in [id : {"none"}, name : {"none"}, arg : Arguments]
    BY <2>4 DEF Names, Arguments
  <2> QED
    BY <2>1, <2>2, <2>3, <2>4 DEF Deltas
<1>2. NoDelta.id = "none" /\ NoDelta.name = "none" /\ NoDelta.arg = "none" /\ NoDelta \in Deltas
  BY DEF NoDelta, Deltas
<1>3. /\ c.text \in Contents \cup {"none", "empty", "thought", "[DONE]", "malformed"}
      /\ c.delta \in Deltas
      /\ c.finish \in Finish
      /\ c.usage \in {"none", "counted", "excess", "invalid"}
      /\ c.usage # "none" => c.text = "none" /\ c.delta = NoDelta /\ c.finish = "none"
  <2>1. CASE c = Done \/ c = Malformed
    BY <1>2, <2>1 DEF Done, Malformed, NoChunk, Finish
  <2>2. CASE c \in [text : Contents \cup {"none", "empty", "thought"}, delta : {NoDelta},
                    finish : Finishes \cup {"none"}, usage : {"none"}]
    BY <1>2, <2>2 DEF Finish
  <2>3. CASE c \in [text : {"none"}, delta : Deltas \ {NoDelta}, finish : {"none", "tool_calls"},
                    usage : {"none"}]
    BY <2>3 DEF Finish, Finishes
  <2>4. CASE c \in [text : {"none"}, delta : {NoDelta}, finish : {"none"},
                    usage : {"counted", "excess", "invalid"}]
    BY <1>2, <2>4 DEF Finish
  <2> QED
    BY <2>1, <2>2, <2>3, <2>4 DEF Payloads, Chunks
<1> HIDE DEF Deltas
<1> QED
  BY <1>1, <1>2, <1>3

LEMMA PairConcat == ASSUME NEW x, NEW y PROVE <<x>> \o <<y>> = <<x, y>>
<1> DEFINE S == {x, y}
           u == <<x>>
           v == <<y>>
           w == <<x, y>>
<1>1. /\ u \in Seq(S) /\ Len(u) = 1 /\ u[1] = x
      /\ v \in Seq(S) /\ Len(v) = 1 /\ v[1] = y
      /\ w \in Seq(S) /\ Len(w) = 2 /\ w[1] = x /\ w[2] = y
  OBVIOUS
<1> HIDE DEF u, v, w, S
<1>2. /\ u \o v \in Seq(S) /\ Len(u \o v) = Len(u) + Len(v)
      /\ \A i \in 1..(Len(u) + Len(v)) :
           (u \o v)[i] = IF i <= Len(u) THEN u[i] ELSE v[i - Len(u)]
  BY <1>1, ConcatProperties
<1>3. /\ Len(u \o v) = 2
      /\ (u \o v)[1] = x /\ (u \o v)[2] = y
  BY <1>1, <1>2
<1>4. \A i \in 1..Len(u \o v) : (u \o v)[i] = w[i]
  <2> SUFFICES ASSUME NEW i \in 1..2 PROVE (u \o v)[i] = w[i]
    BY <1>3
  <2>1. i = 1 \/ i = 2
    OBVIOUS
  <2> QED BY <1>1, <1>3, <2>1, Zenon
<1>5. u \o v = w
  BY <1>1, <1>2, <1>3, <1>4, SeqEqual, Zenon
<1> QED
  BY <1>5 DEF u, v, w

\* Every case of what a transport hands on of a chunk.
Speaks(c) == c.text # "none" \/ c.delta # NoDelta
Twice(g, c) == c.finish # "none" /\ g.finish # "none"
Said(c) == Event("delta", IF mode = "native" THEN << >> ELSE Text(c), "none")

LEMMA YieldIs ==
  ASSUME NEW c \in Payloads, NEW g
  PROVE  Yield(g, c) =
           IF c.usage = "invalid" THEN <<Raise>>
           ELSE IF c.usage # "none" THEN <<Event("usage", << >>, c.usage)>>
           ELSE IF Speaks(c) THEN IF Twice(g, c) THEN <<Said(c), Raise>> ELSE <<Said(c)>>
           ELSE IF Twice(g, c) THEN <<Raise>> ELSE << >>
<1> USE DEF Speaks, Twice, Said
<1>1. \A x, y : /\ << >> \o << >> = << >> /\ <<x>> \o << >> = <<x>> /\ << >> \o <<y>> = <<y>>
                /\ <<x>> \o <<y>> = <<x, y>> /\ <<x, y>> \o << >> = <<x, y>>
  <2> SUFFICES ASSUME NEW x, NEW y
               PROVE  /\ << >> \o << >> = << >> /\ <<x>> \o << >> = <<x>> /\ << >> \o <<y>> = <<y>>
                      /\ <<x>> \o <<y>> = <<x, y>> /\ <<x, y>> \o << >> = <<x, y>>
    OBVIOUS
  <2>1. << >> \o << >> = << >> /\ << >> \o <<y>> = <<y>>
    OBVIOUS
  <2>2. <<x>> \o << >> = <<x>>
    OBVIOUS
  <2>3. <<x, y>> \o << >> = <<x, y>>
    OBVIOUS
  <2> QED BY <2>1, <2>2, <2>3, PairConcat
<1>2. CASE c.usage # "none"
  BY <1>1, <1>2, PayloadFields DEF Yield
<1>3. CASE c.usage = "none"
  BY <1>1, <1>3 DEF Yield
<1> QED
  BY <1>2, <1>3

LEMMA EventTypes ==
  /\ Raise \in Events
  /\ \A x \in Seq(Contents) : /\ Event("delta", x, "none") \in Events
                              /\ Event("delta", x, "none") # Raise
                              /\ Event("delta", x, "none").text = x
                              /\ Event("delta", x, "none").type = "delta"
  /\ \A u \in {"counted", "excess"} : /\ Event("usage", << >>, u) \in Events
                                     /\ Event("usage", << >>, u) # Raise
                                     /\ Event("usage", << >>, u).text = << >>
                                     /\ Event("usage", << >>, u).type = "usage"
  /\ \A f \in Finishes : /\ Event("done", << >>, f) \in Events /\ Event("done", << >>, f) # Raise
                         /\ Event("done", << >>, f).text = << >>
                         /\ Event("done", << >>, f).type = "done"
                         /\ Event("done", << >>, f).value = f
<1>1. << >> \in Seq(Contents)
  BY EmptySeq
<1>2. Raise \in Events
  BY <1>1 DEF Raise, Events
<1> QED
  BY <1>1, <1>2 DEF Raise, Event, Events

LEMMA EventFields ==
  ASSUME NEW e \in Events
  PROVE  e.text \in Seq(Contents) /\ (e.type = "done" => e.value \in Finishes)
<1>1. << >> \in Seq(Contents)
  BY EmptySeq
<1> QED
  BY <1>1 DEF Events

LEMMA TextType ==
  ASSUME NEW c \in Payloads
  PROVE  Text(c) \in Seq(Contents)
  BY EmptySeq DEF Text

-----------------------------------------------------------------------------
(* The lines of a stream *)

\* While the transport waits for a line, it and the loop know all of the stream.
LEMMA Listening ==
  ASSUME StreamInv, listening
  PROVE  /\ TransportInStep /\ LoopInStep /\ Yielded = loop.text
         /\ loop.finish = "none" /\ outcome = Nothing /\ pc = "stream"
<1> USE InvParts
<1>1. events = << >> /\ pc = "stream" /\ ~gen.returned
  BY DEF listening
<1>2. TransportInStep /\ LoopInStep
  BY <1>1 DEF StreamInStep
<1>3. loop.text \in Seq(Contents)
  BY DEF StreamState, LoopType
<1>4. Yielded = loop.text
  BY <1>1, <1>2, <1>3, ConcatEmptySeq DEF LoopInStep
<1> QED
  BY <1>1, <1>2, <1>4 DEF LoopInStep, Unstarted

\* A line changes only the stream, of which it must keep this much.
LEMMA LineStep ==
  ASSUME StreamInv, listening, UNCHANGED receiving, StreamState', StreamInStep'
  PROVE  StreamInv'
<1> USE InvParts
<1>1. LoopState' /\ ServerState' /\ OutcomeState'
  BY DEF LoopState, ServerState, OutcomeState, receiving, untouched
<1>2. ResponsesClosed' /\ Unstarted' /\ BudgetHolds' /\ ActsOnWhole'
  BY Listening DEF ResponsesClosed, Unstarted, BudgetHolds, ActsOnWhole, receiving, untouched, Nothing
<1> QED
  BY <1>1, <1>2, InvPrime

LEMMA RaisedStep ==
  ASSUME events' = <<Raise>>
  PROVE  StreamInStep' /\ events' \in Seq(Events) /\ Len(events') <= 2
<1>1. Raise \in Events
  BY EventTypes
<1>2. events' \in Seq(Events) /\ Len(events') = 1 /\ 1 \in DOMAIN events' /\ events'[1] = Raise
  BY <1>1
<1> QED
  BY <1>2 DEF StreamInStep

LEMMA DataLineStep == ASSUME StreamInv, DataLine PROVE StreamInv'
<1> USE InvParts
<1>1. /\ listening /\ UNCHANGED receiving /\ UNCHANGED <<gen, events, sent>>
      /\ frame' \in FrameType /\ chunks' \in 0..MaxChunks
  <2>1. PICK p \in Payloads :
           /\ p \in Chunks => chunks < MaxChunks
           /\ chunks' = IF p \in Chunks THEN chunks + 1 ELSE chunks
           /\ frame' = [frame EXCEPT !.data = IF @ = NoChunk THEN p ELSE Malformed]
    BY DEF DataLine
  <2>2. Malformed \in Payloads /\ frame \in FrameType /\ chunks \in 0..MaxChunks /\ MaxChunks \in Nat
    BY ModelStreamAssumption DEF Payloads, StreamState
  <2>3. frame' \in FrameType
    BY <2>1, <2>2 DEF FrameType
  <2>4. chunks' \in 0..MaxChunks
    BY <2>1, <2>2
  <2> QED BY <2>3, <2>4 DEF DataLine
<1>2. StreamState'
  BY <1>1 DEF StreamState, receiving
<1>3. StreamInStep'
  BY <1>1 DEF StreamInStep, TransportInStep, LoopInStep, Yielded, receiving, untouched, NativeAction,
              CanonicalCall
<1> QED
  BY <1>1, <1>2, <1>3, LineStep

LEMMA ErrorLineStep == ASSUME StreamInv, ErrorLine PROVE StreamInv'
<1> USE InvParts
<1>1. frame' \in FrameType
  BY DEF ErrorLine, StreamState, FrameType
<1>2. StreamState'
  BY <1>1 DEF ErrorLine, StreamState, receiving
<1>3. StreamInStep'
  BY DEF ErrorLine, StreamInStep, TransportInStep, LoopInStep, Yielded, receiving, untouched,
         NativeAction, CanonicalCall
<1> QED
  BY <1>2, <1>3, LineStep DEF ErrorLine

LEMMA BreaksStep == ASSUME StreamInv, Breaks PROVE StreamInv'
<1> USE InvParts
<1>1. StreamInStep' /\ events' \in Seq(Events) /\ Len(events') <= 2
  BY RaisedStep DEF Breaks
<1>2. StreamState'
  BY <1>1 DEF Breaks, StreamState, receiving
<1> QED
  BY <1>1, <1>2, LineStep DEF Breaks

-----------------------------------------------------------------------------
(* The loop *)

LEMMA CallbackFailsStep == ASSUME StreamInv, CallbackFails PROVE StreamInv'
  BY AbortStep DEF CallbackFails

\* The loop takes an event it does not object to.
LEMMA TakeStep == ASSUME StreamInv, Take PROVE StreamInv'
<1> USE InvParts
<1> DEFINE e == Head(events)
<1>1. CASE Objects(e)
  BY <1>1, AbortStep DEF Take
<1>2. CASE ~Objects(e)
  <2>1. /\ pc = "stream" /\ events # << >> /\ events' = Tail(events)
        /\ loop' = [text |-> loop.text \o e.text,
                    finish |-> IF e.type = "done" THEN e.value ELSE loop.finish]
        /\ UNCHANGED <<pc, outcome, open, granted, frame, gen, sent, chunks, untouched, receipt>>
    BY <1>2 DEF Take
  <2>2. /\ e \in Events /\ e = events[1] /\ events' \in Seq(Events) /\ Len(events') = Len(events) - 1
        /\ Len(events) \in 1..2 /\ \A i \in 1..Len(events') : events'[i] = events[i + 1]
    <3>1. events \in Seq(Events) /\ Len(events) <= 2 /\ events # << >>
      BY <2>1 DEF StreamState
    <3>2. Len(events) \in 1..2
      <4>1. PICK n \in Nat : n = Len(events)
        BY <3>1, LenZero
      <4>2. n # 0 /\ n <= 2
        BY <3>1, <4>1, LenZero
      <4>3. n \in 1..2
        BY <4>2
      <4> QED BY <4>1, <4>3
    <3>3. Head(events) \in Events /\ Tail(events) \in Seq(Events)
          /\ Len(Tail(events)) = Len(events) - 1
          /\ \A i \in 1..Len(Tail(events)) : Tail(events)[i] = events[i + 1]
      BY <3>1, HeadTailProperties
    <3>4. Head(events) = events[1]
      BY <3>1
    <3> QED BY <2>1, <3>2, <3>3, <3>4
  <2>3. /\ e # Raise /\ loop.finish = "none"
    BY <1>2 DEF Objects
  <2>4. StreamState'
    <3>1. e.text \in Seq(Contents) /\ (e.type = "done" => e.value \in Finishes)
      BY <2>2, EventFields
    <3>2. loop.text \in Seq(Contents) /\ loop.finish \in Finish
      BY DEF StreamState, LoopType
    <3>3. loop'.text \in Seq(Contents) /\ loop'.finish \in Finish
      BY <2>1, <3>1, <3>2, ConcatProperties DEF Finish
    <3>4. loop' \in LoopType
      BY <2>1, <3>3 DEF LoopType
    <3> QED BY <2>1, <2>2, <3>4 DEF StreamState
  <2>5. LoopState' /\ ServerState' /\ OutcomeState'
    BY <2>1 DEF LoopState, ServerState, OutcomeState, untouched
  <2>6. ResponsesClosed' /\ Unstarted' /\ BudgetHolds' /\ ActsOnWhole'
    BY <2>1 DEF ResponsesClosed, Unstarted, BudgetHolds, ActsOnWhole, untouched, Nothing
  <2>7. ASSUME \A i \in DOMAIN events' : events'[i] # Raise
        PROVE  TransportInStep' /\ LoopInStep'
    <3>0. DOMAIN events = 1..Len(events) /\ DOMAIN events' = 1..Len(events')
      BY <2>2, LenProperties DEF StreamState
    <3>1. \A i \in DOMAIN events : events[i] # Raise
      <4> SUFFICES ASSUME NEW i \in 1..Len(events) PROVE events[i] # Raise
        BY <3>0
      <4>1. CASE i = 1
        BY <2>2, <2>3, <4>1
      <4>2. CASE i # 1
        <5>1. i - 1 \in 1..Len(events') /\ events'[i - 1] = events[(i - 1) + 1] /\ (i - 1) + 1 = i
          BY <2>2, <4>2
        <5> QED BY <2>7, <3>0, <5>1
      <4> QED BY <4>1, <4>2
    <3>2. TransportInStep /\ LoopInStep
      BY <2>1, <3>1 DEF StreamInStep
    <3>3. TransportInStep'
      BY <2>1, <3>2 DEF TransportInStep, untouched, NativeAction, CanonicalCall
    <3>4. Yielded' = loop.text \o e.text /\ Yielded' = loop'.text
      <4>1. Yielded' = Yielded
        BY <2>1 DEF Yielded, untouched, NativeAction, CanonicalCall
      <4> QED BY <2>1, <2>2, <3>2, <4>1 DEF LoopInStep
    <3>5. Yielded' = loop'.text \o (IF events' = << >> THEN << >> ELSE events'[1].text)
      <4>1. CASE events' = << >>
        BY <2>4, <3>4, <4>1, ConcatEmptySeq DEF StreamState, LoopType
      <4>2. CASE events' # << >>
        <5>1. Len(events') = 1 /\ 2 \in DOMAIN events
          BY <2>2, <3>0, <4>2, EmptySeq
        <5>2. events'[1] = events[2] /\ events[2].text = << >>
          BY <2>2, <3>2, <5>1 DEF LoopInStep
        <5> QED BY <2>4, <3>4, <4>2, <5>2, ConcatEmptySeq DEF StreamState, LoopType
      <4> QED BY <4>1, <4>2
    <3>6. ASSUME NEW i \in DOMAIN events'
          PROVE  /\ i > 1 => events'[i].text = << >>
                 /\ events'[i].type = "done" => /\ i = Len(events')
                                               /\ gen'.returned /\ events'[i].value = gen'.finish
      <4>1. i + 1 \in DOMAIN events /\ i + 1 > 1 /\ events'[i] = events[i + 1]
        BY <2>2, <3>0, <3>6
      <4>2. /\ events[i + 1].text = << >>
            /\ events[i + 1].type = "done" => /\ i + 1 = Len(events)
                                              /\ gen.returned /\ events[i + 1].value = gen.finish
        BY <3>2, <4>1 DEF LoopInStep
      <4>3. i + 1 = Len(events) => i = Len(events')
        BY <2>2, <3>0, <3>6
      <4>4. gen' = gen
        BY <2>1
      <4> QED BY <4>1, <4>2, <4>3, <4>4
    <3>7. loop'.finish # "none" => events' = << >> /\ gen'.returned /\ loop'.finish = gen'.finish
      <4> SUFFICES ASSUME loop'.finish # "none"
                   PROVE  events' = << >> /\ gen'.returned /\ loop'.finish = gen'.finish
        OBVIOUS
      <4>1. e.type = "done" /\ loop'.finish = e.value
        BY <2>1, <2>3
      <4>2. 1 = Len(events) /\ gen.returned /\ e.value = gen.finish
        BY <2>2, <3>0, <3>2, <4>1 DEF LoopInStep
      <4>3. events' = << >>
        <5>1. Len(events') = 1 - 1
          BY <2>2, <4>2
        <5> QED BY <2>2, <5>1, LenZero
      <4> QED BY <2>1, <4>1, <4>2, <4>3
    <3> QED BY <3>3, <3>5, <3>6, <3>7 DEF LoopInStep
  <2>8. StreamInStep'
    BY <2>7 DEF StreamInStep
  <2> QED
    BY <2>4, <2>5, <2>6, <2>8, InvPrime
<1> QED
  BY <1>1, <1>2

-----------------------------------------------------------------------------
(* Commands and their wrappers *)

LEMMA Wrapped ==
  ASSUME NEW S, NEW s \in Seq(S), NEW a \in S, NEW b \in S
  PROVE  /\ <<a>> \o s \o <<b>> \in Seq(S) /\ Len(<<a>> \o s \o <<b>>) = Len(s) + 2
         /\ (<<a>> \o s \o <<b>>)[1] = a /\ (<<a>> \o s \o <<b>>)[Len(s) + 2] = b
         /\ \A i \in 1..Len(s) : (<<a>> \o s \o <<b>>)[i + 1] = s[i]
<1> DEFINE u == <<a>>
           v == <<b>>
           t == u \o s
           w == t \o v
<1>1. PICK n \in Nat : n = Len(s)
  BY LenProperties
<1>2. u \in Seq(S) /\ Len(u) = 1 /\ u[1] = a /\ v \in Seq(S) /\ Len(v) = 1 /\ v[1] = b
  OBVIOUS
<1> HIDE DEF u, v
<1>3. t \in Seq(S) /\ Len(t) = n + 1 /\ t[1] = a /\ \A i \in 1..n : t[i + 1] = s[i]
  <2>1. /\ t \in Seq(S) /\ Len(t) = Len(u) + Len(s)
        /\ \A i \in 1..Len(u) + Len(s) : t[i] = IF i <= Len(u) THEN u[i] ELSE s[i - Len(u)]
    BY <1>2, ConcatProperties
  <2>2. \A i \in 1..(n + 1) : t[i] = IF i <= 1 THEN u[i] ELSE s[i - 1]
    BY <1>1, <1>2, <2>1
  <2>3. t[1] = a
    <3>1. 1 \in 1..(n + 1) /\ 1 <= 1
      BY <1>1
    <3> HIDE DEF t
    <3> QED BY <1>2, <2>2, <3>1
  <2>4. \A i \in 1..n : t[i + 1] = s[i]
    <3> SUFFICES ASSUME NEW i \in 1..n PROVE t[i + 1] = s[i]
      OBVIOUS
    <3>1. i + 1 \in 1..(n + 1) /\ ~(i + 1 <= 1) /\ (i + 1) - 1 = i
      BY <1>1
    <3> QED BY <2>2, <3>1
  <2>5. Len(t) = n + 1
    BY <1>1, <1>2, <2>1
  <2> QED BY <2>1, <2>3, <2>4, <2>5
<1> HIDE DEF t
<1>4. /\ w \in Seq(S) /\ Len(w) = n + 2
      /\ \A i \in 1..(n + 2) : w[i] = IF i <= n + 1 THEN t[i] ELSE v[i - (n + 1)]
  <2>1. /\ w \in Seq(S) /\ Len(w) = Len(t) + Len(v)
        /\ \A i \in 1..Len(t) + Len(v) : w[i] = IF i <= Len(t) THEN t[i] ELSE v[i - Len(t)]
    BY <1>2, <1>3, ConcatProperties
  <2>2. Len(t) + Len(v) = n + 2
    BY <1>1, <1>2, <1>3
  <2> QED BY <1>3, <2>1, <2>2
<1> HIDE DEF w
<1>5. w[1] = a /\ w[n + 2] = b
  <2>1. 1 \in 1..(n + 2) /\ 1 <= n + 1 /\ n + 2 \in 1..(n + 2) /\ ~(n + 2 <= n + 1)
        /\ (n + 2) - (n + 1) = 1
    BY <1>1
  <2> QED BY <1>2, <1>3, <1>4, <2>1
<1>6. \A i \in 1..n : w[i + 1] = s[i]
  <2> SUFFICES ASSUME NEW i \in 1..n PROVE w[i + 1] = s[i]
    OBVIOUS
  <2>1. i + 1 \in 1..(n + 2) /\ i + 1 <= n + 1
    BY <1>1
  <2> QED BY <1>3, <1>4, <2>1
<1> QED
  BY <1>1, <1>4, <1>5, <1>6 DEF u, v, t, w

\* The text between the first and the last piece.
LEMMA CommandType ==
  ASSUME NEW S, NEW t \in Seq(S), Len(t) >= 2
  PROVE  /\ Command(t) \in Seq(S) /\ Len(Command(t)) = Len(t) - 2
         /\ \A i \in 1..(Len(t) - 2) : Command(t)[i] = t[i + 1]
<1>1. PICK n \in Nat : n = Len(t)
  BY LenProperties
<1>2. \A i \in 2..(n - 1) : t[i] \in S
  <2> SUFFICES ASSUME NEW i \in 2..(n - 1) PROVE t[i] \in S
    OBVIOUS
  <2>1. i \in 1..Len(t)
    BY <1>1
  <2> QED BY <2>1, ElementOfSeq
<1>3. 2 \in Int /\ n - 1 \in Int /\ n >= 2
  BY <1>1
<1>4. /\ SubSeq(t, 2, n - 1) \in Seq(S)
      /\ Len(SubSeq(t, 2, n - 1)) = IF 2 <= n - 1 THEN (n - 1) - 2 + 1 ELSE 0
      /\ \A i \in 1..((n - 1) - 2 + 1) : SubSeq(t, 2, n - 1)[i] = t[2 + i - 1]
  BY <1>2, <1>3, SubSeqProperties
<1>5. Len(SubSeq(t, 2, n - 1)) = n - 2
  BY <1>1, <1>3, <1>4
<1>6. \A i \in 1..(n - 2) : SubSeq(t, 2, n - 1)[i] = t[i + 1]
  <2> SUFFICES ASSUME NEW i \in 1..(n - 2) PROVE SubSeq(t, 2, n - 1)[i] = t[i + 1]
    OBVIOUS
  <2>1. i \in 1..((n - 1) - 2 + 1) /\ 2 + i - 1 = i + 1
    BY <1>1
  <2> QED BY <1>4, <2>1
<1> QED
  BY <1>1, <1>4, <1>5, <1>6 DEF Command

LEMMA CommandOfWrapped ==
  ASSUME NEW S, NEW s \in Seq(S), NEW a \in S, NEW b \in S
  PROVE  Command(<<a>> \o s \o <<b>>) = s
<1>1. PICK w \in Seq(S) : w = <<a>> \o s \o <<b>>
  BY Wrapped
<1>2. PICK n \in Nat : n = Len(s)
  BY LenProperties
<1>3. Len(w) = n + 2 /\ \A i \in 1..n : w[i + 1] = s[i]
  BY <1>1, <1>2, Wrapped
<1>4. /\ Command(w) \in Seq(S) /\ Len(Command(w)) = n
      /\ \A i \in 1..n : Command(w)[i] = w[i + 1]
  <2>1. Len(w) >= 2 /\ Len(w) - 2 = n
    BY <1>2, <1>3
  <2> QED BY <2>1, CommandType
<1>5. Command(w) = s
  <2>1. \A i \in 1..Len(Command(w)) : Command(w)[i] = s[i]
    BY <1>3, <1>4
  <2> QED BY <1>2, <1>4, <2>1, SeqEqual
<1> QED
  BY <1>1, <1>5

LEMMA WrappedCommand ==
  ASSUME NEW S, NEW t \in Seq(S), Len(t) >= 2
  PROVE  t = <<t[1]>> \o Command(t) \o <<t[Len(t)]>>
<1>1. PICK n \in Nat : n = Len(t)
  BY LenProperties
<1>2. PICK s \in Seq(S) : s = Command(t)
  BY CommandType
<1>3. Len(s) = n - 2 /\ \A i \in 1..(n - 2) : s[i] = t[i + 1]
  BY <1>1, <1>2, CommandType
<1>4. PICK a \in S : a = t[1]
  BY <1>1, ElementOfSeq
<1>5. PICK b \in S : b = t[n]
  BY <1>1, ElementOfSeq
<1>6. PICK w \in Seq(S) : w = <<a>> \o s \o <<b>>
  BY Wrapped
<1>7. Len(w) = n /\ w[1] = a /\ w[n] = b /\ \A i \in 1..(n - 2) : w[i + 1] = s[i]
  <2>1. Len(w) = Len(s) + 2 /\ w[1] = a /\ w[Len(s) + 2] = b /\ \A i \in 1..Len(s) : w[i + 1] = s[i]
    BY <1>6, Wrapped
  <2>2. Len(s) + 2 = n
    BY <1>1, <1>3
  <2> QED BY <1>3, <2>1, <2>2
<1>8. \A i \in 1..n : w[i] = t[i]
  <2> SUFFICES ASSUME NEW i \in 1..n PROVE w[i] = t[i]
    OBVIOUS
  <2>1. CASE i = 1
    BY <1>4, <1>7, <2>1
  <2>2. CASE i = n
    BY <1>5, <1>7, <2>2
  <2>3. CASE i # 1 /\ i # n
    <3>1. i - 1 \in 1..(n - 2) /\ (i - 1) + 1 = i
      BY <1>1, <2>3
    <3> QED BY <1>3, <1>7, <3>1
  <2> QED BY <2>1, <2>2, <2>3
<1>9. w = t
  BY <1>1, <1>7, <1>8, SeqEqual
<1> QED
  BY <1>1, <1>2, <1>4, <1>5, <1>6, <1>9

\* What a call of a tool is made into: nothing, DONE, or its command in the wrapper.
LEMMA CanonicalIs ==
  ASSUME NEW call \in Calls, CanonicalCall(call) # Raise
  PROVE  \/ /\ call.id # "none" /\ call.name = "finish" /\ call.args = <<"done">>
            /\ CanonicalCall(call) = Event("delta", <<"done">>, "none")
         \/ /\ call.id # "none" /\ call.name = "execute_bash"
            /\ CanonicalCall(call)
                 = Event("delta", <<"open">> \o Command(call.args) \o <<"close">>, "none")
            /\ Command(call.args) \in Seq(Contents)
            /\ call.args = <<"head">> \o Command(call.args) \o <<"tail">>
<1>1. CASE call.name = "finish" /\ call.args = <<"done">>
  BY <1>1 DEF CanonicalCall
<1>2. CASE ~(call.name = "finish" /\ call.args = <<"done">>)
  <2>1. /\ call.id # "none" /\ call.name = "execute_bash" /\ IsCommand(call.args)
        /\ CanonicalCall(call)
             = Event("delta", <<"open">> \o Command(call.args) \o <<"close">>, "none")
    BY <1>2 DEF CanonicalCall
  <2>2. PICK t \in Seq(Arguments) : t = call.args
    BY DEF Calls
  <2>3. PICK n \in Nat : n = Len(t)
    BY LenProperties
  <2>4. n > 2 /\ Len(t) >= 2 /\ t[1] = "head" /\ t[n] = "tail"
    BY <2>1, <2>2, <2>3 DEF IsCommand, Last
  <2>5. t = <<"head">> \o Command(t) \o <<"tail">>
    BY <2>3, <2>4, WrappedCommand
  <2>6. PICK s \in Seq(Arguments) : s = Command(t)
    BY <2>4, CommandType
  <2>7. \A i \in 1..Len(s) : s[i] \in Contents
    <3>1. Range(s) \subseteq {"word", "close"}
      BY <2>1, <2>2, <2>6 DEF IsCommand
    <3>2. Range(s) = { s[i] : i \in 1..Len(s) }
      BY RangeEquality
    <3> QED BY <3>1, <3>2 DEF Contents
  <2>8. s \in Seq(Contents)
    <3>1. s \in Seq(Range(s))
      BY SeqOfRange
    <3>2. Range(s) \subseteq Contents
      BY <2>7, RangeEquality
    <3> QED BY <3>1, <3>2, SeqMonotonic
  <2> QED
    BY <2>1, <2>2, <2>5, <2>6, <2>8
<1> QED
  BY <1>1, <1>2

\* What a transport asks for is an event whose text is one of the loop's.
LEMMA ActionIs ==
  ASSUME NEW g \in GenType
  PROVE  NativeAction(g) = Raise \/ \E x \in Seq(Contents) : NativeAction(g) = Event("delta", x, "none")
<1>1. <<"done">> \in Seq(Contents) /\ "open" \in Contents /\ "close" \in Contents
  BY DEF Contents
<1>2. ASSUME NEW call \in Calls, CanonicalCall(call) # Raise
      PROVE  \E x \in Seq(Contents) : CanonicalCall(call) = Event("delta", x, "none")
  <2>1. CASE CanonicalCall(call) = Event("delta", <<"done">>, "none")
    BY <1>1, <2>1
  <2>2. CASE CanonicalCall(call) # Event("delta", <<"done">>, "none")
    <3>1. /\ CanonicalCall(call) = Event("delta", <<"open">> \o Command(call.args) \o <<"close">>, "none")
          /\ Command(call.args) \in Seq(Contents)
      BY <1>2, <2>2, CanonicalIs
    <3>2. <<"open">> \o Command(call.args) \o <<"close">> \in Seq(Contents)
      BY <1>1, <3>1, Wrapped
    <3> QED BY <3>1, <3>2
  <2> QED BY <2>1, <2>2
<1>3. g.call \in Calls
  BY DEF GenType
<1> QED
  BY <1>1, <1>2, <1>3 DEF NativeAction

-----------------------------------------------------------------------------
(* The frames of a stream *)

LEMMA ExtendIs ==
  ASSUME NEW call \in Calls, NEW c \in Payloads, c.delta # Second
  PROVE  /\ Extend(call, c.delta) \in Calls
         /\ c.delta # NoDelta => Extend(call, c.delta) # NoCall
<1> DEFINE d == c.delta
<1>1. /\ d.id \in {"none", "a", "b"} /\ d.name \in Names \cup {"none"}
      /\ d.arg \in Arguments \cup {"none"}
      /\ d # NoDelta => d.id \in {"a", "b"} \/ (d.id = "none" /\ d.arg # "none")
  BY PayloadFields
<1>2. call.id \in {"none", "a", "b"} /\ call.name \in Names \cup {"none", "unsupported"}
      /\ call.args \in Seq(Arguments)
  BY DEF Calls
<1> HIDE DEF d
<1> DEFINE x == Extend(call, d)
<1>3. /\ x.id = IF d.id = "none" THEN call.id ELSE d.id
      /\ x.name = IF d.name = "none" THEN call.name
                  ELSE IF call.name = "none" THEN d.name ELSE "unsupported"
      /\ x.args = IF d.arg = "none" THEN call.args ELSE Append(call.args, d.arg)
      /\ x = [id |-> x.id, name |-> x.name, args |-> x.args]
  BY DEF Extend
<1>4. x.args \in Seq(Arguments) /\ (d.arg # "none" => Len(x.args) = Len(call.args) + 1)
  BY <1>1, <1>2, <1>3, AppendProperties
<1> HIDE DEF x
<1>5. x \in Calls
  <2>1. x.id \in {"none", "a", "b"} /\ x.name \in Names \cup {"none", "unsupported"}
    BY <1>1, <1>2, <1>3
  <2> QED BY <1>3, <1>4, <2>1 DEF Calls
<1>6. d # NoDelta => x # NoCall
  <2> SUFFICES ASSUME d # NoDelta, x = NoCall PROVE FALSE
    OBVIOUS
  <2>1. CASE d.id \in {"a", "b"}
    BY <1>3, <2>1 DEF NoCall
  <2>2. CASE d.arg # "none"
    <3>1. Len(call.args) \in Nat /\ Len(x.args) = Len(call.args) + 1
      BY <1>2, <1>4, <2>2, LenProperties
    <3>2. x.args = << >> /\ Len(x.args) = 0
      BY DEF NoCall
    <3> QED BY <3>1, <3>2
  <2> QED BY <1>1, <2>1, <2>2
<1> QED
  BY <1>5, <1>6 DEF x, d

LEMMA AfterIs ==
  ASSUME NEW g \in GenType, NEW c \in Payloads, c.delta # Second
  PROVE  /\ After(g, c) \in GenType
         /\ After(g, c).text = g.text \o Text(c)
         /\ After(g, c).call = IF c.delta = NoDelta THEN g.call ELSE Extend(g.call, c.delta)
         /\ After(g, c).finish = IF c.finish = "none" THEN g.finish ELSE c.finish
         /\ After(g, c).returned = g.returned
<1>1. /\ g.text \in Seq(Contents) /\ g.call \in Calls /\ g.finish \in Finish /\ g.returned \in BOOLEAN
      /\ g = [finish |-> g.finish, text |-> g.text, call |-> g.call, returned |-> g.returned]
  BY DEF GenType
<1> DEFINE x == g.text \o Text(c)
           y == IF c.delta = NoDelta THEN g.call ELSE Extend(g.call, c.delta)
           z == IF c.finish = "none" THEN g.finish ELSE c.finish
<1>2. x \in Seq(Contents)
  BY <1>1, TextType, ConcatProperties
<1>3. y \in Calls
  BY <1>1, ExtendIs
<1>4. z \in Finish
  BY <1>1, PayloadFields
<1>5. After(g, c) = [finish |-> z, text |-> x, call |-> y, returned |-> g.returned]
  <2>1. After(g, c) = [g EXCEPT !.text = x, !.call = y, !.finish = z]
    BY Zenon DEF After
  <2> HIDE DEF x, y, z
  <2> QED BY <1>1, <2>1
<1> HIDE DEF x, y, z
<1>6. After(g, c) \in GenType
  BY <1>1, <1>2, <1>3, <1>4, <1>5 DEF GenType
<1> QED
  BY <1>5, <1>6 DEF x, y, z

\* The history after a frame.
LEMMA NoteIs ==
  ASSUME NEW c \in Payloads, sent \in SentType, Note(c)
  PROVE  /\ sent' \in SentType
         /\ sent'.text = sent.text \o Text(c)
         /\ sent'.tool = (sent.tool \/ c.delta # NoDelta)
         /\ sent'.ids = sent.ids \cup ({c.delta.id} \cap {"a", "b"})
         /\ sent'.names = IF c.delta.name = "none" THEN sent.names
                          ELSE Append(sent.names, c.delta.name)
         /\ sent'.args = IF c.delta.arg = "none" THEN sent.args ELSE Append(sent.args, c.delta.arg)
         /\ sent'.finish = IF c.finish = "none" THEN sent.finish ELSE Append(sent.finish, c.finish)
         /\ sent'.late = \/ sent.late
                         \/ /\ sent.finish # << >>
                            /\ c.text \in Contents \cup {"thought"} \/ c.delta # NoDelta
         /\ sent'.done = (sent.done \/ c = Done)
<1> DEFINE x1 == sent.text \o Text(c)
           x2 == sent.tool \/ c.delta # NoDelta
           x3 == sent.ids \cup ({c.delta.id} \cap {"a", "b"})
           x4 == IF c.delta.name = "none" THEN sent.names ELSE Append(sent.names, c.delta.name)
           x5 == IF c.delta.arg = "none" THEN sent.args ELSE Append(sent.args, c.delta.arg)
           x6 == IF c.finish = "none" THEN sent.finish ELSE Append(sent.finish, c.finish)
           x7 == \/ sent.late
                 \/ /\ sent.finish # << >>
                    /\ c.text \in Contents \cup {"thought"} \/ c.delta # NoDelta
           x8 == sent.done \/ c = Done
<1>1. /\ sent.text \in Seq(Contents) /\ sent.ids \in SUBSET {"a", "b"} /\ sent.names \in Seq(Names)
      /\ sent.args \in Seq(Arguments) /\ sent.finish \in Seq(Finishes)
  BY DEF SentType
<1>2. x1 \in Seq(Contents)
  BY <1>1, TextType, ConcatProperties
<1>3. x3 \in SUBSET {"a", "b"}
  BY <1>1
<1>4. x4 \in Seq(Names)
  BY <1>1, PayloadFields, AppendProperties
<1>5. x5 \in Seq(Arguments)
  BY <1>1, PayloadFields, AppendProperties
<1>6. x6 \in Seq(Finishes)
  BY <1>1, PayloadFields, AppendProperties DEF Finish
<1>7. x2 \in BOOLEAN /\ x7 \in BOOLEAN /\ x8 \in BOOLEAN
  OBVIOUS
<1>8. sent' = [text |-> x1, tool |-> x2, ids |-> x3, names |-> x4, args |-> x5, finish |-> x6,
               late |-> x7, done |-> x8]
  BY Zenon DEF Note
<1> HIDE DEF x1, x2, x3, x4, x5, x6, x7, x8
<1>9. sent' \in SentType
  BY <1>2, <1>3, <1>4, <1>5, <1>6, <1>7, <1>8 DEF SentType
<1>10. /\ sent'.text = x1 /\ sent'.tool = x2 /\ sent'.ids = x3 /\ sent'.names = x4
       /\ sent'.args = x5 /\ sent'.finish = x6 /\ sent'.late = x7 /\ sent'.done = x8
  BY <1>8, Zenon
<1> QED
  BY <1>9, <1>10, Zenon DEF x1, x2, x3, x4, x5, x6, x7, x8

\* The frame of [DONE] tells the history nothing else.
LEMMA DoneNote ==
  ASSUME sent \in SentType, Note(Done)
  PROVE  /\ sent' \in SentType /\ sent'.done
         /\ sent'.text = sent.text /\ sent'.tool = sent.tool /\ sent'.ids = sent.ids
         /\ sent'.names = sent.names /\ sent'.args = sent.args /\ sent'.finish = sent.finish
         /\ sent'.late = sent.late
<1>1. Done \in Payloads
  BY DEF Payloads
<1>2. Text(Done) = << >> /\ Done.delta = NoDelta /\ Done.finish = "none" /\ Done.text = "[DONE]"
  BY DEF Done, NoChunk, Text, Contents
<1>3. NoDelta.id = "none" /\ NoDelta.name = "none" /\ NoDelta.arg = "none"
  BY DEF NoDelta
<1>4. /\ sent.text \in Seq(Contents) /\ sent.tool \in BOOLEAN /\ sent.late \in BOOLEAN
      /\ sent.text \o << >> = sent.text
  <2>1. sent.text \in Seq(Contents) /\ sent.tool \in BOOLEAN /\ sent.late \in BOOLEAN
    BY DEF SentType
  <2> QED BY <2>1, ConcatEmptySeq
<1>5. /\ sent' \in SentType /\ sent'.text = sent.text \o Text(Done)
      /\ sent'.ids = sent.ids \cup ({"none"} \cap {"a", "b"})
      /\ sent'.names = sent.names /\ sent'.args = sent.args /\ sent'.finish = sent.finish
  BY <1>1, <1>2, <1>3, NoteIs
<1>6. sent'.done /\ (sent'.tool = (sent.tool \/ NoDelta # NoDelta))
  BY <1>1, <1>2, NoteIs
<1>7. sent'.late = \/ sent.late
                   \/ /\ sent.finish # << >>
                      /\ "[DONE]" \in Contents \cup {"thought"} \/ NoDelta # NoDelta
  BY <1>1, <1>2, NoteIs
<1>8. sent'.late = sent.late
  BY <1>4, <1>7 DEF Contents
<1>9. sent'.tool = sent.tool
  BY <1>4, <1>6
<1> QED
  BY <1>2, <1>4, <1>5, <1>6, <1>8, <1>9

LEMMA ShortSeq ==
  ASSUME NEW S
  PROVE  \A a, b \in S : /\ <<a>> \in Seq(S) /\ Len(<<a>>) <= 2
                        /\ <<a, b>> \in Seq(S) /\ Len(<<a, b>>) <= 2
  OBVIOUS

\* What a transport yields when it has read [DONE]: an exception, or the end of the stream
\* after what the stream asks for.
LEMMA DoneYields ==
  ASSUME NEW g \in GenType, NEW ev, ev = IF mode = "native" THEN NativeDone(g) ELSE ChatDone(g)
  PROVE  /\ ev \in Seq(Events) /\ Len(ev) <= 2
         /\ \/ ev = <<Raise>>
            \/ /\ g.finish \in Finishes /\ (mode = "native" => g.finish = "length")
               /\ ev = <<Event("done", << >>, g.finish)>>
            \/ /\ g.finish \in Finishes /\ g.finish # "length" /\ mode = "native"
               /\ NativeAction(g) # Raise
               /\ ev = <<NativeAction(g), Event("done", << >>, g.finish)>>
<1>0. Raise \in Events
  BY EventTypes
<1>1. g.finish \in Finishes \/ g.finish = "none"
  BY DEF GenType, Finish
<1>2. CASE g.finish = "none"
  <2>1. ev = <<Raise>>
    BY <1>2 DEF NativeDone, ChatDone
  <2> QED BY <2>1, <1>0, ShortSeq
<1>3. CASE g.finish \in Finishes /\ (mode = "native" => g.finish = "length")
  <2>1. ev = <<Event("done", << >>, g.finish)>>
    BY <1>3 DEF NativeDone, ChatDone, Finishes
  <2>2. Event("done", << >>, g.finish) \in Events
    BY <1>3, EventTypes
  <2> QED BY <1>3, <2>1, <2>2, ShortSeq
<1>4. CASE g.finish \in Finishes /\ mode = "native" /\ g.finish # "length"
  <2>0. g.finish # "none"
    BY <1>4 DEF Finishes
  <2>1. CASE NativeAction(g) = Raise
    <3>1. ev = <<Raise>>
      BY <1>4, <2>0, <2>1 DEF NativeDone
    <3> QED BY <3>1, <1>0, ShortSeq
  <2>2. CASE NativeAction(g) # Raise
    <3>1. ev = <<NativeAction(g), Event("done", << >>, g.finish)>>
      BY <1>4, <2>0, <2>2 DEF NativeDone
    <3>2. NativeAction(g) \in Events /\ Event("done", << >>, g.finish) \in Events
      BY <1>4, <2>2, ActionIs, EventTypes
    <3> QED BY <1>4, <2>2, <3>1, <3>2, ShortSeq
  <2> QED BY <2>1, <2>2
<1> QED
  BY <1>1, <1>2, <1>3, <1>4

LEMMA DoneStep ==
  ASSUME StreamInv, listening, UNCHANGED receiving, Handle(Done), Note(Done)
  PROVE  /\ gen' \in GenType /\ events' \in Seq(Events) /\ Len(events') <= 2 /\ sent' \in SentType
         /\ StreamInStep'
<1> USE InvParts
<1>1. /\ gen \in GenType /\ loop \in LoopType /\ sent \in SentType /\ mode' = mode /\ loop' = loop
      /\ gen' = [gen EXCEPT !.returned = TRUE]
  BY DEF StreamState, receiving, untouched, Handle
<1>2. /\ gen' \in GenType /\ gen'.returned /\ gen'.text = gen.text /\ gen'.call = gen.call
      /\ gen'.finish = gen.finish
  BY <1>1 DEF GenType
<1>3. NativeAction(gen') = NativeAction(gen)
  BY <1>2, Zenon DEF NativeAction
<1>4. /\ TransportInStep /\ LoopInStep /\ Yielded = loop.text /\ loop.finish = "none" /\ ~gen.returned
  BY Listening DEF listening
<1>5. /\ sent' \in SentType /\ sent'.done
      /\ sent'.text = sent.text /\ sent'.tool = sent.tool /\ sent'.ids = sent.ids
      /\ sent'.names = sent.names /\ sent'.args = sent.args /\ sent'.finish = sent.finish
      /\ sent'.late = sent.late
  BY <1>1, DoneNote
<1>6. PICK ev : /\ ev = events' /\ ev \in Seq(Events) /\ Len(ev) <= 2
                /\ \/ ev = <<Raise>>
                   \/ /\ gen.finish \in Finishes /\ (mode = "native" => gen.finish = "length")
                      /\ ev = <<Event("done", << >>, gen.finish)>>
                   \/ /\ gen.finish \in Finishes /\ gen.finish # "length" /\ mode = "native"
                      /\ NativeAction(gen) # Raise
                      /\ ev = <<NativeAction(gen), Event("done", << >>, gen.finish)>>
  BY <1>1, DoneYields DEF Handle
<1>7. CASE ev = <<Raise>>
  BY <1>2, <1>5, <1>6, <1>7, RaisedStep
<1>8. CASE ev # <<Raise>>
  <2>1. TransportInStep'
    <3>1. gen'.finish \in Finishes /\ gen'.finish # "none"
      BY <1>2, <1>6, <1>8 DEF Finishes
    <3>2. mode = "native" /\ gen'.finish # "length" => NativeAction(gen') # Raise
      BY <1>2, <1>3, <1>6, <1>8
    <3> QED BY <1>1, <1>2, <1>4, <1>5, <3>1, <3>2 DEF TransportInStep
  <2>2. CASE /\ gen.finish \in Finishes /\ (mode = "native" => gen.finish = "length")
             /\ ev = <<Event("done", << >>, gen.finish)>>
    <3> DEFINE d == Event("done", << >>, gen.finish)
    <3>1. d.text = << >> /\ d.type = "done" /\ d.value = gen.finish
      BY <2>2, EventTypes
    <3> HIDE DEF d
    <3>2. events' = <<d>> /\ events' # << >> /\ Len(events') = 1 /\ DOMAIN events' = {1} /\ events'[1] = d
      BY <1>6, <2>2 DEF d
    <3>3. Yielded' = loop.text /\ loop.text \o << >> = loop.text
      <4>1. Yielded' = Yielded
        BY <1>1, <1>2, <1>4, <2>2 DEF Yielded
      <4> QED BY <1>1, <1>4, <4>1, ConcatEmptySeq DEF LoopType
    <3>4. LoopInStep'
      BY <1>1, <1>2, <1>4, <3>1, <3>2, <3>3 DEF LoopInStep
    <3> QED BY <1>2, <1>5, <1>6, <2>1, <3>4 DEF StreamInStep
  <2>3. CASE /\ gen.finish \in Finishes /\ gen.finish # "length" /\ mode = "native"
             /\ NativeAction(gen) # Raise
             /\ ev = <<NativeAction(gen), Event("done", << >>, gen.finish)>>
    <3> DEFINE d == Event("done", << >>, gen.finish)
    <3>1. d.text = << >> /\ d.type = "done" /\ d.value = gen.finish
      BY <2>3, EventTypes
    <3> HIDE DEF d
    <3>2. PICK a \in Events : a = NativeAction(gen) /\ a.type = "delta" /\ a.text \in Seq(Contents)
      BY <1>1, <2>3, ActionIs, EventTypes
    <3>3. /\ events' = <<a, d>> /\ events' # << >> /\ Len(events') = 2
          /\ DOMAIN events' = {1, 2} /\ events'[1] = a /\ events'[2] = d
      BY <1>6, <2>3, <3>2 DEF d
    <3>4. Yielded' = a.text /\ loop.text = << >> /\ << >> \o a.text = a.text
      <4>1. Yielded = << >>
        BY <1>4, <2>3 DEF Yielded
      <4>2. Yielded' = a.text
        BY <1>1, <1>2, <1>3, <2>3, <3>2 DEF Yielded
      <4> QED BY <1>4, <3>2, <4>1, <4>2, ConcatEmptySeq
    <3>5. LoopInStep'
      BY <1>1, <1>2, <1>4, <3>1, <3>2, <3>3, <3>4 DEF LoopInStep
    <3> QED BY <1>2, <1>5, <1>6, <2>1, <3>5 DEF StreamInStep
  <2> QED BY <1>6, <1>8, <2>2, <2>3
<1> QED
  BY <1>7, <1>8

\* A chunk that is not rejected leaves the transport with all that was sent.
LEMMA ChunkTransport ==
  ASSUME StreamInv, listening, UNCHANGED receiving, NEW c \in Payloads, c # Done,
         ~Rejects(gen, c), ~Twice(gen, c), gen' = After(gen, c), Note(c)
  PROVE  TransportInStep'
<1> USE InvParts
<1>1. gen \in GenType /\ sent \in SentType /\ mode' = mode
  BY DEF StreamState, receiving, untouched
<1>2. TransportInStep /\ ~gen.returned
  BY Listening DEF listening
<1> DEFINE d == c.delta
<1>3. /\ mode # "native" => d = NoDelta
      /\ d # NoDelta => Extends(gen.call, d)
      /\ gen.finish # "none" => ~(c.text \in Contents \cup {"thought"} \/ d # NoDelta)
      /\ d # Second
  <2>1. NoDelta # Second
    BY DEF NoDelta, Second
  <2>2. /\ mode # "native" => d = NoDelta
        /\ d # NoDelta => Extends(gen.call, d)
        /\ gen.finish # "none" => ~(c.text \in Contents \cup {"thought"} \/ d # NoDelta)
    BY DEF Rejects
  <2> QED BY <2>1, <2>2 DEF Extends
<1>4. /\ gen'.text = gen.text \o Text(c)
      /\ gen'.call = IF d = NoDelta THEN gen.call ELSE Extend(gen.call, d)
      /\ gen'.finish = IF c.finish = "none" THEN gen.finish ELSE c.finish
      /\ ~gen'.returned /\ gen'.call \in Calls
  BY <1>1, <1>2, <1>3, AfterIs, ExtendIs DEF GenType
<1>5. /\ sent'.text = sent.text \o Text(c)
      /\ sent'.tool = (sent.tool \/ d # NoDelta)
      /\ sent'.ids = sent.ids \cup ({d.id} \cap {"a", "b"})
      /\ sent'.names = IF d.name = "none" THEN sent.names ELSE Append(sent.names, d.name)
      /\ sent'.args = IF d.arg = "none" THEN sent.args ELSE Append(sent.args, d.arg)
      /\ sent'.finish = IF c.finish = "none" THEN sent.finish ELSE Append(sent.finish, c.finish)
      /\ sent'.late = \/ sent.late
                      \/ /\ sent.finish # << >>
                         /\ c.text \in Contents \cup {"thought"} \/ d # NoDelta
      /\ sent'.done = (sent.done \/ c = Done)
  BY <1>1, NoteIs
<1>6. /\ d.id \in {"none", "a", "b"} /\ (d.name # "none" => d.id = "a")
      /\ d.name \in Names \cup {"none"} /\ d.arg \in Arguments \cup {"none"}
      /\ d # NoDelta => d.id \in {"a", "b"} \/ (d.id = "none" /\ d.arg # "none")
      /\ d = NoDelta => d.id = "none" /\ d.name = "none" /\ d.arg = "none"
  BY <1>3, PayloadFields
<1>7. /\ gen.text = sent.text /\ ~sent.late /\ ~sent.done /\ sent.done \in BOOLEAN
      /\ sent.finish = IF gen.finish = "none" THEN << >> ELSE <<gen.finish>>
  BY <1>1, <1>2 DEF TransportInStep, GenType, SentType
<1> HIDE DEF d
<1>8. gen'.text = sent'.text /\ ~sent'.late /\ sent'.done = gen'.returned
  <2>1. gen.finish = "none" => sent.finish = << >>
    BY <1>7
  <2>2. ~sent'.late
    BY <1>3, <1>5, <1>7, <2>1, Zenon
  <2>3. sent'.done = gen'.returned
    <3>1. ~sent'.done
      BY <1>5, <1>7, Zenon
    <3>2. sent'.done \in BOOLEAN /\ gen'.returned \in BOOLEAN
      BY <1>1, <1>3, NoteIs, AfterIs DEF SentType, GenType, d
    <3> QED BY <1>4, <3>1, <3>2
  <2> QED BY <1>4, <1>5, <1>7, <2>2, <2>3
<1>9. sent'.finish = IF gen'.finish = "none" THEN << >> ELSE <<gen'.finish>>
  <2>1. CASE c.finish = "none"
    BY <1>4, <1>5, <1>7, <2>1
  <2>2. CASE c.finish # "none"
    <3>1. gen.finish = "none" /\ sent.finish = << >> /\ gen'.finish = c.finish
      BY <1>4, <1>7, <2>2 DEF Twice
    <3>2. sent'.finish = Append(<< >>, c.finish) /\ Append(<< >>, c.finish) = <<c.finish>>
      BY <1>5, <2>2, <3>1
    <3> QED BY <2>2, <3>1, <3>2
  <2> QED BY <2>1, <2>2
<1>10. mode' # "native" => ~sent'.tool
  <2> SUFFICES ASSUME mode # "native" PROVE ~sent'.tool
    BY <1>1
  <2>1. ~sent.tool /\ d = NoDelta
    BY <1>2, <1>3 DEF TransportInStep
  <2> QED BY <1>5, <2>1, Zenon
<1>11. CASE mode # "native"
  BY <1>1, <1>4, <1>8, <1>9, <1>10, <1>11 DEF TransportInStep
<1>12. CASE mode = "native"
  <2> DEFINE k == gen.call
  <2>0. /\ sent.tool <=> k # NoCall
        /\ sent.args = k.args
        /\ sent.ids = {k.id} \ {"none"}
        /\ sent.names # << >> => k.id = "a"
        /\ k.name = IF sent.names = << >> THEN "none"
                    ELSE IF Len(sent.names) = 1 THEN sent.names[1] ELSE "unsupported"
        /\ k \in Calls
    BY <1>1, <1>2, <1>12 DEF TransportInStep, GenType
  <2> HIDE DEF k
  <2>1. CASE d = NoDelta
    <3>1. gen'.call = k
      BY <1>4, <2>1 DEF k
    <3>2. /\ sent'.names = sent.names /\ sent'.args = sent.args
          /\ sent'.ids = sent.ids \cup ({"none"} \cap {"a", "b"})
      BY <1>5, <1>6, <2>1
    <3>3. sent'.tool <=> sent.tool
      BY <1>5, <2>1, Zenon
    <3>4. sent'.ids = sent.ids
      BY <3>2
    <3> QED
      BY <1>1, <1>4, <1>8, <1>9, <1>12, <2>0, <3>1, <3>2, <3>3, <3>4 DEF TransportInStep
  <2>2. CASE d # NoDelta
    <3>1. /\ gen'.call = Extend(k, d) /\ Extend(k, d) # NoCall
          /\ (d.id # "none" => k.id \in {"none", d.id})
      <4>1. Extend(gen.call, d) # NoCall
        BY <1>1, <1>3, <2>2, ExtendIs DEF GenType, d
      <4> QED BY <1>3, <1>4, <2>2, <4>1 DEF Extends, k
    <3>2. /\ Extend(k, d).id = (IF d.id = "none" THEN k.id ELSE d.id)
          /\ Extend(k, d).name = (IF d.name = "none" THEN k.name
                                  ELSE IF k.name = "none" THEN d.name ELSE "unsupported")
          /\ Extend(k, d).args = (IF d.arg = "none" THEN k.args ELSE Append(k.args, d.arg))
      BY DEF Extend
    <3>3. sent'.tool
      BY <1>5, <2>2, Zenon
    <3>4. sent'.args = gen'.call.args
      BY <1>5, <2>0, <3>1, <3>2
    <3>5. k.id \in {"none", "a", "b"} /\ k.name \in Names \cup {"none", "unsupported"}
      BY <2>0 DEF Calls
    <3>6. sent'.ids = {gen'.call.id} \ {"none"}
      <4>1. sent'.ids = ({k.id} \ {"none"}) \cup ({d.id} \cap {"a", "b"})
        BY <1>5, <2>0
      <4>2. gen'.call.id = IF d.id = "none" THEN k.id ELSE d.id
        BY <3>1, <3>2
      <4>3. CASE d.id = "none"
        BY <4>1, <4>2, <4>3
      <4>4. CASE d.id \in {"a", "b"}
        <5>1. k.id \in {"none", d.id}
          BY <3>1, <4>4
        <5> QED BY <4>1, <4>2, <4>4, <5>1
      <4> QED BY <1>6, <4>3, <4>4
    <3>7. sent.names # << >> => gen'.call.id = "a"
      BY <1>6, <2>0, <3>1, <3>2
    <3>8. CASE d.name = "none"
      <4>1. sent'.names = sent.names /\ gen'.call.name = k.name
        BY <1>5, <3>1, <3>2, <3>8
      <4> QED
        BY <1>1, <1>4, <1>8, <1>9, <1>12, <2>0, <3>1, <3>3, <3>4, <3>6, <3>7, <4>1
        DEF TransportInStep
    <3>9. CASE d.name # "none"
      <4>1. gen'.call.id = "a"
        BY <1>6, <3>1, <3>2, <3>9
      <4>2. sent.names \in Seq(Names) /\ d.name \in Names /\ sent'.names = Append(sent.names, d.name)
        BY <1>1, <1>5, <1>6, <3>9 DEF SentType
      <4>3. PICK n \in Nat : n = Len(sent.names) /\ (n = 0 <=> sent.names = << >>)
        BY <4>2, LenZero
      <4>4. sent'.names # << >> /\ Len(sent'.names) = n + 1 /\ (n = 0 => sent'.names[1] = d.name)
        BY <4>2, <4>3, AppendProperties
      <4>5. gen'.call.name = IF n = 0 THEN d.name ELSE "unsupported"
        <5>1. CASE n = 0
          BY <2>0, <3>1, <3>2, <3>9, <4>3, <5>1
        <5>2. CASE n # 0
          <6>1. sent.names[1] # "none"
            <7>1. 1 \in 1..Len(sent.names)
              BY <4>3, <5>2
            <7> QED BY <4>2, <7>1, ElementOfSeq DEF Names
          <6>2. k.name # "none"
            BY <2>0, <4>3, <5>2, <6>1
          <6> QED BY <3>1, <3>2, <3>9, <5>2, <6>2
        <5> QED BY <5>1, <5>2
      <4>6. gen'.call.name = IF Len(sent'.names) = 1 THEN sent'.names[1] ELSE "unsupported"
        <5>1. Len(sent'.names) = 1 <=> n = 0
          BY <4>3, <4>4
        <5> QED BY <4>4, <4>5, <5>1
      <4> QED
        BY <1>1, <1>4, <1>8, <1>9, <1>12, <3>1, <3>3, <3>4, <3>6, <4>1, <4>4, <4>6
        DEF TransportInStep
    <3> QED BY <3>8, <3>9
  <2> QED BY <2>1, <2>2
<1> QED
  BY <1>11, <1>12

\* What a transport hands on of a chunk: an exception somewhere, or at most one event, with
\* the text of the chunk if the transport hands on text at all.
LEMMA ChunkYields ==
  ASSUME NEW c \in Payloads, NEW g, NEW ev, ev = Yield(g, c)
  PROVE  /\ ev \in Seq(Events) /\ Len(ev) <= 2
         /\ \/ \E i \in DOMAIN ev : ev[i] = Raise
            \/ /\ ev = << >> /\ Text(c) = << >> /\ ~Twice(g, c)
            \/ \E e \in Events : /\ ev = <<e>> /\ e.type # "done" /\ ~Twice(g, c)
                                 /\ e.text = IF mode = "native" THEN << >> ELSE Text(c)
<1>1. /\ c.usage \in {"none", "counted", "excess", "invalid"}
      /\ c.usage # "none" => c.text = "none" /\ c.delta = NoDelta /\ c.finish = "none"
  BY PayloadFields
<1>2. c.text = "none" => Text(c) = << >>
  BY DEF Text, Contents
<1>3. Raise \in Events /\ << >> \in Seq(Events) /\ << >> \in Seq(Contents) /\ Text(c) \in Seq(Contents)
  BY EventTypes, FreshTypes, TextType
<1>4. CASE c.usage = "invalid"
  <2>1. ev = <<Raise>>
    BY <1>4, YieldIs
  <2>2. 1 \in DOMAIN ev /\ ev[1] = Raise
    BY <2>1
  <2> QED BY <1>3, <2>1, <2>2, ShortSeq
<1>5. CASE c.usage \in {"counted", "excess"}
  <2> DEFINE e == Event("usage", << >>, c.usage)
  <2>1. e \in Events /\ e.text = << >> /\ e.type = "usage"
    BY <1>5, EventTypes
  <2>2. ev = <<e>>
    BY <1>5, YieldIs
  <2> HIDE DEF e
  <2>3. ~Twice(g, c) /\ Text(c) = << >>
    BY <1>1, <1>2, <1>5 DEF Twice
  <2>4. ev \in Seq(Events) /\ Len(ev) <= 2
    BY <2>1, <2>2, ShortSeq
  <2> QED BY <2>1, <2>2, <2>3, <2>4
<1>6. CASE c.usage = "none" /\ Speaks(c)
  <2> DEFINE e == Said(c)
  <2>1. e \in Events /\ e.text = (IF mode = "native" THEN << >> ELSE Text(c)) /\ e.type = "delta"
    BY <1>3, EventTypes DEF Said
  <2>2. ev = IF Twice(g, c) THEN <<e, Raise>> ELSE <<e>>
    BY <1>6, YieldIs
  <2> HIDE DEF e
  <2>3. ev \in Seq(Events) /\ Len(ev) <= 2
    BY <1>3, <2>1, <2>2, ShortSeq
  <2>4. Twice(g, c) => 2 \in DOMAIN ev /\ ev[2] = Raise
    BY <2>2
  <2> QED BY <2>1, <2>2, <2>3, <2>4
<1>7. CASE c.usage = "none" /\ ~Speaks(c)
  <2>1. ev = IF Twice(g, c) THEN <<Raise>> ELSE << >>
    BY <1>7, YieldIs
  <2>2. ev \in Seq(Events) /\ Len(ev) <= 2
    <3>1. CASE Twice(g, c)
      BY <1>3, <2>1, <3>1, ShortSeq
    <3>2. CASE ~Twice(g, c)
      BY <1>3, <2>1, <3>2, FreshTypes
    <3> QED BY <3>1, <3>2
  <2>3. Twice(g, c) => 1 \in DOMAIN ev /\ ev[1] = Raise
    BY <2>1
  <2>4. Text(c) = << >>
    BY <1>2, <1>7 DEF Speaks
  <2> QED BY <2>1, <2>2, <2>3, <2>4
<1> QED
  BY <1>1, <1>4, <1>5, <1>6, <1>7

LEMMA ChunkStep ==
  ASSUME StreamInv, listening, UNCHANGED receiving,
         NEW c \in Payloads, c # Done, Handle(c), Note(c)
  PROVE  /\ gen' \in GenType /\ events' \in Seq(Events) /\ Len(events') <= 2 /\ sent' \in SentType
         /\ StreamInStep'
<1> USE InvParts
<1>1. /\ gen \in GenType /\ loop \in LoopType /\ sent \in SentType /\ mode' = mode /\ loop' = loop
  BY DEF StreamState, receiving, untouched
<1>2. sent' \in SentType
  BY <1>1, NoteIs
<1>3. CASE Rejects(gen, c)
  <2>1. events' = <<Raise>> /\ gen' = gen
    BY <1>3 DEF Handle
  <2> QED BY <1>1, <1>2, <2>1, RaisedStep
<1>4. CASE ~Rejects(gen, c)
  <2>1. events' = Yield(gen, c) /\ gen' = After(gen, c)
    BY <1>4 DEF Handle
  <2>2. c.delta # Second
    <3>1. NoDelta # Second
      BY DEF NoDelta, Second
    <3> QED BY <1>4, <3>1 DEF Rejects, Extends
  <2>3. gen' \in GenType /\ gen'.text = gen.text \o Text(c) /\ gen'.returned = gen.returned
    BY <1>1, <2>1, <2>2, AfterIs
  <2>4. PICK ev : /\ ev = events' /\ ev \in Seq(Events) /\ Len(ev) <= 2
                  /\ \/ \E i \in DOMAIN ev : ev[i] = Raise
                     \/ /\ ev = << >> /\ Text(c) = << >> /\ ~Twice(gen, c)
                     \/ \E e \in Events : /\ ev = <<e>> /\ e.type # "done" /\ ~Twice(gen, c)
                                          /\ e.text = IF mode = "native" THEN << >> ELSE Text(c)
    BY <2>1, ChunkYields
  <2>5. CASE \E i \in DOMAIN ev : ev[i] = Raise
    BY <1>2, <2>3, <2>4, <2>5 DEF StreamInStep
  <2>6. ASSUME ~Twice(gen, c),
               NEW x, x = (IF ev = << >> THEN << >> ELSE ev[1].text),
               x = IF mode = "native" THEN << >> ELSE Text(c),
               \A i \in DOMAIN ev : i = 1 /\ ev[i].type # "done"
        PROVE  StreamInStep'
    <3>1. TransportInStep'
      BY <1>4, <2>1, <2>6, ChunkTransport
    <3>2. LoopInStep /\ Yielded = loop.text /\ loop.finish = "none" /\ ~gen.returned
      BY Listening DEF listening
    <3>3. Yielded' = loop.text \o x
      <4>1. CASE mode = "native"
        <5>1. Yielded = << >> /\ Yielded' = << >>
          BY <1>1, <2>3, <3>2, <4>1 DEF Yielded
        <5>2. << >> \o << >> = << >>
          BY FreshTypes, ConcatEmptySeq
        <5> QED BY <2>6, <3>2, <4>1, <5>1, <5>2
      <4>2. CASE mode # "native"
        <5>1. Yielded = gen.text /\ Yielded' = gen'.text
          BY <1>1, <4>2 DEF Yielded
        <5> QED BY <2>3, <2>6, <3>2, <4>2, <5>1
      <4> QED BY <4>1, <4>2
    <3>4. Yielded' = loop'.text \o (IF events' = << >> THEN << >> ELSE events'[1].text)
      BY <1>1, <2>4, <2>6, <3>3
    <3>5. \A i \in DOMAIN events' : /\ i > 1 => events'[i].text = << >>
                                    /\ events'[i].type # "done"
      BY <2>4, <2>6
    <3>6. loop'.finish = "none"
      BY <1>1, <3>2
    <3>7. LoopInStep'
      BY <3>4, <3>5, <3>6 DEF LoopInStep
    <3> QED BY <3>1, <3>7 DEF StreamInStep
  <2>7. CASE ev = << >> /\ Text(c) = << >> /\ ~Twice(gen, c)
    <3>1. \A i \in DOMAIN ev : i = 1 /\ ev[i].type # "done"
      BY <2>7
    <3> QED BY <1>2, <2>3, <2>4, <2>6, <2>7, <3>1
  <2>8. ASSUME NEW e \in Events, ev = <<e>>, e.type # "done", ~Twice(gen, c),
               e.text = IF mode = "native" THEN << >> ELSE Text(c)
        PROVE  StreamInStep'
    <3>1. ev # << >> /\ ev[1] = e /\ \A i \in DOMAIN ev : i = 1
      BY <2>8
    <3>2. \A i \in DOMAIN ev : i = 1 /\ ev[i].type # "done"
      BY <2>8, <3>1
    <3> QED BY <2>6, <2>8, <3>1, <3>2
  <2> QED BY <1>2, <2>3, <2>4, <2>5, <2>7, <2>8
<1> QED
  BY <1>3, <1>4

LEMMA BlankLineStep == ASSUME StreamInv, BlankLine PROVE StreamInv'
<1> USE InvParts
<1>1. listening /\ frame' = NoFrame /\ UNCHANGED receiving /\ chunks' = chunks /\ loop' = loop
  BY DEF BlankLine, receiving
<1>2. /\ gen' \in GenType /\ events' \in Seq(Events) /\ Len(events') <= 2 /\ sent' \in SentType
      /\ StreamInStep'
  <2>1. CASE frame.event = "error" /\ events' = <<Raise>> /\ UNCHANGED <<gen, sent>>
    BY <2>1, RaisedStep DEF StreamState
  <2>2. CASE frame.event = "none" /\ frame.data # NoChunk /\ Handle(frame.data) /\ Note(frame.data)
    <3>1. PICK c \in Payloads : c = frame.data
      BY <2>2 DEF StreamState, FrameType
    <3>2. Handle(c) /\ Note(c)
      BY <2>2, <3>1
    <3>3. CASE c = Done
      BY <1>1, <3>2, <3>3, DoneStep
    <3>4. CASE c # Done
      BY <1>1, <3>2, <3>4, ChunkStep
    <3> QED BY <3>3, <3>4
  <2> QED BY <2>1, <2>2 DEF BlankLine
<1>3. StreamState'
  BY <1>1, <1>2, FreshTypes DEF StreamState
<1> QED
  BY <1>1, <1>2, <1>3, LineStep

-----------------------------------------------------------------------------
(* What the loop acts on *)

LEMMA LeastNat ==
  ASSUME NEW S \in SUBSET Nat, S # {}
  PROVE  \E m \in S : \A n \in S : m <= n
<1>1. PICK R : R = OpToRel(<, Nat) /\ IsWellFoundedOn(R, Nat)
  BY NatLessThanWellFounded
<1>2. PICK m \in S : \A n \in S : ~(<<n, m>> \in R)
  BY <1>1, WFMin
<1>3. \A n \in S : <<n, m>> \in R <=> n < m
  BY <1>1 DEF OpToRel
<1>4. \A n \in S : n \in Nat /\ ~(n < m) /\ m \in Nat
  BY <1>2, <1>3
<1>5. \A n \in S : m <= n
  BY <1>4
<1> QED
  BY <1>5

\* The first place of a text from i on that has one of these pieces.
LEMMA FirstFromIs ==
  ASSUME NEW S, NEW text \in Seq(S), NEW set, NEW i \in Nat, i >= 1,
         NEW p \in i..Len(text), text[p] \in set
  PROVE  /\ FirstFrom(text, set, i) \in i..Len(text) /\ FirstFrom(text, set, i) <= p
         /\ text[FirstFrom(text, set, i)] \in set
         /\ \A k \in i..(FirstFrom(text, set, i) - 1) : text[k] \notin set
<1>1. PICK n \in Nat : n = Len(text)
  BY LenProperties
<1> DEFINE places == {q \in i..n : text[q] \in set}
<1>2. places \in SUBSET Nat /\ p \in places
  BY <1>1
<1>3. PICK m \in places : \A q \in places : m <= q
  <2>1. places # {}
    BY <1>2
  <2> HIDE DEF places
  <2> QED BY <1>2, <2>1, LeastNat
<1>4. m \in i..n /\ text[m] \in set /\ \A k \in i..(m - 1) : text[k] \notin set
  <2>1. m \in i..n /\ text[m] \in set
    OBVIOUS
  <2>2. ASSUME NEW k \in i..(m - 1), text[k] \in set PROVE FALSE
    <3>1. k \in i..n /\ ~(m <= k)
      BY <1>1, <2>1
    <3>2. k \in places
      BY <2>2, <3>1
    <3> QED BY <1>3, <3>1, <3>2
  <2> QED BY <2>1, <2>2
<1>5. PICK f : /\ f = FirstFrom(text, set, i) /\ f \in i..n /\ text[f] \in set
               /\ \A k \in i..(f - 1) : text[k] \notin set
  BY <1>1, <1>4 DEF FirstFrom
<1>6. f <= p
  <2> SUFFICES ASSUME ~(f <= p) PROVE FALSE
    OBVIOUS
  <2>1. p \in i..(f - 1)
    BY <1>1, <1>5
  <2> QED BY <1>5, <2>1
<1> QED
  BY <1>1, <1>5, <1>6

\* The parser of Bash fences: the first block, up to the next fence.
LEMMA ParseFencedIs ==
  ASSUME NEW text \in Seq(Contents), NEW out, out = ParseFenced(text)
  PROVE  /\ out.kind \in {"command", "done", "unparseable"} /\ out.cmd \in Seq(Contents)
         /\ out.kind = "done" => Head(text) = "done"
         /\ out.kind = "command" => \E i, j \in DOMAIN text :
              /\ i < j /\ text[i] = "open" /\ text[j] \in Fences
              /\ out.cmd = SubSeq(text, i + 1, j - 1)
              /\ \A k \in 1..(j - 1) : k # i => text[k] # "open"
              /\ \A k \in (i + 1)..(j - 1) : text[k] \notin Fences
<1>0. << >> \in Seq(Contents)
  BY FreshTypes
<1>1. CASE text # << >> /\ Head(text) = "done"
  <2>1. out = [kind |-> "done", cmd |-> << >>]
    BY <1>1 DEF ParseFenced
  <2> QED BY <1>0, <1>1, <2>1
<1>2. CASE ~(text # << >> /\ Head(text) = "done")
  <2>1. CASE ~ \E i, j \in DOMAIN text : i < j /\ text[i] = "open" /\ text[j] \in Fences
    <3>1. out = [kind |-> "unparseable", cmd |-> << >>]
      BY <1>2, <2>1 DEF ParseFenced
    <3> QED BY <1>0, <3>1
  <2>2. CASE \E i, j \in DOMAIN text : i < j /\ text[i] = "open" /\ text[j] \in Fences
    <3>1. PICK n \in Nat : n = Len(text) /\ DOMAIN text = 1..n
      BY LenProperties
    <3>2. PICK i0, j0 \in 1..n : i0 < j0 /\ text[i0] = "open" /\ text[j0] \in Fences
      BY <2>2, <3>1
    <3>3. PICK i : i = FirstFrom(text, {"open"}, 1)
      OBVIOUS
    <3>4. i \in 1..n /\ i <= i0 /\ text[i] = "open" /\ \A k \in 1..(i - 1) : text[k] # "open"
      <4>1. 1 \in Nat /\ 1 >= 1 /\ i0 \in 1..Len(text) /\ text[i0] \in {"open"}
        BY <3>1, <3>2
      <4>2. /\ FirstFrom(text, {"open"}, 1) \in 1..Len(text) /\ FirstFrom(text, {"open"}, 1) <= i0
            /\ text[FirstFrom(text, {"open"}, 1)] \in {"open"}
            /\ \A k \in 1..(FirstFrom(text, {"open"}, 1) - 1) : text[k] \notin {"open"}
        BY <4>1, FirstFromIs
      <4> QED BY <3>1, <3>3, <4>2
    <3>5. PICK j : j = FirstFrom(text, Fences, i + 1)
      OBVIOUS
    <3>6. /\ j \in (i + 1)..n /\ text[j] \in Fences /\ \A k \in (i + 1)..(j - 1) : text[k] \notin Fences
      <4>1. i + 1 \in Nat /\ i + 1 >= 1 /\ j0 \in (i + 1)..Len(text)
        BY <3>1, <3>2, <3>4
      <4>2. /\ FirstFrom(text, Fences, i + 1) \in (i + 1)..Len(text)
            /\ text[FirstFrom(text, Fences, i + 1)] \in Fences
            /\ \A k \in (i + 1)..(FirstFrom(text, Fences, i + 1) - 1) : text[k] \notin Fences
        BY <3>2, <4>1, FirstFromIs
      <4> QED BY <3>1, <3>5, <4>2
    <3>7. out = [kind |-> "command", cmd |-> SubSeq(text, i + 1, j - 1)]
      BY <1>2, <2>2, <3>3, <3>5 DEF ParseFenced
    <3>8. i \in DOMAIN text /\ j \in DOMAIN text /\ i < j
      BY <3>1, <3>4, <3>6
    <3>9. SubSeq(text, i + 1, j - 1) \in Seq(Contents)
      <4>1. i + 1 \in Int /\ j - 1 \in Int
        BY <3>4, <3>6
      <4>2. \A k \in (i + 1)..(j - 1) : text[k] \in Contents
        <5> SUFFICES ASSUME NEW k \in (i + 1)..(j - 1) PROVE text[k] \in Contents
          OBVIOUS
        <5>1. k \in 1..Len(text)
          BY <3>1, <3>4, <3>6
        <5> QED BY <5>1, ElementOfSeq
      <4> QED BY <4>1, <4>2, SubSeqProperties
    <3>10. \A k \in 1..(j - 1) : k # i => text[k] # "open"
      <4> SUFFICES ASSUME NEW k \in 1..(j - 1), k # i PROVE text[k] # "open"
        OBVIOUS
      <4>1. CASE k < i
        <5>1. k \in 1..(i - 1)
          BY <3>4, <4>1
        <5> QED BY <3>4, <5>1
      <4>2. CASE ~(k < i)
        <5>1. k \in (i + 1)..(j - 1)
          BY <3>4, <3>6, <4>2
        <5> QED BY <3>6, <5>1 DEF Fences
      <4> QED BY <4>1, <4>2
    <3>11. out.kind = "command" /\ out.cmd = SubSeq(text, i + 1, j - 1)
      <4> DEFINE cmd == SubSeq(text, i + 1, j - 1)
      <4>1. out = [kind |-> "command", cmd |-> cmd]
        BY <3>7
      <4> HIDE DEF cmd
      <4>2. out.kind = "command" /\ out.cmd = cmd
        BY <4>1
      <4> QED BY <4>2 DEF cmd
    <3> QED BY <3>4, <3>6, <3>8, <3>9, <3>10, <3>11
  <2> QED BY <2>1, <2>2
<1> QED
  BY <1>1, <1>2

\* The parser of native actions: the exact wrapper of the call the endpoint made, or DONE.
LEMMA ParseNativeIs ==
  ASSUME NEW g \in GenType, NativeAction(g) # Raise,
         g.finish \in Finish, NEW out, out = ParseNative(NativeAction(g).text)
  PROVE  /\ out.cmd \in Seq(Contents)
         /\ \/ /\ out.kind = "command" /\ g.call.id # "none" /\ g.call.name = "execute_bash"
               /\ g.call.args = <<"head">> \o out.cmd \o <<"tail">> /\ g.finish = "tool_calls"
            \/ /\ out.kind = "done" /\ g.call # NoCall /\ g.finish = "tool_calls"
               /\ g.call.name = "finish" /\ g.call.args = <<"done">>
            \/ /\ out.kind = "done" /\ g.call = NoCall
               /\ g.finish = "stop" /\ g.text = <<"done">>
<1>0. << >> \in Seq(Contents) /\ <<"done">> \in Seq(Contents) /\ g.call \in Calls
      /\ "open" \in Contents /\ "close" \in Contents
  BY FreshTypes DEF GenType, Contents
<1>1. ASSUME NativeAction(g) = Event("delta", <<"done">>, "none")
      PROVE  out = [kind |-> "done", cmd |-> << >>]
  <2>1. NativeAction(g).text = <<"done">>
    BY <1>1 DEF Event
  <2> QED BY <2>1 DEF ParseNative
<1>2. CASE g.call = NoCall
  <2>1. g.finish = "stop" /\ g.text = <<"done">> /\ NativeAction(g) = Event("delta", <<"done">>, "none")
    BY <1>2 DEF NativeAction
  <2>2. out = [kind |-> "done", cmd |-> << >>]
    BY <1>1, <2>1
  <2>3. out.kind = "done" /\ out.cmd = << >>
    BY <2>2
  <2> QED BY <1>0, <1>2, <2>1, <2>3, Zenon
<1>3. CASE g.call # NoCall
  <2>1. g.finish = "tool_calls" /\ NativeAction(g) = CanonicalCall(g.call)
    BY <1>3 DEF NativeAction
  <2>2. CASE /\ g.call.name = "finish" /\ g.call.args = <<"done">>
             /\ CanonicalCall(g.call) = Event("delta", <<"done">>, "none")
    <3>1. out = [kind |-> "done", cmd |-> << >>]
      BY <1>1, <2>1, <2>2
    <3>2. out.kind = "done" /\ out.cmd = << >>
      BY <3>1
    <3> QED BY <1>0, <1>3, <2>1, <2>2, <3>2, Zenon
  <2>3. CASE /\ g.call.id # "none" /\ g.call.name = "execute_bash"
             /\ CanonicalCall(g.call)
                  = Event("delta", <<"open">> \o Command(g.call.args) \o <<"close">>, "none")
             /\ Command(g.call.args) \in Seq(Contents)
             /\ g.call.args = <<"head">> \o Command(g.call.args) \o <<"tail">>
    <3>1. PICK s \in Seq(Contents) : s = Command(g.call.args)
      BY <2>3
    <3> DEFINE w == <<"open">> \o s \o <<"close">>
    <3>2. NativeAction(g) = Event("delta", w, "none")
      BY <2>1, <2>3, <3>1
    <3>3. w[1] = "open" /\ Command(w) = s
      BY <1>0, Wrapped, CommandOfWrapped
    <3> HIDE DEF w
    <3>4. NativeAction(g).text = w /\ w # <<"done">>
      BY <3>2, <3>3 DEF Event
    <3>5. out = [kind |-> "command", cmd |-> s]
      BY <3>3, <3>4 DEF ParseNative
    <3> QED BY <2>1, <2>3, <3>1, <3>5
  <2> QED BY <1>0, <2>1, <2>2, <2>3, CanonicalIs
<1> QED
  BY <1>2, <1>3

\* The loop acts on a complete stream, or raises.
LEMMA CompleteStep == ASSUME StreamInv, Complete PROVE StreamInv'
<1> USE InvParts
<1>1. CASE loop.finish \notin Allowed
  BY <1>1, AbortStep DEF Complete
<1>2. CASE loop.finish \in Allowed
  <2>1. /\ pc = "stream" /\ events = << >> /\ gen.returned
        /\ outcome' = (IF mode = "native" THEN ParseNative(loop.text) ELSE ParseFenced(loop.text))
        /\ pc' = (IF outcome'.kind = "command" THEN "tool" ELSE "end")
        /\ open' = FALSE /\ granted' = 0
        /\ UNCHANGED <<events, reading, untouched, receipt>>
    BY <1>2 DEF Complete
  <2>2. /\ gen \in GenType /\ sent \in SentType /\ loop \in LoopType /\ mode' = mode /\ sent' = sent
    BY <2>1 DEF StreamState, untouched, reading
  <2>3. TransportInStep /\ LoopInStep /\ Yielded = loop.text
    <3>1. TransportInStep /\ LoopInStep
      BY <2>1 DEF StreamInStep
    <3>2. loop.text \o << >> = loop.text
      BY <2>2, ConcatEmptySeq DEF LoopType
    <3> QED BY <2>1, <3>1, <3>2 DEF LoopInStep
  <2>4. /\ gen.finish = loop.finish /\ gen.finish \in Allowed /\ gen.finish # "none"
        /\ sent.done /\ sent.finish = <<gen.finish>> /\ Len(sent.finish) = 1 /\ ~sent.late
    <3>1. loop.finish # "none"
      BY <1>2 DEF Allowed
    <3>2. gen.finish = loop.finish
      BY <2>3, <3>1 DEF LoopInStep
    <3>3. sent.done /\ sent.finish = <<gen.finish>> /\ ~sent.late
      BY <2>1, <2>3, <3>1, <3>2 DEF TransportInStep
    <3> QED BY <1>2, <3>1, <3>2, <3>3
  <2>5. /\ outcome'.kind \in {"command", "done", "unparseable"} /\ outcome'.cmd \in Seq(Contents)
        /\ ActsOnWhole'
    <3>1. CASE mode # "native"
      <4>1. gen.finish = "stop" /\ ~sent.tool /\ loop.text = sent.text
        BY <2>3, <2>4, <3>1 DEF Allowed, TransportInStep, Yielded
      <4>2. outcome' = ParseFenced(sent.text) /\ sent.text \in Seq(Contents)
        BY <2>1, <2>2, <3>1, <4>1 DEF SentType
      <4>3. PICK out : out = outcome'
        OBVIOUS
      <4>4. /\ out.kind \in {"command", "done", "unparseable"} /\ out.cmd \in Seq(Contents)
            /\ out.kind = "done" => Head(sent.text) = "done"
            /\ out.kind = "command" => \E i, j \in DOMAIN sent.text :
                 /\ i < j /\ sent.text[i] = "open" /\ sent.text[j] \in Fences
                 /\ out.cmd = SubSeq(sent.text, i + 1, j - 1)
                 /\ \A k \in 1..(j - 1) : k # i => sent.text[k] # "open"
                 /\ \A k \in (i + 1)..(j - 1) : sent.text[k] \notin Fences
        BY <4>2, <4>3, ParseFencedIs
      <4>5. ActsOnWhole'
        BY <2>2, <2>4, <3>1, <4>1, <4>3, <4>4 DEF ActsOnWhole
      <4> QED BY <4>3, <4>4, <4>5
    <3>2. CASE mode = "native"
      <4>1. /\ gen.finish \in {"stop", "tool_calls"} /\ NativeAction(gen) # Raise
            /\ loop.text = NativeAction(gen).text
        BY <2>1, <2>3, <2>4, <3>2 DEF Allowed, TransportInStep, Yielded
      <4>2. /\ sent.tool <=> gen.call # NoCall
            /\ sent.args = gen.call.args /\ sent.ids = {gen.call.id} \ {"none"}
            /\ sent.names # << >> => gen.call.id = "a"
            /\ gen.call.name = IF sent.names = << >> THEN "none"
                               ELSE IF Len(sent.names) = 1 THEN sent.names[1] ELSE "unsupported"
            /\ gen.text = sent.text
        BY <2>3, <3>2 DEF TransportInStep
      <4>3. PICK out : out = outcome' /\ out = ParseNative(NativeAction(gen).text)
        BY <2>1, <3>2, <4>1
      <4>4. \A x \in Names : gen.call.name = x => sent.names = <<x>>
        <5> SUFFICES ASSUME NEW x \in Names, gen.call.name = x PROVE sent.names = <<x>>
          OBVIOUS
        <5>1. sent.names \in Seq(Names) /\ Len(sent.names) = 1 /\ sent.names[1] = x
          BY <2>2, <4>2 DEF SentType, Names
        <5> QED BY <5>1
      <4>5. gen.finish \in Finish /\ out.cmd \in Seq(Contents)
        BY <2>2, <4>1, <4>3, ParseNativeIs DEF GenType
      <4>6. CASE /\ out.kind = "command" /\ gen.call.id # "none" /\ gen.call.name = "execute_bash"
                 /\ gen.call.args = <<"head">> \o out.cmd \o <<"tail">> /\ gen.finish = "tool_calls"
        <5>1. sent.names = <<"execute_bash">> /\ gen.call.id = "a" /\ sent.ids = {"a"}
          BY <4>2, <4>4, <4>6 DEF Names
        <5> QED BY <2>2, <2>4, <3>2, <4>2, <4>3, <4>5, <4>6, <5>1 DEF ActsOnWhole
      <4>7. CASE /\ out.kind = "done" /\ gen.call # NoCall /\ gen.finish = "tool_calls"
                 /\ gen.call.name = "finish" /\ gen.call.args = <<"done">>
        <5>1. sent.names = <<"finish">>
          BY <4>4, <4>7 DEF Names
        <5> QED BY <2>2, <2>4, <3>2, <4>2, <4>3, <4>5, <4>7, <5>1 DEF ActsOnWhole
      <4>8. CASE /\ out.kind = "done" /\ gen.call = NoCall
                 /\ gen.finish = "stop" /\ gen.text = <<"done">>
        BY <2>2, <2>4, <3>2, <4>2, <4>3, <4>5, <4>8 DEF ActsOnWhole
      <4> QED BY <2>2, <4>1, <4>3, <4>5, <4>6, <4>7, <4>8, ParseNativeIs
    <3> QED BY <3>1, <3>2
  <2>6. LoopState' /\ ServerState' /\ OutcomeState' /\ StreamState'
    <3>1. LoopState'
      BY <2>1 DEF LoopState, untouched
    <3>2. ServerState'
      <4>1. MaxTokens \in Nat
        BY ModelStreamAssumption
      <4>2. open' \in BOOLEAN
        BY <2>1, Zenon
      <4> QED BY <2>1, <4>1, <4>2 DEF ServerState, untouched
    <3>3. OutcomeState'
      BY <2>5 DEF OutcomeState, Outcomes
    <3>4. StreamState'
      BY <2>1 DEF StreamState, reading
    <3> QED BY <3>1, <3>2, <3>3, <3>4
  <2>7. ResponsesClosed' /\ Unstarted' /\ StreamInStep' /\ BudgetHolds'
    BY <2>1 DEF ResponsesClosed, Unstarted, StreamInStep, BudgetHolds
  <2> QED
    BY <2>5, <2>6, <2>7, InvPrime
<1> QED
  BY <1>1, <1>2

LEMMA StutterStream == ASSUME StreamInv, UNCHANGED vars PROVE StreamInv'
<1> USE InvParts
<1>1. LoopState' /\ ServerState' /\ OutcomeState' /\ StreamState'
  BY DEF LoopState, ServerState, OutcomeState, StreamState, vars
<1>2. ResponsesClosed' /\ Unstarted' /\ BudgetHolds' /\ ActsOnWhole'
  BY DEF ResponsesClosed, Unstarted, BudgetHolds, ActsOnWhole, vars
<1>3. StreamInStep'
  BY DEF StreamInStep, TransportInStep, LoopInStep, Yielded, NativeAction, CanonicalCall, vars
<1> QED
  BY <1>1, <1>2, <1>3, InvPrime

\* The loop and the transport agree about a stream nobody objects to, and the rest of the
\* conversation is consistent (run_agent in live_ab.py, stream_chat_completion in
\* model_stream.py and stream_native_bash in model_tools.py).
THEOREM StreamInvHolds == Spec => []StreamInv
<1>1. Init => StreamInv
  BY InitStream
<1>2. StreamInv /\ [Next]_vars => StreamInv'
  <2> SUFFICES ASSUME StreamInv, [Next]_vars PROVE StreamInv'
    OBVIOUS
  <2>1. CASE UNCHANGED vars
    BY <2>1, StutterStream
  <2>2. CASE Next
    BY <2>2, PreflightStep, TakeBudgetStep, PostStep, RestartStep, DataLineStep, ErrorLineStep,
       BlankLineStep, BreaksStep, TakeStep, CallbackFailsStep, CompleteStep, ToolStep, StutterStream
    DEF Next, Ended
  <2> QED BY <2>1, <2>2
<1> QED
  BY <1>1, <1>2, PTL DEF Spec

\* What the loop acts on arrived whole, and is what the endpoint sent (live_ab.py:run_agent).
THEOREM ActsOnWholeHolds == Spec => []ActsOnWhole
<1>1. StreamInv => ActsOnWhole
  BY DEF StreamInv
<1> QED
  BY <1>1, StreamInvHolds, PTL

\* What a server generates under a budget fits in its context (sglang_budget.py:_guard_conversion).
THEOREM BudgetAlwaysHolds == Spec => []BudgetHolds
<1>1. StreamInv => BudgetHolds
  BY DEF StreamInv
<1> QED
  BY <1>1, StreamInvHolds, PTL

=============================================================================
