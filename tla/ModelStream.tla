---------------------------- MODULE ModelStream ----------------------------
(***************************************************************************)
(* One conversation of the agent loop with its model: run_agent            *)
(* (src/eval/live_ab.py), the two streaming transports it reads from       *)
(* (src/eval/model_stream.py, src/eval/model_tools.py), and the endpoint,  *)
(* whose part in counting tokens is src/eval/sglang_budget.py.             *)
(*                                                                         *)
(* The endpoint sends whatever lines it likes and may be restarted, the    *)
(* connection may end after any of them, and the loop's callbacks may      *)
(* raise.  Transport and loop are one thread: the loop takes the events a  *)
(* transport yields before the transport reads on.                         *)
(*                                                                         *)
(* Text is a sequence of pieces.  In content they are a fence that opens a *)
(* Bash block, a fence, a word and DONE; in the arguments of a tool call   *)
(* the JSON before and after the command, a fence and a word of it, and    *)
(* the JSON of finish.  Every data line holds one JSON text.               *)
(***************************************************************************)
EXTENDS Integers, Sequences, SequencesExt

CONSTANTS
  MaxTokens,    \* max_tokens of the run
  Contexts,     \* context lengths a server may be started with
  Prompts,      \* numbers of tokens a server may render the messages to
  Reserved,     \* num_reserved_tokens of the servers
  MaxSteps,     \* max_steps of the run
  MaxChunks,    \* bound: chunks of one stream
  MaxRestarts   \* bound: restarts of the server

ASSUME ModelStreamAssumption ==
  /\ MaxTokens \in Nat \ {0}
  /\ Contexts \subseteq Nat /\ Prompts \subseteq Nat /\ Reserved \in Nat
  /\ {MaxSteps, MaxChunks, MaxRestarts} \subseteq Nat

VARIABLES
  mode,      \* stream_fn: "fenced", "budgeted" (fenced with context_budget) or "native"
  pc,        \* where the loop is
  step,      \* model_step
  server,    \* the endpoint's process, if it counts tokens
  receipt,   \* what the preflight returned
  granted,   \* max_new_tokens of the generation the endpoint accepted
  open,      \* the response is open
  frame,     \* _sse_data: the unfinished frame
  gen,       \* the transport: finish_reason, ordinary_content, call, returned
  events,    \* what the transport yields before it reads on
  loop,      \* the loop: text, finish_reason
  outcome,   \* the command, or why there is none
  sent,      \* history: the contents of the complete frames of this stream
  chunks     \* how many chunks this stream had

vars == <<mode, pc, step, server, receipt, granted, open, frame, gen, events, loop, outcome,
          sent, chunks>>

Contents == {"open", "close", "word", "done"}
Arguments == {"head", "tail", "close", "word", "done"}
Finishes == {"stop", "length", "tool_calls"}
Servers == [instance : Nat, context : Contexts, prompt : Prompts]
NoServer == [instance |-> 0, context |-> 0, prompt |-> 0]

NoDelta == [id |-> "none", name |-> "none", arg |-> "none"]
Second == [NoDelta EXCEPT !.id = "second"]         \* another index, or two calls at once
Deltas ==
  {NoDelta, Second, [id |-> "b", name |-> "none", arg |-> "tail"]}
  \cup [id : {"a"}, name : {"execute_bash"}, arg : {"none", "head"}]
  \cup [id : {"a"}, name : {"finish"}, arg : {"done"}]
  \cup [id : {"none"}, name : {"none"}, arg : Arguments]

\* A chunk: a piece of content, reasoning or the empty string, or a delta of a tool
\* call, perhaps with the finish reason; or usage.
NoChunk == [text |-> "none", delta |-> NoDelta, finish |-> "none", usage |-> "none"]
Chunks ==
  ([text : Contents \cup {"none", "empty", "thought"}, delta : {NoDelta},
    finish : Finishes \cup {"none"}, usage : {"none"}] \ {NoChunk})
  \cup [text : {"none"}, delta : Deltas \ {NoDelta}, finish : {"none", "tool_calls"}, usage : {"none"}]
  \cup [text : {"none"}, delta : {NoDelta}, finish : {"none"}, usage : {"counted", "excess", "invalid"}]

\* Malformed: not JSON, not a chunk, or an error of the endpoint.
Done == [NoChunk EXCEPT !.text = "[DONE]"]
Malformed == [NoChunk EXCEPT !.text = "malformed"]
Payloads == Chunks \cup {Done, Malformed}

NoFrame == [data |-> NoChunk, event |-> "none"]
NoCall == [id |-> "none", name |-> "none", args |-> <<>>]
Fresh == [finish |-> "none", text |-> <<>>, call |-> NoCall, returned |-> FALSE]
Quiet == [text |-> <<>>, finish |-> "none"]
Nothing == [kind |-> "none", cmd |-> <<>>]
Unsent == [text |-> <<>>, tool |-> FALSE, ids |-> {}, names |-> <<>>, args |-> <<>>,
           finish |-> <<>>, late |-> FALSE, done |-> FALSE]
Names == {"execute_bash", "finish"}
Calls == [id : {"none", "a", "b"}, name : Names \cup {"none", "unsupported"}, args : Seq(Arguments)]
Events ==
  [type : {"raise", "delta"}, text : Seq(Contents), value : {"none"}]
  \cup [type : {"usage"}, text : {<<>>}, value : {"counted", "excess"}]
  \cup [type : {"done"}, text : {<<>>}, value : Finishes]

TypeOK ==
  /\ mode \in {"fenced", "budgeted", "native"}
  /\ pc \in {"request", "budget", "post", "stream", "tool", "end"}
  /\ step \in 0..MaxSteps
  /\ server \in Servers \cup {NoServer} /\ server.instance <= MaxRestarts + 1
  /\ receipt \in Servers \cup {NoServer}
  /\ granted \in 0..MaxTokens
  /\ open \in BOOLEAN
  /\ frame \in [data : Payloads \cup {NoChunk}, event : {"none", "error"}]
  /\ gen \in [finish : Finishes \cup {"none"}, text : Seq(Contents), call : Calls, returned : BOOLEAN]
  /\ events \in Seq(Events) /\ Len(events) <= 2
  /\ loop \in [text : Seq(Contents), finish : Finishes \cup {"none"}]
  /\ outcome.kind \in {"none", "command", "done", "unparseable", "model_error", "tool_error",
                       "max_steps"}
  /\ outcome.cmd \in Seq(Contents)
  /\ sent \in [text : Seq(Contents), tool : BOOLEAN, ids : SUBSET {"a", "b"}, names : Seq(Names),
               args : Seq(Arguments), finish : Seq(Finishes), late : BOOLEAN, done : BOOLEAN]
  /\ chunks \in 0..MaxChunks

Init ==
  /\ mode \in {"fenced", "budgeted", "native"}
  /\ IF MaxSteps = 0        \* range(max_steps) is empty
     THEN pc = "end" /\ step = 0 /\ outcome = [kind |-> "max_steps", cmd |-> <<>>]
     ELSE pc = "request" /\ step = 1 /\ outcome = Nothing
  /\ server \in IF mode = "budgeted" THEN [instance : {1}, context : Contexts, prompt : Prompts]
                ELSE {NoServer}
  /\ receipt = NoServer /\ granted = 0 /\ open = FALSE
  /\ frame = NoFrame /\ gen = Fresh /\ events = <<>>
  /\ loop = Quiet
  /\ sent = Unsent /\ chunks = 0

untouched == <<mode, step, server>>
reading == <<frame, gen, loop, sent, chunks>>

\* A model step leaves nothing of its stream.
Forget == /\ frame' = NoFrame /\ gen' = Fresh /\ events' = <<>> /\ loop' = Quiet
          /\ sent' = Unsent /\ chunks' = 0

\* What the loop does about an exception: the stream is closed, which closes the
\* response, and the run ends.
Abort ==
  /\ pc' = "end" /\ outcome' = [kind |-> "model_error", cmd |-> <<>>]
  /\ open' = FALSE /\ granted' = 0
  /\ Forget

-----------------------------------------------------------------------------
(* The context budget and the request *)

Least(a, b) == IF a < b THEN a ELSE b
Available(srv) == srv.context - srv.prompt - Reserved - 1

Effective(srv) == Least(MaxTokens, IF Available(srv) < 0 THEN 0 ELSE Available(srv))

\* _context_budget_preflight: the count of this server, or an error of any kind.
Preflight ==
  /\ pc = "request" /\ mode = "budgeted"
  /\ \/ /\ Reserved < server.context /\ server.context > 1
        /\ receipt' = server
        /\ pc' = "budget" /\ UNCHANGED <<outcome, open, granted, events, reading>>
     \/ Abort /\ UNCHANGED receipt
  /\ UNCHANGED untouched

\* The loop records the budget; the transport gives up when nothing is left.
TakeBudget ==
  /\ pc = "budget"
  /\ IF Effective(receipt) = 0 THEN Abort
     ELSE pc' = "post" /\ UNCHANGED <<outcome, open, granted, events, reading>>
  /\ UNCHANGED <<untouched, receipt>>

\* A count that is good for as long as the client wants.
Accepts_AnyReceipt(srv) == mode = "budgeted" => receipt # NoServer

\* _guard_conversion: the receipt must be what this server would count now.
Accepts(srv) == mode = "budgeted" => receipt = srv /\ Effective(receipt) <= Available(srv)

\* The request: an answer to be streamed, or no connection, or an HTTP error.
Post ==
  /\ pc = IF mode = "budgeted" THEN "post" ELSE "request"
  /\ \/ /\ Accepts(server)
        /\ granted' = IF mode = "budgeted" THEN Effective(receipt) ELSE MaxTokens
        /\ open' = TRUE /\ pc' = "stream"
        /\ UNCHANGED <<outcome, events, reading>>
     \/ Abort
  /\ UNCHANGED <<untouched, receipt>>

\* The server is started again.  During a stream that is a response that breaks, during
\* a command it is as good as after it.
Restart ==
  /\ server.instance \in 1..MaxRestarts
  /\ pc \in {"request", "budget", "post"}
  /\ server' \in [instance : {server.instance + 1}, context : Contexts, prompt : Prompts]
  /\ UNCHANGED <<mode, step, pc, receipt, granted, open, events, reading, outcome>>

-----------------------------------------------------------------------------
(* The transports *)

Raise == [type |-> "raise", text |-> <<>>, value |-> "none"]
Event(type, text, value) == [type |-> type, text |-> text, value |-> value]

\* _extend_call
Extends(call, d) ==
  /\ d # Second
  /\ d.id # "none" => call.id \in {"none", d.id}

Extend(call, d) ==
  [id |-> IF d.id = "none" THEN call.id ELSE d.id,
   name |-> IF d.name = "none" THEN call.name
            ELSE IF call.name = "none" THEN d.name ELSE "unsupported",
   args |-> IF d.arg = "none" THEN call.args ELSE Append(call.args, d.arg)]

\* _canonical_call: the arguments are one JSON text with a command that is not blank.
Command(args) == SubSeq(args, 2, Len(args) - 1)
IsCommand(args) ==
  /\ Len(args) > 2 /\ Head(args) = "head" /\ Last(args) = "tail"
  /\ Range(Command(args)) \subseteq {"word", "close"}

CanonicalCall(call) ==
  IF call.id = "none" THEN Raise
  ELSE IF call.name = "finish" /\ call.args = <<"done">>
       THEN Event("delta", <<"done">>, "none")
  ELSE IF call.name = "execute_bash" /\ IsCommand(call.args)
       THEN Event("delta", <<"open">> \o Command(call.args) \o <<"close">>, "none")
  ELSE Raise

\* What a frame with [DONE] yields.
ChatDone(g) ==
  IF g.finish = "none" THEN <<Raise>> ELSE <<Event("done", <<>>, g.finish)>>

\* Executing a call that is complete although its stream was cut.
NativeDone_Length(g) ==
  IF g.call # NoCall /\ CanonicalCall(g.call) # Raise
  THEN <<CanonicalCall(g.call), Event("done", <<>>, "tool_calls")>>
  ELSE <<Raise>>

\* What a stream that was not cut asks for.
NativeAction(g) ==
  IF g.call # NoCall THEN IF g.finish = "tool_calls" THEN CanonicalCall(g.call) ELSE Raise
  ELSE IF g.finish = "stop" /\ g.text = <<"done">> THEN Event("delta", <<"done">>, "none")
  ELSE Raise

NativeDone(g) ==
  IF g.finish = "none" THEN <<Raise>>
  ELSE IF g.finish = "length" THEN <<Event("done", <<>>, g.finish)>>
  ELSE IF NativeAction(g) = Raise THEN <<Raise>>
  ELSE <<NativeAction(g), Event("done", <<>>, g.finish)>>

\* What makes a transport reject a chunk before it yields anything of it.
Rejects(g, c) ==
  \/ c = Malformed
  \/ g.finish # "none" /\ (c.text \in Contents \cup {"thought"} \/ c.delta # NoDelta)
  \/ IF mode = "native" THEN c.delta # NoDelta /\ ~Extends(g.call, c.delta)
     ELSE c.delta # NoDelta

\* The text of a chunk; a native transport only keeps it for itself.
Text(c) == IF c.text \in Contents THEN <<c.text>> ELSE <<>>

Yield(g, c) ==
  (IF c.text = "none" /\ c.delta = NoDelta THEN <<>>
   ELSE <<Event("delta", IF mode = "native" THEN <<>> ELSE Text(c), "none")>>)
  \o (IF c.finish # "none" /\ g.finish # "none" THEN <<Raise>> ELSE <<>>)
  \o (IF c.usage = "none" THEN <<>>
      ELSE IF c.usage = "invalid" THEN <<Raise>> ELSE <<Event("usage", <<>>, c.usage)>>)

After(g, c) ==
  [g EXCEPT !.text = @ \o Text(c),
            !.call = IF c.delta = NoDelta THEN @ ELSE Extend(@, c.delta),
            !.finish = IF c.finish = "none" THEN @ ELSE c.finish]

\* One frame's data in stream_chat_completion or stream_native_bash.
Handle(c) ==
  IF c = Done
  THEN /\ events' = IF mode = "native" THEN NativeDone(gen) ELSE ChatDone(gen)
       /\ gen' = [gen EXCEPT !.returned = TRUE]
  ELSE IF Rejects(gen, c) THEN events' = <<Raise>> /\ UNCHANGED gen
  ELSE events' = Yield(gen, c) /\ gen' = After(gen, c)

\* History: what the complete frames said.
Note(c) ==
  sent' = [text |-> sent.text \o Text(c),
           tool |-> sent.tool \/ c.delta # NoDelta,
           ids |-> sent.ids \cup ({c.delta.id} \cap {"a", "b"}),
           names |-> IF c.delta.name = "none" THEN sent.names ELSE Append(sent.names, c.delta.name),
           args |-> IF c.delta.arg = "none" THEN sent.args ELSE Append(sent.args, c.delta.arg),
           finish |-> IF c.finish = "none" THEN sent.finish ELSE Append(sent.finish, c.finish),
           late |-> \/ sent.late
                    \/ sent.finish # <<>> /\ (c.text \in Contents \cup {"thought"} \/ c.delta # NoDelta),
           done |-> sent.done \/ c = Done]

listening == pc = "stream" /\ events = <<>> /\ ~gen.returned
receiving == <<untouched, pc, receipt, granted, open, loop, outcome>>

\* _sse_data: a data line, and an event line that announces an error.  Two JSON texts
\* in one frame are none.
DataLine ==
  /\ listening
  /\ \E p \in Payloads :
       /\ p \in Chunks => chunks < MaxChunks
       /\ chunks' = IF p \in Chunks THEN chunks + 1 ELSE chunks
       /\ frame' = [frame EXCEPT !.data = IF @ = NoChunk THEN p ELSE Malformed]
  /\ UNCHANGED <<receiving, gen, events, sent>>

ErrorLine ==
  /\ listening
  /\ frame' = [frame EXCEPT !.event = "error"]
  /\ UNCHANGED <<receiving, gen, events, sent, chunks>>

\* The blank line that ends a frame.
BlankLine ==
  /\ listening
  /\ frame' = NoFrame
  /\ \/ frame.event = "error" /\ events' = <<Raise>> /\ UNCHANGED <<gen, sent>>
     \/ frame.event = "none" /\ frame.data # NoChunk /\ Handle(frame.data) /\ Note(frame.data)
  /\ UNCHANGED <<receiving, chunks>>

\* The response ends, cannot be read or decoded, or has a field SSE does not have.  It
\* may have ended inside a frame.
Breaks ==
  /\ listening
  /\ events' = <<Raise>>
  /\ UNCHANGED <<receiving, frame, gen, sent, chunks>>

-----------------------------------------------------------------------------
(* run_agent *)

\* What the loop objects to in an event.
Objects(e) ==
  \/ e = Raise
  \/ loop.finish # "none"
  \/ e.type = "usage" /\ mode = "budgeted" /\ e.value = "excess"

Take ==
  /\ pc = "stream" /\ events # <<>>
  /\ LET e == Head(events) IN
     IF Objects(e) THEN Abort
     ELSE /\ events' = Tail(events)
          /\ loop' = [text |-> loop.text \o e.text,
                      finish |-> IF e.type = "done" THEN e.value ELSE loop.finish]
          /\ UNCHANGED <<pc, outcome, open, granted, frame, gen, sent, chunks>>
  /\ UNCHANGED <<untouched, receipt>>

\* Leaving the loop with the generator suspended.
CallbackFails_NoClose ==
  /\ pc \in {"request", "budget", "stream"}
  /\ pc' = "end" /\ outcome' = [kind |-> "model_error", cmd |-> <<>>]
  /\ events' = <<>>
  /\ UNCHANGED <<untouched, receipt, reading, open, granted>>

\* on_stream_event raises, or the thread is interrupted.
CallbackFails ==
  /\ pc \in {"request", "budget", "stream"}
  /\ Abort
  /\ UNCHANGED <<untouched, receipt>>

Fences == {"open", "close"}
FirstFrom(text, set, i) == CHOOSE j \in i..Len(text) :
  text[j] \in set /\ \A k \in i..(j - 1) : text[k] \notin set

\* _parse_action: the text between the first fence that opens a Bash block and the
\* next fence.  A text that begins with DONE is none.
ParseFenced(text) ==
  IF text # <<>> /\ Head(text) = "done" THEN [kind |-> "done", cmd |-> <<>>]
  ELSE IF \E i, j \in DOMAIN text : i < j /\ text[i] = "open" /\ text[j] \in Fences
       THEN LET i == FirstFrom(text, {"open"}, 1)
                j == FirstFrom(text, Fences, i + 1)
            IN [kind |-> "command", cmd |-> SubSeq(text, i + 1, j - 1)]
  ELSE [kind |-> "unparseable", cmd |-> <<>>]

\* parse_native_action: the exact wrapper is removed.
ParseNative(text) ==
  IF text = <<"done">> THEN [kind |-> "done", cmd |-> <<>>]
  ELSE [kind |-> "command", cmd |-> Command(text)]

\* The finish reasons the loop takes for a complete generation.
Allowed == IF mode = "native" THEN {"stop", "tool_calls"} ELSE {"stop"}

\* The stream is over: the loop acts on the text or raises.
Complete ==
  /\ pc = "stream" /\ events = <<>> /\ gen.returned
  /\ IF loop.finish \in Allowed
     THEN /\ outcome' = IF mode = "native" THEN ParseNative(loop.text) ELSE ParseFenced(loop.text)
          /\ pc' = IF outcome'.kind = "command" THEN "tool" ELSE "end"
          /\ open' = FALSE /\ granted' = 0 /\ UNCHANGED <<events, reading>>
     ELSE Abort
  /\ UNCHANGED <<untouched, receipt>>

\* exec_fn and its callbacks; then the next step.
Tool ==
  /\ pc = "tool"
  /\ \/ /\ step < MaxSteps
        /\ step' = step + 1 /\ pc' = "request" /\ outcome' = Nothing
     \/ /\ step = MaxSteps
        /\ pc' = "end" /\ outcome' = [kind |-> "max_steps", cmd |-> <<>>] /\ UNCHANGED step
     \/ pc' = "end" /\ outcome' = [kind |-> "tool_error", cmd |-> <<>>] /\ UNCHANGED step
  /\ Forget
  /\ receipt' = NoServer
  /\ UNCHANGED <<mode, server, open, granted>>

Ended == pc = "end" /\ UNCHANGED vars

Next ==
  \/ Preflight \/ TakeBudget \/ Post \/ Restart
  \/ DataLine \/ ErrorLine \/ BlankLine \/ Breaks
  \/ Take \/ CallbackFails \/ Complete \/ Tool \/ Ended

Spec == Init /\ [][Next]_vars

-----------------------------------------------------------------------------
(* Properties *)

\* A command is executed, and a run is taken for done, only on a generation that ended
\* normally and arrived whole: a finish reason the loop allows, nothing after it, and
\* [DONE].  The command is what the endpoint sent, piece by piece: in Bash fences, or as
\* the arguments of the one call of execute_bash, never as ordinary text beside it
\* (model_stream.py:4-5, model_tools.py:7-10, 155-158).
ActsOnWhole ==
  outcome.kind \in {"command", "done", "unparseable"} =>
    /\ sent.done /\ Len(sent.finish) = 1 /\ ~sent.late
    /\ mode # "native" =>
         /\ sent.finish = <<"stop">> /\ ~sent.tool
         /\ outcome.kind = "command" => \E i, j \in DOMAIN sent.text :
              /\ i < j /\ sent.text[i] = "open" /\ sent.text[j] \in Fences
              /\ outcome.cmd = SubSeq(sent.text, i + 1, j - 1)
              /\ \A k \in 1..(j - 1) : k # i => sent.text[k] # "open"
              /\ \A k \in (i + 1)..(j - 1) : sent.text[k] \notin Fences
         /\ outcome.kind = "done" => Head(sent.text) = "done"
    /\ mode = "native" =>
         /\ outcome.kind = "command" =>
              /\ sent.finish = <<"tool_calls">> /\ sent.ids = {"a"} /\ sent.names = <<"execute_bash">>
              /\ sent.args = <<"head">> \o outcome.cmd \o <<"tail">>
         /\ outcome.kind = "done" =>
              \/ sent.finish = <<"tool_calls">> /\ sent.names = <<"finish">> /\ sent.args = <<"done">>
              \/ sent.finish = <<"stop">> /\ sent.text = <<"done">> /\ ~sent.tool
         /\ outcome.kind # "unparseable"

\* No response stays open when its stream is over, however that came about: the loop's
\* tools run, and the run ends, with the connection closed (model_stream.py:241).
ResponsesClosed == open => pc = "stream"

\* Before a request there is no stream and nothing was decided.
Unstarted ==
  /\ pc \in {"request", "budget", "post"} =>
       frame = NoFrame /\ gen = Fresh /\ events = <<>> /\ loop = Quiet /\ sent = Unsent
  /\ pc \in {"request", "budget", "post", "stream"} => outcome = Nothing
  /\ pc = "post" => Effective(receipt) > 0

\* What the transport hands on of what it read.
Yielded ==
  IF mode # "native" THEN gen.text
  ELSE IF gen.returned /\ gen.finish # "length" THEN NativeAction(gen).text
  ELSE <<>>

\* The transport knows what the endpoint sent.
TransportInStep ==
  /\ gen.text = sent.text /\ ~sent.late /\ sent.done = gen.returned
  /\ sent.finish = IF gen.finish = "none" THEN <<>> ELSE <<gen.finish>>
  /\ gen.returned => gen.finish # "none"
  /\ mode # "native" => ~sent.tool
  /\ mode = "native" =>
       /\ sent.tool <=> gen.call # NoCall
       /\ sent.args = gen.call.args
       /\ sent.ids = {gen.call.id} \ {"none"}
       /\ sent.names # <<>> => gen.call.id = "a"
       /\ gen.call.name = IF sent.names = <<>> THEN "none"
                          ELSE IF Len(sent.names) = 1 THEN sent.names[1] ELSE "unsupported"
       /\ gen.returned /\ gen.finish # "length" => NativeAction(gen) # Raise

\* The loop has the text that was yielded, but for what it is about to take.
LoopInStep ==
  /\ Yielded = loop.text \o (IF events = <<>> THEN <<>> ELSE events[1].text)
  /\ \A i \in DOMAIN events :
       /\ i > 1 => events[i].text = <<>>
       /\ events[i].type = "done" => /\ i = Len(events)
                                     /\ gen.returned /\ events[i].value = gen.finish
  /\ loop.finish # "none" => events = <<>> /\ gen.returned /\ loop.finish = gen.finish

\* While nobody objects to the stream, its three ends agree.
StreamInStep ==
  pc = "stream" /\ (\A i \in DOMAIN events : events[i] # Raise) => TransportInStep /\ LoopInStep

\* What a server generates under a budget is something, and fits in its context, although
\* the budget was counted beforehand, the prompt alone may exceed the context, and the
\* server may have been started again in between, with another context or another template
\* (sglang_budget.py:6-8, model_stream.py:187).
BudgetHolds ==
  mode = "budgeted" /\ open =>
    granted > 0 /\ server.prompt + Reserved + granted + 1 <= server.context

\* The three properties hold because of this one.
StreamInv ==
  TypeOK /\ ResponsesClosed /\ Unstarted /\ StreamInStep /\ ActsOnWhole /\ BudgetHolds

=============================================================================
