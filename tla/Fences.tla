------------------------------- MODULE Fences -------------------------------
(***************************************************************************)
(* What the daemon (src/sfx/daemon.py, src/adapters/protocol.py) answers   *)
(* the live agent, for one repository and as far as its fences go: the     *)
(* registered sessions, the active mutations and, per session, the         *)
(* mutation whose streamed write its chain stands on.  Module SfxDaemon    *)
(* has the handlers in full; here each is an operator on a record,         *)
(* because the agent's requests reach it one at a time.                    *)
(***************************************************************************)
EXTENDS Naturals

CONSTANTS
  Sids,       \* session ids
  Writes,     \* literal writes, each with the command that makes it
  NoWrite

\* `begun` mutations so far are their ids; chain[s] = 0 when s has no chain.
NoSessions == [sessions |-> {}, fences |-> {}, begun |-> 0, chain |-> [s \in Sids |-> 0]]

\* turn_begin registers a session once.
TurnBegin(d, s) == [d EXCEPT !.sessions = @ \cup {s}]

\* mutation_begin: overlapping mutations conflict, and every chain goes.
MutationBegin(d, s, w) ==
  [d EXCEPT !.begun = @ + 1,
            !.fences = {[f EXCEPT !.conflicted = TRUE] : f \in @} \cup
                       {[id |-> d.begun + 1, sid |-> s, write |-> w, conflicted |-> d.fences # {}]},
            !.chain = [t \in Sids |-> 0]]

\* The mutation a request names, if it is active and the session's own.
Own(d, s, id) == {f \in d.fences : f.id = id /\ f.sid = s}

\* A chain survives the end of the one mutation that declared its write; it
\* may be dropped all the same, when its speculation failed.
MayKeep(d, f, success) ==
  success /\ ~f.conflicted /\ d.fences = {f} /\ d.chain[f.sid] = f.id

MutationEnd(d, f, keep) ==
  [d EXCEPT !.fences = @ \ {f},
            !.chain = [t \in Sids |-> IF keep /\ t = f.sid THEN @[t] ELSE 0]]

\* call_stream_delta without the look for the mutation it names.
FeedWrite_AnyFence(d, s, id, w) ==
  IF \A f \in d.fences : d.fences = {f} /\ f.id = id /\ f.sid = s /\ ~f.conflicted
  THEN [d EXCEPT !.chain[s] = id] ELSE d

\* call_stream_delta: the write is streamed behind its own, only fence or not.
FeedWrite(d, s, id, w) ==
  IF \E f \in Own(d, s, id) : d.fences = {f} /\ ~f.conflicted /\ f.write = w
  THEN [d EXCEPT !.chain[s] = id] ELSE d

SessionEnd(d, s) == [d EXCEPT !.sessions = @ \ {s}, !.chain[s] = 0]

=============================================================================
