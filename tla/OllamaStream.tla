---------------------------- MODULE OllamaStream ----------------------------
(***************************************************************************)
(* stream_chat() (app/generation/llm.py) in time: its two timeouts, its    *)
(* wall-clock deadline, and the one generation slot of the local Ollama    *)
(* that the requests of both endpoints wait for. Ollama, the network and   *)
(* the consumer of the stream are the environment. A unit of time is as    *)
(* long as one likes; a timeout that is due fires before time goes on.     *)
(***************************************************************************)
EXTENDS Naturals

CONSTANTS
  Streams,         \* the requests that may be running side by side
  ConnectTimeout,  \* ollama_connect_timeout
  ReadTimeout,     \* ollama_chat_timeout: the longest silence
  WallClock        \* ollama_chat_wall_clock_timeout, 0 for none

\* .env.example sets 10, 600 and 2400 seconds; config.py and the callers may set
\* any others.
ASSUME TimeoutAssumption ==
  /\ ConnectTimeout \in Nat \ {0}
  /\ ReadTimeout \in Nat \ {0}
  /\ WallClock \in Nat

VARIABLES
  stream,  \* the latest call of stream_chat() in each request
  slot,    \* the stream Ollama generates for, if any: a set of at most one
  left     \* Ollama still generates for a call that has ended

vars == <<stream, slot, left>>

\* The latest a line can be accepted: by the deadline, or, should that be sooner
\* than the first line can come, when the response begins.
LatestMove ==
  IF WallClock > ConnectTimeout + ReadTimeout THEN WallClock ELSE ConnectTimeout + ReadTimeout

\* The longest a stream with a deadline may last (HoldBounded). Clocks stop
\* one beyond it, so that a stream without a deadline has finitely many states.
Longest == LatestMove + ReadTimeout
Horizon == Longest + 1

Phases == {"connecting", "waiting", "reading", "ended"}
Endings == {"none", "ok", "failed", "dropped"}

\* age: time since start_time. silence: time since the socket last moved on.
\* doneSeen: done_chunk_seen. ending "ok": the loop over stream_chat() ended
\* by itself; "failed": GenerationError; "dropped": closed by its consumer, or
\* left by another exception.
Idle == [phase |-> "ended", age |-> 0, silence |-> 0, doneSeen |-> FALSE, ending |-> "none"]

Init ==
  /\ stream = [s \in Streams |-> Idle]
  /\ slot = {}
  /\ left = FALSE

In(s, phase) == stream[s].phase = phase
Running(s) == ~In(s, "ended")

\* The deadline is only looked at when a line has arrived.
DeadlinePassed(s) == WallClock # 0 /\ stream[s].age > WallClock

\* What requests.post() was told to wait for the socket at most.
Patience(s) == IF In(s, "connecting") THEN ConnectTimeout ELSE ReadTimeout

\* Mutant of Overdue: requests.post() is given a connect timeout only.
OverdueConnecting(s) == In(s, "connecting") /\ stream[s].silence >= ConnectTimeout

Overdue(s) == stream[s].silence >= Patience(s)

End(s, ending, doneSeen) ==
  stream' = [stream EXCEPT ![s].phase = "ended", ![s].silence = 0,
                           ![s].doneSeen = doneSeen, ![s].ending = ending]

\* Ollama is done with the stream, or its connection is closed.
FreeSlot(s) == slot' = slot \ {s} /\ UNCHANGED left

\* The response is not closed but left to the garbage collector: neither the
\* except clause nor the finally does it.
LeaveOpen(s) ==
  /\ slot' = slot \ {s}
  /\ left' = (left \/ s \in slot)

-----------------------------------------------------------------------------
(* stream_chat(), from one move of its socket to the next *)

Ask(s) ==
  /\ In(s, "ended")
  /\ stream' = [stream EXCEPT ![s] = [Idle EXCEPT !.phase = "connecting"]]
  /\ UNCHANGED <<slot, left>>

Connect(s) ==
  /\ In(s, "connecting")
  /\ stream' = [stream EXCEPT ![s].phase = "waiting", ![s].silence = 0]
  /\ UNCHANGED <<slot, left>>

\* Ollama takes up a request, in whatever order, and sends the 200 it begins with.
Respond(s) ==
  /\ In(s, "waiting")
  /\ slot = {} /\ ~left
  /\ slot' = {s}
  /\ stream' = [stream EXCEPT ![s].phase = "reading", ![s].silence = 0]
  /\ UNCHANGED left

\* Refused, reset, cut off in mid-stream, or not a 2xx.
Break(s) ==
  /\ Running(s)
  /\ End(s, "failed", FALSE)
  /\ FreeSlot(s)

TimeOut(s) ==
  /\ Running(s)
  /\ Overdue(s)
  /\ End(s, "failed", FALSE)
  /\ LeaveOpen(s)

\* The garbage collector closes a response that was left open, or Ollama has come
\* to the end of it.
Collect ==
  /\ left
  /\ left' = FALSE
  /\ UNCHANGED <<stream, slot>>

-----------------------------------------------------------------------------
(* A line of the stream arrives *)

\* resp.close(), the only one there is.
LineTooLate(s) ==
  /\ In(s, "reading")
  /\ DeadlinePassed(s)
  /\ End(s, "failed", FALSE)
  /\ FreeSlot(s)

\* Mutant of Line: the deadline is not looked at.
LineWithoutDeadline(s) ==
  /\ In(s, "reading")
  /\ stream' = [stream EXCEPT ![s].silence = 0]
  /\ UNCHANGED <<slot, left>>

\* A token, a blank line, or a line without content, such as Ollama's
\* {"error": ...}: nothing in the loop tells the last of these from a token.
Line(s) ==
  /\ In(s, "reading")
  /\ ~DeadlinePassed(s)
  /\ stream' = [stream EXCEPT ![s].silence = 0]
  /\ UNCHANGED <<slot, left>>

LastLine(s) ==
  /\ In(s, "reading")
  /\ ~DeadlinePassed(s)
  /\ End(s, "ok", TRUE)
  /\ FreeSlot(s)

\* The client is gone, so that the generator is closed where it yields the line,
\* or the line is not JSON, which no except clause converts.
DropAtLine(s) ==
  /\ In(s, "reading")
  /\ ~DeadlinePassed(s)
  /\ End(s, "dropped", FALSE)
  /\ LeaveOpen(s)

\* Ollama ends the response properly with no done chunk, as it does after an
\* {"error": ...}: iter_lines() is exhausted and the generator returns.
EndOfResponse(s) ==
  /\ In(s, "reading")
  /\ End(s, "ok", FALSE)
  /\ FreeSlot(s)

-----------------------------------------------------------------------------
Later(r) ==
  [r EXCEPT !.age = IF @ < Horizon THEN @ + 1 ELSE @, !.silence = @ + 1]

Tick ==
  /\ \E s \in Streams : Running(s)
  /\ \A s \in Streams : Running(s) => ~Overdue(s)
  /\ stream' = [s \in Streams |-> IF Running(s) THEN Later(stream[s]) ELSE stream[s]]
  /\ UNCHANGED <<slot, left>>

Next ==
  \/ Tick \/ Collect
  \/ \E s \in Streams :
       \/ Ask(s) \/ Connect(s) \/ Respond(s) \/ Break(s) \/ TimeOut(s)
       \/ LineTooLate(s) \/ Line(s) \/ LastLine(s) \/ DropAtLine(s) \/ EndOfResponse(s)

Spec == Init /\ [][Next]_vars

\* Time passes, and the timeouts of the HTTP library fire. Nothing is asked of
\* Ollama or the network.
FairSpec == Spec /\ WF_vars(Tick) /\ \A s \in Streams : WF_vars(TimeOut(s))

-----------------------------------------------------------------------------
StreamRecords ==
  [phase : Phases, age : 0..Horizon, silence : Nat,
   doneSeen : BOOLEAN, ending : Endings]

\* Every variable keeps its type; a silence never outlasts its timeout.
StreamTypeOK ==
  /\ stream \in [Streams -> StreamRecords]
  /\ \A s \in Streams : stream[s].silence <= Patience(s)
  /\ slot \in SUBSET Streams /\ left \in BOOLEAN

\* With a deadline, no call of stream_chat() outlasts it by more than one read
\* timeout, however the lines are spaced: the deadline is only looked at when a line
\* arrives, and the silence before that line has its own limit. (A deadline shorter
\* than the first line may take begins to count with that line.)
HoldBounded == WallClock # 0 => \A s \in Streams : stream[s].age <= LatestMove + ReadTimeout

\* A stream that its consumer takes for a complete answer, sends the sources of
\* and caches, got its done chunk: "the caller needs to know generation did not
\* complete cleanly" (GenerationError's docstring). The code does not ensure it.
SuccessIsComplete ==
  \A s \in Streams : stream[s].ending = "ok" => stream[s].doneSeen

\* Every call of stream_chat() ends, whatever Ollama and the network do, even if
\* lines keep trickling in, or the slot is never free because a response that was left
\* open keeps it.
StreamsEnd == \A s \in Streams : Running(s) ~> ~Running(s)
=============================================================================
