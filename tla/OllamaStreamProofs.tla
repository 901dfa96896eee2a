------------------------- MODULE OllamaStreamProofs -------------------------
(***************************************************************************)
(* Theorems about OllamaStream, for every value of the timeouts and any    *)
(* number of streams.                                                      *)
(***************************************************************************)
EXTENDS OllamaStream, TLAPS

\* The bound on a stream's age is not inductive. What is: at any moment its age
\* exceeds its present silence by no more than it could when the socket last
\* moved on, which is nothing before the connection, the connect timeout before
\* the response, and the latest a line can be accepted between two lines.
AgeInv(s) ==
  /\ In(s, "connecting") => stream[s].age <= stream[s].silence
  /\ In(s, "waiting") => stream[s].age <= ConnectTimeout + stream[s].silence
  /\ In(s, "reading") /\ WallClock # 0 => stream[s].age <= LatestMove + stream[s].silence
  /\ In(s, "ended") /\ WallClock # 0 => stream[s].age <= LatestMove + ReadTimeout

StreamInv ==
  /\ StreamTypeOK
  /\ \A s \in Streams : AgeInv(s)

\* LatestMove is the deadline or what connecting and the first line may take.
LEMMA LatestMoveBounds ==
  /\ LatestMove \in Nat
  /\ WallClock <= LatestMove /\ ConnectTimeout + ReadTimeout <= LatestMove
<1>1. QED
  BY TimeoutAssumption DEF LatestMove

-----------------------------------------------------------------------------
\* The initial state satisfies the invariant.
LEMMA InitStreamInv == Init => StreamInv
<1> SUFFICES ASSUME Init PROVE StreamInv
  OBVIOUS
<1> USE TimeoutAssumption, LatestMoveBounds DEF Init, In
<1>1. StreamTypeOK
  <2>1. Idle \in StreamRecords
    <3>1. 0 \in 0..Horizon
      BY DEF Horizon, Longest
    <3>2. QED
      BY <3>1 DEF StreamRecords, Phases, Endings, Idle
  <2>2. stream \in [Streams -> StreamRecords] /\ \A s \in Streams : stream[s] = Idle
    BY <2>1
  <2>3. ASSUME NEW s \in Streams PROVE stream[s].silence <= Patience(s)
    <3>1. stream[s].silence = 0
      BY <2>2 DEF Idle
    <3>2. Patience(s) \in Nat
      BY DEF Patience
    <3>3. QED
      BY <3>1, <3>2
  <2>4. QED
    BY <2>2, <2>3 DEF StreamTypeOK
<1>2. ASSUME NEW s \in Streams PROVE AgeInv(s)
  <2>1. stream[s] = Idle
    OBVIOUS
  <2>2. stream[s].phase = "ended" /\ stream[s].age = 0
    BY <2>1 DEF Idle
  <2>3. QED
    BY <2>2 DEF AgeInv
<1> QED
  BY <1>1, <1>2 DEF StreamInv

\* A step that changes one stream into a record of the right type that satisfies
\* the invariant preserves it.
LEMMA OneStream ==
  ASSUME StreamInv,
         NEW s \in Streams,
         NEW r \in StreamRecords,
         stream' = [stream EXCEPT ![s] = r],
         slot' \in SUBSET Streams, left' \in BOOLEAN,
         r.silence <= (IF r.phase = "connecting" THEN ConnectTimeout ELSE ReadTimeout),
         r.phase = "connecting" => r.age <= r.silence,
         r.phase = "waiting" => r.age <= ConnectTimeout + r.silence,
         r.phase = "reading" /\ WallClock # 0 => r.age <= LatestMove + r.silence,
         r.phase = "ended" /\ WallClock # 0 => r.age <= LatestMove + ReadTimeout
  PROVE  StreamInv'
<1>1. stream \in [Streams -> StreamRecords]
  BY DEF StreamInv, StreamTypeOK
<1>2. stream' \in [Streams -> StreamRecords]
  BY <1>1
<1>3. stream'[s] = r /\ \A t \in Streams : t # s => stream'[t] = stream[t]
  BY <1>1
<1>4. StreamTypeOK'
  BY <1>2, <1>3 DEF StreamInv, StreamTypeOK, Patience, In
<1>5. \A t \in Streams : AgeInv(t)'
  BY <1>3 DEF StreamInv, AgeInv, In
<1> QED
  BY <1>4, <1>5 DEF StreamInv

\* However a stream ends, the invariant survives.
LEMMA EndKeepsInv ==
  ASSUME StreamInv,
         NEW s \in Streams,
         Running(s),
         NEW ending \in Endings,
         NEW doneSeen \in BOOLEAN,
         End(s, ending, doneSeen),
         FreeSlot(s) \/ LeaveOpen(s)
  PROVE  StreamInv'
<1> DEFINE r == [stream[s] EXCEPT !.phase = "ended", !.silence = 0,
                                  !.doneSeen = doneSeen, !.ending = ending]
<1>1. stream \in [Streams -> StreamRecords] /\ stream[s] \in StreamRecords
  BY DEF StreamInv, StreamTypeOK
<1>2. stream' = [stream EXCEPT ![s] = r]
  BY <1>1 DEF End, StreamRecords
<1>3. /\ r \in StreamRecords
      /\ r.phase = "ended" /\ r.silence = 0 /\ r.age = stream[s].age
  BY <1>1 DEF StreamRecords, Phases
<1>4. slot' \in SUBSET Streams /\ left' \in BOOLEAN
  BY DEF FreeSlot, LeaveOpen, StreamInv, StreamTypeOK
<1>5. WallClock # 0 => stream[s].age <= LatestMove + ReadTimeout
  <2>1. stream[s].silence <= Patience(s) /\ AgeInv(s)
    BY DEF StreamInv, StreamTypeOK
  <2> QED
    BY <1>1, <2>1, TimeoutAssumption, LatestMoveBounds
    DEF AgeInv, Patience, Running, In, StreamRecords, Phases, Horizon, Longest
<1>6. r.silence <= ReadTimeout
  BY <1>3, TimeoutAssumption
<1> QED
  BY <1>2, <1>3, <1>4, <1>5, <1>6, OneStream

\* When its socket moves on, the silence of a stream begins anew.
LEMMA MoveKeepsInv ==
  ASSUME StreamInv,
         NEW s \in Streams,
         NEW phase \in {"waiting", "reading"},
         Running(s),
         stream' = [stream EXCEPT ![s].phase = phase, ![s].silence = 0],
         slot' \in SUBSET Streams, left' \in BOOLEAN,
         phase = "waiting" => stream[s].age <= ConnectTimeout,
         phase = "reading" /\ WallClock # 0 => stream[s].age <= LatestMove
  PROVE  StreamInv'
<1> DEFINE r == [stream[s] EXCEPT !.phase = phase, !.silence = 0]
<1>1. stream \in [Streams -> StreamRecords] /\ stream[s] \in StreamRecords
  BY DEF StreamInv, StreamTypeOK
<1>2. stream' = [stream EXCEPT ![s] = r]
  BY <1>1 DEF StreamRecords
<1>3. /\ r \in StreamRecords
      /\ r.phase = phase /\ r.silence = 0 /\ r.age = stream[s].age
  BY <1>1 DEF StreamRecords, Phases
<1>4. /\ r.silence <= (IF r.phase = "connecting" THEN ConnectTimeout ELSE ReadTimeout)
      /\ r.phase = "waiting" => r.age <= ConnectTimeout + r.silence
      /\ r.phase = "reading" /\ WallClock # 0 => r.age <= LatestMove + r.silence
  <2>1. stream[s].age \in Nat
    BY <1>1, TimeoutAssumption, LatestMoveBounds DEF StreamRecords, Horizon, Longest
  <2>2. QED
    BY <1>3, <2>1, TimeoutAssumption, LatestMoveBounds
<1> QED
  BY <1>2, <1>3, <1>4, OneStream

\* One unit of time later every running stream is one unit older, and silent for
\* one unit more; none was overdue.
LEMMA TickKeepsInv ==
  ASSUME StreamInv, Tick
  PROVE  StreamInv'
<1>1. stream \in [Streams -> StreamRecords]
  BY DEF StreamInv, StreamTypeOK
<1>2. ASSUME NEW s \in Streams, Running(s)
      PROVE  /\ Later(stream[s]) \in StreamRecords
             /\ Later(stream[s]).phase = stream[s].phase
             /\ Later(stream[s]).silence = stream[s].silence + 1
             /\ Later(stream[s]).age <= stream[s].age + 1
  <2>1. stream[s] \in StreamRecords
    BY <1>1
  <2>2. stream[s].age \in 0..Horizon /\ stream[s].silence \in Nat /\ Horizon \in Nat
    BY <2>1, TimeoutAssumption, LatestMoveBounds DEF StreamRecords, Horizon, Longest
  <2>3. QED
    <3> DEFINE age == IF stream[s].age < Horizon THEN stream[s].age + 1 ELSE stream[s].age
    <3>1. Later(stream[s]) = [stream[s] EXCEPT !.age = age, !.silence = stream[s].silence + 1]
      BY DEF Later
    <3>2. age \in 0..Horizon /\ age <= stream[s].age + 1 /\ stream[s].silence + 1 \in Nat
      BY <2>2
    <3> HIDE DEF age
    <3>3. QED
      BY <2>1, <3>1, <3>2 DEF StreamRecords
<1>3. ASSUME NEW s \in Streams
      PROVE  /\ Running(s) => stream'[s] = Later(stream[s])
             /\ ~Running(s) => stream'[s] = stream[s]
  BY DEF Tick
<1>4. ASSUME NEW s \in Streams
      PROVE  stream'[s] \in StreamRecords /\ stream'[s].phase = stream[s].phase
  BY <1>1, <1>2, <1>3
<1>5. stream' \in [Streams -> StreamRecords]
  BY <1>4 DEF Tick
<1>6. ASSUME NEW s \in Streams
      PROVE  stream'[s].silence <= Patience(s)'
  <2>1. stream[s].silence <= Patience(s) /\ stream[s].silence \in Nat
    BY <1>1 DEF StreamInv, StreamTypeOK, StreamRecords
  <2>2. Patience(s)' = Patience(s) /\ Patience(s) \in Nat
    BY <1>4, TimeoutAssumption DEF Patience, In
  <2>3. Running(s) => stream[s].silence + 1 <= Patience(s)
    BY <2>1, <2>2 DEF Tick, Overdue
  <2>4. QED
    BY <1>2, <1>3, <2>1, <2>2, <2>3
<1>7. StreamTypeOK'
  BY <1>5, <1>6 DEF StreamTypeOK, StreamInv, Tick
<1>8. ASSUME NEW s \in Streams
      PROVE  AgeInv(s)'
  <2>1. AgeInv(s)
    BY DEF StreamInv
  <2>2. /\ stream[s].age \in Nat /\ stream[s].silence \in Nat
        /\ stream'[s].age \in Nat /\ stream'[s].silence \in Nat
    BY <1>1, <1>4, TimeoutAssumption, LatestMoveBounds DEF StreamRecords, Horizon, Longest
  <2>3. CASE Running(s)
    BY <1>2, <1>3, <2>1, <2>2, <2>3, TimeoutAssumption, LatestMoveBounds DEF AgeInv, Running, In
  <2>4. CASE ~Running(s)
    BY <1>3, <2>1, <2>4 DEF AgeInv, Running, In
  <2>5. QED
    BY <2>3, <2>4
<1>9. QED
  BY <1>7, <1>8 DEF StreamInv

\* Every step preserves the invariant.
LEMMA NextStreamInv == StreamInv /\ [Next]_vars => StreamInv'
<1> SUFFICES ASSUME StreamInv, [Next]_vars PROVE StreamInv'
  OBVIOUS
<1>1. ASSUME NEW s \in Streams
      PROVE  /\ stream[s] \in StreamRecords /\ stream[s].age \in Nat
             /\ stream[s].silence \in Nat /\ AgeInv(s)
             /\ stream[s].silence <= Patience(s)
  BY TimeoutAssumption, LatestMoveBounds
  DEF StreamInv, StreamTypeOK, StreamRecords, Horizon, Longest
<1>2. slot \in SUBSET Streams /\ left \in BOOLEAN
  BY DEF StreamInv, StreamTypeOK
<1>3. CASE Tick
  BY <1>3, TickKeepsInv
<1>4. ASSUME NEW s \in Streams, Ask(s) PROVE StreamInv'
  <2> DEFINE r == [Idle EXCEPT !.phase = "connecting"]
  <2>1. r \in StreamRecords /\ r.phase = "connecting" /\ r.age = 0 /\ r.silence = 0
    <3>1. 0 \in 0..Horizon
      BY TimeoutAssumption, LatestMoveBounds DEF Horizon, Longest
    <3>2. Idle \in StreamRecords /\ Idle.age = 0 /\ Idle.silence = 0
      BY <3>1 DEF Idle, StreamRecords, Phases, Endings
    <3>3. QED
      BY <3>2 DEF StreamRecords, Phases
  <2>2. stream' = [stream EXCEPT ![s] = r] /\ UNCHANGED <<slot, left>>
    BY <1>4 DEF Ask
  <2>3. /\ r.silence <= (IF r.phase = "connecting" THEN ConnectTimeout ELSE ReadTimeout)
        /\ r.age <= r.silence
    BY <2>1, TimeoutAssumption
  <2>4. QED
    <3> HIDE DEF r
    <3> QED
      BY <1>2, <2>1, <2>2, <2>3, OneStream
<1>5. ASSUME NEW s \in Streams, Connect(s) PROVE StreamInv'
  <2>1. stream[s].age <= ConnectTimeout
    BY <1>1, <1>5, TimeoutAssumption DEF Connect, AgeInv, In, Patience
  <2>2. QED
    BY <1>2, <1>5, <2>1, MoveKeepsInv DEF Connect, Running, In
<1>6. ASSUME NEW s \in Streams, Respond(s) PROVE StreamInv'
  <2>1. stream[s].age <= LatestMove
    BY <1>1, <1>6, TimeoutAssumption, LatestMoveBounds DEF Respond, AgeInv, In, Patience
  <2>2. QED
    BY <1>2, <1>6, <2>1, MoveKeepsInv DEF Respond, Running, In
<1>7. ASSUME NEW s \in Streams, Line(s) PROVE StreamInv'
  <2>1. stream' = [stream EXCEPT ![s].phase = "reading", ![s].silence = 0]
    BY <1>1, <1>7 DEF Line, In, StreamInv, StreamTypeOK, StreamRecords
  <2>2. WallClock # 0 => stream[s].age <= LatestMove
    BY <1>1, <1>7, TimeoutAssumption, LatestMoveBounds DEF Line, DeadlinePassed
  <2>3. Running(s) /\ UNCHANGED <<slot, left>>
    BY <1>7 DEF Line, Running, In
  <2>4. QED
    BY <1>2, <2>1, <2>2, <2>3, MoveKeepsInv
<1>8. ASSUME NEW s \in Streams,
             Break(s) \/ TimeOut(s) \/ LineTooLate(s) \/ LastLine(s) \/ DropAtLine(s)
             \/ EndOfResponse(s)
      PROVE  StreamInv'
  <2>1. Running(s) /\ (FreeSlot(s) \/ LeaveOpen(s))
    BY <1>8 DEF Break, TimeOut, LineTooLate, LastLine, DropAtLine, EndOfResponse, Running, In
  <2>2. \E ending \in Endings, doneSeen \in BOOLEAN : End(s, ending, doneSeen)
    BY <1>8 DEF Break, TimeOut, LineTooLate, LastLine, DropAtLine, EndOfResponse, Endings
  <2>3. QED
    BY <2>1, <2>2, EndKeepsInv
<1>9. CASE Collect \/ UNCHANGED vars
  BY <1>9 DEF Collect, vars, StreamInv, StreamTypeOK, AgeInv, In, Patience
<1>10. QED
  BY <1>3, <1>4, <1>5, <1>6, <1>7, <1>8, <1>9 DEF Next

-----------------------------------------------------------------------------
\* The inductive invariant holds throughout, for any timeouts.
THEOREM StreamInvariant == Spec => []StreamInv
<1>1. QED
  BY InitStreamInv, NextStreamInv, PTL DEF Spec

\* Type correctness, and no silence beyond its timeout.
THEOREM StreamTypeCorrect == Spec => []StreamTypeOK
<1>1. StreamInv => StreamTypeOK
  BY DEF StreamInv
<1>2. QED
  BY <1>1, StreamInvariant, PTL

\* No call with a deadline, whatever it is and whatever the timeouts are, lasts longer
\* than one read timeout after the latest line it may accept (llm.py:186-192: the
\* deadline is looked at when a line arrives).
THEOREM HoldAlwaysBounded == Spec => []HoldBounded
<1>1. ASSUME StreamInv, WallClock # 0, NEW s \in Streams
      PROVE  stream[s].age <= LatestMove + ReadTimeout
  <2>1. /\ stream[s] \in StreamRecords /\ AgeInv(s)
        /\ stream[s].silence <= Patience(s)
    BY <1>1 DEF StreamInv, StreamTypeOK
  <2>2. /\ stream[s].age \in Nat /\ stream[s].silence \in Nat
        /\ stream[s].phase \in {"connecting", "waiting", "reading", "ended"}
    BY <2>1, TimeoutAssumption, LatestMoveBounds DEF StreamRecords, Phases, Horizon, Longest
  <2>3. QED
    BY <1>1, <2>1, <2>2, TimeoutAssumption, LatestMoveBounds DEF AgeInv, Patience, In
<1>2. StreamInv => HoldBounded
  BY <1>1 DEF HoldBounded
<1>3. QED
  BY <1>2, StreamInvariant, PTL
=============================================================================
