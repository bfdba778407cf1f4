-------------------------- MODULE QueryStream_proofs --------------------------
(***************************************************************************)
(* Proofs about QueryStream for any number of questions, sessions, rounds  *)
(* and tool calls: a browser that was told "done" finds its answer, once   *)
(* and after its question, a deleted session leaves nothing behind, no     *)
(* stream ends before its browser was told an answer or an error, and an   *)
(* answer is stored with what its tools returned.                          *)
(***************************************************************************)
EXTENDS QueryStream, TLAPS, SequenceTheorems

NoDone(es) == \A i \in 1..Len(es) : es[i].type # "done"
OneDone(es) == \A i, j \in 1..Len(es) : es[i].type = "done" /\ es[j].type = "done" => i = j

\* The events there are: those of a tool name their call.
Told == {e \in Events : e.type \in {"tool_start", "tool_end"} => e.call \in CallIds}

Threads == [step : {"none", "model", "tools", "answer", "gone"},
            iterations : 0..MaxIterations, calls : 0..MaxCalls]

Streams == [step : {"idle", "open", "read", "tell", "closed", "broken"},
            session : Sessions \cup {NoSession}, open : SUBSET CallIds,
            text : BOOLEAN, told : {"nothing", "done", "error"}]

StreamTypes ==
    /\ sessions \subseteq Sessions
    /\ history \in [Sessions -> Seq(Messages)]
    /\ agent \in [Queries -> Threads]
    /\ queue \in [Queries -> Seq(Told)]
    /\ stream \in [Queries -> Streams]
    /\ online \subseteq Queries

Answered(q) == stream[q].told = "done" \/ stream[q].step = "tell"

AskedOnce(q, s) == \E i \in Nat : Places(s, "user", q) = {i}

AnsweredOnce(q, s) ==
    \E i, j \in Nat : i < j /\ Places(s, "user", q) = {i} /\ Places(s, "assistant", q) = {j}

\* A question has its messages in its own session only, first the question and
\* then the answer, and there is one done event, which is used up by storing
\* the answer.
GoodQuery(q) ==
    /\ stream[q].step \in {"idle", "open"} => agent[q].step = "none" /\ stream[q].told = "nothing"
    /\ stream[q].step = "idle" <=> stream[q].session = NoSession
    /\ agent[q].step = "tools" => agent[q].iterations < MaxIterations
    /\ OneDone(queue[q])
    /\ agent[q].step # "gone" => NoDone(queue[q])
    /\ \A s \in Sessions : s # stream[q].session \/ stream[q].step = "open" =>
          Places(s, "user", q) = {} /\ Places(s, "assistant", q) = {}
    /\ Answered(q) \/ (\E s \in Sessions : Places(s, "assistant", q) # {}) =>
          NoDone(queue[q]) /\ agent[q].step = "gone"
    /\ Answered(q) => stream[q].step \in {"read", "tell", "closed"}
    /\ stream[q].step = "read" /\ stream[q].session \in sessions => AskedOnce(q, stream[q].session)
    /\ Answered(q) /\ stream[q].session \in sessions => AnsweredOnce(q, stream[q].session)

StreamInv ==
    /\ StreamTypes
    /\ NoOrphans
    /\ \A q \in Queries : GoodQuery(q)

\* What happens to done events when events are put into a queue or taken out.
LEMMA DoneConcat ==
    ASSUME NEW es \in Seq(Told), NEW fs \in Seq(Told), NoDone(es)
    PROVE  /\ es \o fs \in Seq(Told)
           /\ NoDone(fs) => NoDone(es \o fs)
           /\ OneDone(fs) => OneDone(es \o fs)
<1>1. /\ es \o fs \in Seq(Told) /\ Len(es \o fs) = Len(es) + Len(fs)
      /\ \A i \in 1..Len(es \o fs) : (es \o fs)[i] = IF i <= Len(es) THEN es[i] ELSE fs[i - Len(es)]
  BY ConcatProperties
<1>2. Len(es) \in Nat /\ Len(fs) \in Nat
  BY LenProperties
<1>3. \A i \in 1..Len(es \o fs) : (es \o fs)[i].type = "done" =>
         i - Len(es) \in 1..Len(fs) /\ fs[i - Len(es)].type = "done"
  BY <1>1, <1>2 DEF NoDone
<1>4. NoDone(fs) => NoDone(es \o fs)
  BY <1>3 DEF NoDone
<1>5. OneDone(fs) => OneDone(es \o fs)
  <2> SUFFICES ASSUME OneDone(fs), NEW i \in 1..Len(es \o fs), NEW j \in 1..Len(es \o fs),
                      (es \o fs)[i].type = "done", (es \o fs)[j].type = "done"
               PROVE  i = j
    BY DEF OneDone
  <2>1. i - Len(es) = j - Len(es)
    BY <1>3 DEF OneDone
  <2>2. QED
    BY <2>1, <1>1, <1>2
<1>6. QED
  BY <1>1, <1>4, <1>5

LEMMA DoneTail ==
    ASSUME NEW es \in Seq(Told), es # <<>>
    PROVE  /\ Head(es) \in Told /\ Tail(es) \in Seq(Told)
           /\ NoDone(es) => NoDone(Tail(es)) /\ Head(es).type # "done"
           /\ OneDone(es) => OneDone(Tail(es))
           /\ OneDone(es) /\ Head(es).type = "done" => NoDone(Tail(es))
<1>1. /\ Head(es) \in Told /\ Head(es) = es[1] /\ Tail(es) \in Seq(Told)
      /\ Len(Tail(es)) = Len(es) - 1 /\ Len(es) \in Nat \ {0}
      /\ \A i \in 1..Len(Tail(es)) : Tail(es)[i] = es[i + 1]
  BY HeadTailProperties, EmptySeq, LenProperties
<1>2. \A i \in 1..Len(Tail(es)) : i + 1 \in 1..Len(es) /\ i + 1 # 1
  BY <1>1
<1>3. 1 \in 1..Len(es)
  BY <1>1
<1>4. NoDone(es) => NoDone(Tail(es)) /\ Head(es).type # "done"
  BY <1>1, <1>2, <1>3 DEF NoDone
<1>5. OneDone(es) => OneDone(Tail(es))
  <2> SUFFICES ASSUME OneDone(es), NEW i \in 1..Len(Tail(es)), NEW j \in 1..Len(Tail(es)),
                      Tail(es)[i].type = "done", Tail(es)[j].type = "done"
               PROVE  i = j
    BY DEF OneDone
  <2>1. i + 1 = j + 1
    BY <1>1, <1>2 DEF OneDone
  <2>2. QED
    BY <2>1, <1>1
<1>6. OneDone(es) /\ Head(es).type = "done" => NoDone(Tail(es))
  BY <1>1, <1>2, <1>3 DEF OneDone, NoDone
<1>7. QED
  BY <1>1, <1>4, <1>5, <1>6

\* A message adds its place, and changes no other.
LEMMA AddedPlaces ==
    ASSUME StreamTypes, NEW s \in Sessions, NEW m \in Messages, AddMessage(s, m)
    PROVE  /\ history' \in [Sessions -> Seq(Messages)]
           /\ \A t \in Sessions : t # s => history'[t] = history[t]
           /\ \A t \in Sessions, p \in Queries, r \in {"user", "assistant"} :
                Places(t, r, p)' = IF t = s /\ r = m.role /\ p = m.query
                                     THEN Places(t, r, p) \cup {Len(history[s]) + 1}
                                     ELSE Places(t, r, p)
<1>1. history \in [Sessions -> Seq(Messages)] /\ history' = [history EXCEPT ![s] = Append(@, m)]
  BY DEF StreamTypes, AddMessage
<1> DEFINE h == history[s]
<1>2. /\ h \in Seq(Messages) /\ Append(h, m) \in Seq(Messages)
      /\ Len(Append(h, m)) = Len(h) + 1 /\ Len(h) \in Nat
      /\ \A i \in 1..Len(h) : Append(h, m)[i] = h[i]
      /\ Append(h, m)[Len(h) + 1] = m
  BY <1>1, AppendProperties, LenProperties
<1>3. /\ history' \in [Sessions -> Seq(Messages)] /\ history'[s] = Append(h, m)
      /\ \A t \in Sessions : t # s => history'[t] = history[t]
  BY <1>1, <1>2
<1>4. ASSUME NEW t \in Sessions, NEW p \in Queries, NEW r \in {"user", "assistant"}
      PROVE  Places(t, r, p)' = IF t = s /\ r = m.role /\ p = m.query
                                  THEN Places(t, r, p) \cup {Len(history[s]) + 1}
                                  ELSE Places(t, r, p)
  <2>1. CASE t # s
    BY <2>1, <1>3 DEF Places
  <2>2. CASE t = s
    <3> HIDE DEF h
    <3>1. Places(t, r, p) = {i \in 1..Len(h) : h[i].role = r /\ h[i].query = p}
      BY <2>2 DEF Places, h
    <3>2. Places(t, r, p)' = {i \in 1..(Len(h) + 1) :
                                Append(h, m)[i].role = r /\ Append(h, m)[i].query = p}
      BY <2>2, <1>2, <1>3 DEF Places
    <3>3. \A i \in 1..(Len(h) + 1) : i \in 1..Len(h) \/ i = Len(h) + 1
      BY <1>2
    <3>4. 1..Len(h) \subseteq 1..(Len(h) + 1) /\ Len(h) + 1 \in 1..(Len(h) + 1) /\ Len(h) + 1 \notin 1..Len(h)
      BY <1>2
    <3>5. \A i : i \in Places(t, r, p)' <=>
             i \in Places(t, r, p) \/ (i = Len(h) + 1 /\ m.role = r /\ m.query = p)
      BY <3>1, <3>2, <3>3, <3>4, <1>2
    <3>6. QED
      BY <3>5, <2>2 DEF h
  <2>3. QED
    BY <2>1, <2>2
<1>5. QED
  BY <1>3, <1>4

\* A query whose own part of the state is as it was, in sessions that are there
\* as before.
LEMMA Others ==
    ASSUME NEW p \in Queries, GoodQuery(p),
           stream'[p] = stream[p], agent'[p] = agent[p], queue'[p] = queue[p],
           sessions' = sessions,
           \A t \in Sessions : /\ Places(t, "user", p)' = Places(t, "user", p)
                               /\ Places(t, "assistant", p)' = Places(t, "assistant", p),
           sessions \subseteq Sessions
    PROVE  GoodQuery(p)'
BY DEF GoodQuery, Answered, AskedOnce, AnsweredOnce

LEMMA StreamInit == Init => StreamInv
<1> SUFFICES ASSUME Init PROVE StreamInv
  OBVIOUS
<1>1. NoStream \in Streams /\ NoThread \in Threads
  BY ConstantsAssumption DEF NoStream, NoThread, Streams, Threads
<1>2. StreamTypes
  BY <1>1 DEF Init, StreamTypes
<1>3. \A s \in Sessions : history[s] = <<>>
  BY DEF Init
<1>4. NoOrphans
  BY <1>3 DEF NoOrphans
<1>5. ASSUME NEW q \in Queries PROVE GoodQuery(q)
  <2>1. stream[q] = NoStream /\ agent[q] = NoThread /\ queue[q] = <<>>
    BY <1>5 DEF Init
  <2>2. NoDone(queue[q]) /\ OneDone(queue[q])
    BY <2>1 DEF NoDone, OneDone
  <2>3. \A s \in Sessions, r \in {"user", "assistant"} : Places(s, r, q) = {}
    BY <1>3 DEF Places
  <2>4. QED
    BY <2>1, <2>2, <2>3 DEF GoodQuery, Answered, NoStream, NoThread
<1>6. QED
  BY <1>2, <1>4, <1>5 DEF StreamInv

\* A step of a thread: its events are put behind the others.
LEMMA PutStep ==
    ASSUME StreamInv, NEW q \in Queries, NEW es \in Seq(Told), NEW th \in Threads,
           queue' = [queue EXCEPT ![q] = @ \o es], agent' = [agent EXCEPT ![q] = th],
           UNCHANGED <<sessions, history, stream, online>>,
           agent[q].step \notin {"none", "gone"}, th.step # "none",
           th.step = "tools" => th.iterations < MaxIterations,
           OneDone(es), th.step # "gone" => NoDone(es)
    PROVE  StreamInv'
<1>1. /\ queue \in [Queries -> Seq(Told)] /\ agent \in [Queries -> Threads]
      /\ GoodQuery(q) /\ sessions \subseteq Sessions
  BY DEF StreamInv, StreamTypes
<1>2. NoDone(queue[q])
  BY <1>1 DEF GoodQuery
<1>3. /\ queue[q] \o es \in Seq(Told) /\ OneDone(queue[q] \o es)
      /\ th.step # "gone" => NoDone(queue[q] \o es)
  BY <1>1, <1>2, DoneConcat
<1>4. /\ queue' \in [Queries -> Seq(Told)] /\ queue'[q] = queue[q] \o es
      /\ agent' \in [Queries -> Threads] /\ agent'[q] = th
      /\ \A p \in Queries : p # q => queue'[p] = queue[p] /\ agent'[p] = agent[p]
  BY <1>1, <1>3
<1>5. StreamTypes' /\ NoOrphans'
  BY <1>4 DEF StreamInv, StreamTypes, NoOrphans
<1>6. \A p \in Queries, t \in Sessions, r \in {"user", "assistant"} : Places(t, r, p)' = Places(t, r, p)
  BY DEF Places
<1>7. GoodQuery(q)'
  <2>1. stream[q].step \notin {"idle", "open"} /\ ~Answered(q)
        /\ \A s \in Sessions : Places(s, "assistant", q) = {}
    BY <1>1 DEF GoodQuery
  <2>2. QED
    BY <2>1, <1>1, <1>3, <1>4, <1>6 DEF GoodQuery, Answered, AskedOnce
<1>8. \A p \in Queries : GoodQuery(p)'
  BY <1>1, <1>4, <1>6, <1>7, Others DEF StreamInv
<1>9. QED
  BY <1>5, <1>8 DEF StreamInv

LEMMA ToldEvents ==
    /\ \A type \in {"text_chunk", "done", "error", "end"} : Plain(type) \in Told /\ Plain(type).type = type
    /\ \A type \in {"tool_start", "tool_end"}, call \in CallIds :
          Event(type, call) \in Told /\ Event(type, call).type = type
BY DEF Plain, Event, Told, Events

LEMMA ToolEvents ==
    ASSUME NEW q \in Queries, agent \in [Queries -> Threads],
           NEW type \in {"tool_start", "tool_end"}, NEW n \in 0..MaxCalls
    PROVE  /\ CallEvents(q, type, n) \in Seq(Told)
           /\ NoDone(CallEvents(q, type, n)) /\ OneDone(CallEvents(q, type, n))
<1> DEFINE es == CallEvents(q, type, n)
<1>1. n \in Nat /\ agent[q].iterations \in 0..MaxIterations
  BY ConstantsAssumption DEF Threads
<1>2. \A i \in 1..n : <<agent[q].iterations, i>> \in CallIds
  BY <1>1, ConstantsAssumption DEF CallIds
<1>3. \A i \in 1..n : Event(type, <<agent[q].iterations, i>>) \in Told
  BY <1>2, ToldEvents
<1>4. es \in [1..n -> Told] /\ \A i \in 1..n : es[i].type = type
  BY <1>2, <1>3, ToldEvents DEF CallEvents
<1>5. es \in Seq(Told) /\ Len(es) = n
  BY <1>1, <1>4, SeqDef, LenProperties
<1>6. QED
  BY <1>4, <1>5 DEF NoDone, OneDone

LEMMA ThreadStep ==
    ASSUME StreamInv, NEW q \in Queries, Thread(q)
    PROVE  StreamInv'
<1>1. /\ agent \in [Queries -> Threads] /\ agent[q] \in Threads /\ GoodQuery(q)
  BY DEF StreamInv, StreamTypes
<1>2. ASSUME NEW n \in 0..MaxCalls, CallModel(q, n) PROVE StreamInv'
  <2> DEFINE to == IF n = 0 \/ agent[q].iterations >= MaxIterations THEN "answer" ELSE "tools"
             th == [agent[q] EXCEPT !.calls = n, !.step = to]
             es == CallEvents(q, "tool_start", n)
  <2>1. /\ queue' = [queue EXCEPT ![q] = @ \o es] /\ agent' = [agent EXCEPT ![q] = th]
        /\ UNCHANGED <<sessions, history, stream, online>> /\ agent[q].step = "model"
    BY <1>1, <1>2 DEF CallModel, Put, Threads
  <2>2. th \in Threads /\ th.step = to /\ th.iterations = agent[q].iterations
    BY <1>1 DEF Threads
  <2>3. es \in Seq(Told) /\ NoDone(es) /\ OneDone(es)
    BY <1>1, ToolEvents
  <2>4. to = "tools" => agent[q].iterations < MaxIterations
    BY <1>1, ConstantsAssumption DEF Threads
  <2>5. to \in {"answer", "tools"}
    OBVIOUS
  <2> HIDE DEF th, es, to
  <2>6. QED
    BY <2>1, <2>2, <2>3, <2>4, <2>5, PutStep
<1>3. CASE CallTools(q)
  <2> DEFINE th == [agent[q] EXCEPT !.iterations = @ + 1, !.calls = 0, !.step = "model"]
             es == CallEvents(q, "tool_end", agent[q].calls)
  <2>1. /\ queue' = [queue EXCEPT ![q] = @ \o es] /\ agent' = [agent EXCEPT ![q] = th]
        /\ UNCHANGED <<sessions, history, stream, online>> /\ agent[q].step = "tools"
    BY <1>1, <1>3 DEF CallTools, Put, Threads
  <2>2. agent[q].iterations + 1 \in 0..MaxIterations /\ 0 \in 0..MaxCalls
    BY <1>1, <2>1, ConstantsAssumption DEF GoodQuery, Threads
  <2>3. th \in Threads /\ th.step = "model"
    BY <1>1, <2>2 DEF Threads
  <2>4. agent[q].calls \in 0..MaxCalls
    BY <1>1 DEF Threads
  <2>5. es \in Seq(Told) /\ NoDone(es) /\ OneDone(es)
    BY <1>1, <2>4, ToolEvents
  <2> HIDE DEF th, es
  <2>6. QED
    BY <2>1, <2>3, <2>5, PutStep
<1>4. CASE Answer(q)
  <2> DEFINE th == [agent[q] EXCEPT !.step = "gone"]
             es == <<Plain("text_chunk"), Plain("done"), Plain("end")>>
  <2>1. /\ queue' = [queue EXCEPT ![q] = @ \o es] /\ agent' = [agent EXCEPT ![q] = th]
        /\ UNCHANGED <<sessions, history, stream, online>> /\ agent[q].step = "answer"
    BY <1>1, <1>4 DEF Answer, Put, Threads
  <2>2. th \in Threads /\ th.step = "gone"
    BY <1>1 DEF Threads
  <2>3. es \in Seq(Told) /\ OneDone(es)
    <3>1. /\ Plain("text_chunk") \in Told /\ Plain("done") \in Told /\ Plain("end") \in Told
          /\ Plain("text_chunk").type # "done" /\ Plain("end").type # "done"
      BY ToldEvents
    <3>2. es \in Seq(Told) /\ Len(es) = 3 /\ es[1] = Plain("text_chunk") /\ es[3] = Plain("end")
      BY <3>1
    <3>3. QED
      BY <3>1, <3>2 DEF OneDone
  <2> HIDE DEF th, es
  <2>4. QED
    BY <2>1, <2>2, <2>3, PutStep
<1>5. CASE AgentFails(q)
  <2> DEFINE th == [agent[q] EXCEPT !.step = "gone"]
             es == <<Plain("error"), Plain("end")>>
  <2>1. /\ queue' = [queue EXCEPT ![q] = @ \o es] /\ agent' = [agent EXCEPT ![q] = th]
        /\ UNCHANGED <<sessions, history, stream, online>> /\ agent[q].step \in {"model", "tools"}
    BY <1>1, <1>5 DEF AgentFails, Put, Threads
  <2>2. th \in Threads /\ th.step = "gone"
    BY <1>1 DEF Threads
  <2>3. es \in Seq(Told) /\ OneDone(es)
    <3>1. /\ Plain("error") \in Told /\ Plain("end") \in Told
          /\ Plain("error").type # "done" /\ Plain("end").type # "done"
      BY ToldEvents
    <3>2. es \in Seq(Told) /\ Len(es) = 2 /\ es[1] = Plain("error") /\ es[2] = Plain("end")
      BY <3>1
    <3>3. QED
      BY <3>1, <3>2 DEF OneDone
  <2> HIDE DEF th, es
  <2>4. QED
    BY <2>1, <2>2, <2>3, PutStep
<1>6. QED
  BY <1>2, <1>3, <1>4, <1>5 DEF Thread

\* A step of a coroutine that leaves the history alone.
LEMMA ReadStep ==
    ASSUME StreamInv, NEW q \in Queries, NEW new \in Streams,
           stream' = [stream EXCEPT ![q] = new], UNCHANGED <<sessions, history, agent, online>>,
           queue' = queue \/ (queue[q] # <<>> /\ queue' = [queue EXCEPT ![q] = Tail(@)]),
           new.session = stream[q].session,
           stream[q].step \notin {"idle", "open"}, new.step \notin {"idle", "open"},
           new.told = "done" \/ new.step = "tell" =>
              Answered(q) /\ new.step \in {"read", "tell", "closed"},
           new.step = "read" => stream[q].step = "read" \/ Answered(q)
    PROVE  StreamInv'
<1>1. /\ queue \in [Queries -> Seq(Told)] /\ stream \in [Queries -> Streams]
      /\ GoodQuery(q) /\ sessions \subseteq Sessions
  BY DEF StreamInv, StreamTypes
<1>2. /\ queue' \in [Queries -> Seq(Told)] /\ OneDone(queue'[q])
      /\ NoDone(queue[q]) => NoDone(queue'[q])
      /\ \A p \in Queries : p # q => queue'[p] = queue[p]
  <2>1. CASE queue' = queue
    BY <2>1, <1>1 DEF GoodQuery
  <2>2. CASE queue[q] # <<>> /\ queue' = [queue EXCEPT ![q] = Tail(@)]
    <3>1. /\ Tail(queue[q]) \in Seq(Told) /\ OneDone(Tail(queue[q]))
          /\ NoDone(queue[q]) => NoDone(Tail(queue[q]))
      BY <2>2, <1>1, DoneTail DEF GoodQuery
    <3>2. queue'[q] = Tail(queue[q])
      BY <2>2, <1>1
    <3>3. QED
      BY <2>2, <3>1, <3>2, <1>1
  <2>3. QED
    BY <2>1, <2>2
<1>3. /\ stream' \in [Queries -> Streams] /\ stream'[q] = new
      /\ \A p \in Queries : p # q => stream'[p] = stream[p]
  BY <1>1
<1>4. StreamTypes' /\ NoOrphans'
  BY <1>2, <1>3 DEF StreamInv, StreamTypes, NoOrphans
<1>5. \A p \in Queries, t \in Sessions, r \in {"user", "assistant"} : Places(t, r, p)' = Places(t, r, p)
  BY DEF Places
<1>6. GoodQuery(q)'
  <2>1. PICK s \in Sessions : s = stream[q].session
    BY <1>1 DEF GoodQuery, Streams
  <2>2. stream'[q].session = s /\ stream'[q].step = new.step
    BY <2>1, <1>3
  <2>3. Answered(q) /\ s \in sessions => AskedOnce(q, s)
    BY <2>1, <1>1 DEF GoodQuery, AskedOnce, AnsweredOnce
  <2>4. (AskedOnce(q, s) => AskedOnce(q, s)') /\ (AnsweredOnce(q, s) => AnsweredOnce(q, s)')
    BY <1>5 DEF AskedOnce, AnsweredOnce
  <2>5. Answered(q)' => Answered(q) /\ new.step \in {"read", "tell", "closed"}
    BY <1>3 DEF Answered
  <2>6. stream'[q].step = "read" /\ s \in sessions' => AskedOnce(q, s)'
    BY <2>1, <2>2, <2>3, <2>4, <1>1 DEF GoodQuery
  <2>7. Answered(q)' /\ s \in sessions' => AnsweredOnce(q, s)'
    BY <2>1, <2>4, <2>5, <1>1 DEF GoodQuery
  <2>8. \A t \in Sessions : t # s => Places(t, "user", q)' = {} /\ Places(t, "assistant", q)' = {}
    BY <2>1, <1>1, <1>5 DEF GoodQuery
  <2>9. Answered(q)' \/ (\E t \in Sessions : Places(t, "assistant", q)' # {}) =>
           NoDone(queue'[q]) /\ agent'[q].step = "gone"
    BY <2>5, <1>1, <1>2, <1>5 DEF GoodQuery
  <2>10. agent'[q].step # "gone" => NoDone(queue'[q])
    BY <1>1, <1>2 DEF GoodQuery
  <2>11. /\ stream'[q].step \notin {"idle", "open"} /\ stream'[q].session # NoSession
         /\ agent'[q].step = "tools" => agent'[q].iterations < MaxIterations
    BY <2>2, <1>1, ConstantsAssumption DEF GoodQuery
  <2>12. QED
    BY <2>2, <2>5, <2>6, <2>7, <2>8, <2>9, <2>10, <2>11, <1>2 DEF GoodQuery, AskedOnce, AnsweredOnce
<1>7. \A p \in Queries : GoodQuery(p)'
  BY <1>1, <1>2, <1>3, <1>5, <1>6, Others DEF StreamInv
<1>8. QED
  BY <1>4, <1>7 DEF StreamInv

\* The stream begins: the question is in the history, or the session is gone.
LEMMA OpenStep ==
    ASSUME StreamInv, NEW q \in Queries, Open(q)
    PROVE  StreamInv'
<1>1. /\ stream \in [Queries -> Streams] /\ agent \in [Queries -> Threads] /\ GoodQuery(q)
      /\ sessions \subseteq Sessions /\ stream[q].step = "open"
      /\ UNCHANGED <<sessions, queue, online>>
  BY DEF StreamInv, StreamTypes, Open
<1>2. PICK s \in Sessions : s = stream[q].session
  BY <1>1 DEF GoodQuery, Streams
<1>3. /\ ~Answered(q) /\ agent[q].step = "none" /\ NoDone(queue[q]) /\ OneDone(queue[q])
      /\ stream[q].told = "nothing" /\ stream[q].session # NoSession
      /\ \A t \in Sessions : Places(t, "user", q) = {} /\ Places(t, "assistant", q) = {}
  BY <1>1 DEF GoodQuery, Answered
<1>4. CASE CanAdd(s)
  <2> DEFINE m == Message("user", q, {})
             new == [stream[q] EXCEPT !.step = "read"]
             th == [agent[q] EXCEPT !.step = "model"]
  <2>1. /\ AddMessage(s, m) /\ agent' = [agent EXCEPT ![q] = th] /\ stream' = [stream EXCEPT ![q] = new]
        /\ s \in sessions
    BY <1>1, <1>2, <1>4 DEF Open, Goto, CanAdd, Streams, Threads
  <2>2. m \in Messages /\ m.role = "user" /\ m.query = q
    BY DEF Message, Messages
  <2>3. new \in Streams /\ new.step = "read" /\ new.session = s /\ new.told = "nothing"
    BY <1>1, <1>2, <1>3 DEF Streams
  <2>4. th \in Threads /\ th.step = "model"
    BY <1>1 DEF Threads
  <2> HIDE DEF m, new, th
  <2>5. /\ stream' \in [Queries -> Streams] /\ stream'[q] = new
        /\ agent' \in [Queries -> Threads] /\ agent'[q] = th
        /\ \A p \in Queries : p # q => stream'[p] = stream[p] /\ agent'[p] = agent[p]
    BY <1>1, <2>1, <2>3, <2>4
  <2>6. /\ history' \in [Sessions -> Seq(Messages)]
        /\ \A t \in Sessions : t # s => history'[t] = history[t]
        /\ \A t \in Sessions, p \in Queries, r \in {"user", "assistant"} :
             Places(t, r, p)' = IF t = s /\ r = "user" /\ p = q
                                  THEN Places(t, r, p) \cup {Len(history[s]) + 1} ELSE Places(t, r, p)
    BY <2>1, <2>2, AddedPlaces DEF StreamInv
  <2>7. StreamTypes' /\ NoOrphans'
    BY <1>1, <2>1, <2>5, <2>6 DEF StreamInv, StreamTypes, NoOrphans
  <2>8. Len(history[s]) + 1 \in Nat
    BY LenProperties DEF StreamInv, StreamTypes
  <2>9. /\ Places(s, "user", q)' = {Len(history[s]) + 1} /\ Places(s, "assistant", q)' = {}
        /\ \A t \in Sessions : t # s => Places(t, "user", q)' = {} /\ Places(t, "assistant", q)' = {}
    BY <1>3, <2>6
  <2>10. AskedOnce(q, s)'
    BY <2>8, <2>9 DEF AskedOnce
  <2>11. GoodQuery(q)'
    BY <1>1, <1>2, <1>3, <2>3, <2>4, <2>5, <2>9, <2>10, ConstantsAssumption DEF GoodQuery, Answered, AskedOnce
  <2>12. \A p \in Queries : GoodQuery(p)'
    BY <1>1, <2>5, <2>6, <2>11, Others DEF StreamInv
  <2>13. QED
    BY <2>7, <2>12 DEF StreamInv
<1>5. CASE ~CanAdd(s)
  <2> DEFINE new == [stream[q] EXCEPT !.step = "broken"]
  <2>1. stream' = [stream EXCEPT ![q] = new] /\ UNCHANGED <<history, agent>>
    BY <1>1, <1>2, <1>5 DEF Open, Goto, Streams
  <2>2. new \in Streams /\ new.step = "broken" /\ new.session = s /\ new.told = "nothing"
    BY <1>1, <1>2, <1>3 DEF Streams
  <2> HIDE DEF new
  <2>3. /\ stream' \in [Queries -> Streams] /\ stream'[q] = new
        /\ \A p \in Queries : p # q => stream'[p] = stream[p]
    BY <1>1, <2>1, <2>2
  <2>4. StreamTypes' /\ NoOrphans'
    BY <1>1, <2>1, <2>3 DEF StreamInv, StreamTypes, NoOrphans
  <2>5. \A p \in Queries, t \in Sessions, r \in {"user", "assistant"} : Places(t, r, p)' = Places(t, r, p)
    BY <2>1 DEF Places
  <2>6. GoodQuery(q)'
    BY <1>1, <1>2, <1>3, <2>1, <2>2, <2>3, <2>5, ConstantsAssumption DEF GoodQuery, Answered
  <2>7. \A p \in Queries : GoodQuery(p)'
    BY <1>1, <2>1, <2>3, <2>5, <2>6, Others DEF StreamInv
  <2>8. QED
    BY <2>4, <2>7 DEF StreamInv
<1>6. QED
  BY <1>4, <1>5

\* The done event is used up: the answer is in the history, or the session is
\* gone.
LEMMA StoreStep ==
    ASSUME StreamInv, NEW q \in Queries, StoreAnswer(q)
    PROVE  StreamInv'
<1>1. /\ stream \in [Queries -> Streams] /\ queue \in [Queries -> Seq(Told)] /\ GoodQuery(q)
      /\ agent \in [Queries -> Threads] /\ sessions \subseteq Sessions /\ stream[q].step = "read"
      /\ queue[q] # <<>> /\ Head(queue[q]).type = "done" /\ queue' = [queue EXCEPT ![q] = Tail(@)]
      /\ UNCHANGED <<sessions, agent, online>>
  BY DEF StreamInv, StreamTypes, StoreAnswer, Take
<1>2. PICK s \in Sessions : s = stream[q].session
  BY <1>1 DEF GoodQuery, Streams
<1>3. ~NoDone(queue[q]) /\ OneDone(queue[q]) /\ NoDone(Tail(queue[q])) /\ OneDone(Tail(queue[q]))
      /\ Tail(queue[q]) \in Seq(Told)
  BY <1>1, DoneTail DEF GoodQuery
<1>4. /\ ~Answered(q) /\ agent[q].step = "gone"
      /\ \A t \in Sessions : Places(t, "assistant", q) = {}
      /\ \A t \in Sessions : t # s => Places(t, "user", q) = {}
  BY <1>1, <1>2, <1>3 DEF GoodQuery
<1>5. CASE CanAdd(s)
  <2> DEFINE m == Message("assistant", q, stream[q].open)
             new == [stream[q] EXCEPT !.step = "tell"]
             n == Len(history[s]) + 1
  <2>1. AddMessage(s, m) /\ stream' = [stream EXCEPT ![q] = new] /\ s \in sessions
    BY <1>1, <1>2, <1>5 DEF StoreAnswer, Goto, CanAdd, Streams
  <2>2. m \in Messages /\ m.role = "assistant" /\ m.query = q
    BY <1>1 DEF Message, Messages, Streams
  <2>3. new \in Streams /\ new.step = "tell" /\ new.session = s
    BY <1>1, <1>2 DEF Streams
  <2> HIDE DEF m, new
  <2>4. /\ stream' \in [Queries -> Streams] /\ stream'[q] = new
        /\ queue' \in [Queries -> Seq(Told)] /\ queue'[q] = Tail(queue[q])
        /\ \A p \in Queries : p # q => stream'[p] = stream[p] /\ queue'[p] = queue[p]
    BY <1>1, <1>3, <2>1, <2>3
  <2>5. /\ history' \in [Sessions -> Seq(Messages)]
        /\ \A t \in Sessions : t # s => history'[t] = history[t]
        /\ \A t \in Sessions, p \in Queries, r \in {"user", "assistant"} :
             Places(t, r, p)' = IF t = s /\ r = "assistant" /\ p = q
                                  THEN Places(t, r, p) \cup {n} ELSE Places(t, r, p)
    BY <2>1, <2>2, AddedPlaces DEF StreamInv
  <2>6. StreamTypes' /\ NoOrphans'
    BY <1>1, <2>1, <2>4, <2>5 DEF StreamInv, StreamTypes, NoOrphans
  <2>7. PICK i \in Nat : Places(s, "user", q) = {i}
    BY <1>1, <1>2, <2>1 DEF GoodQuery, AskedOnce
  <2>8. n \in Nat /\ i < n
    <3>1. Len(history[s]) \in Nat
      BY LenProperties DEF StreamInv, StreamTypes
    <3>2. i \in 1..Len(history[s])
      BY <2>7 DEF Places
    <3>3. QED
      BY <3>1, <3>2
  <2> HIDE DEF n
  <2>9. /\ Places(s, "user", q)' = {i} /\ Places(s, "assistant", q)' = {n}
        /\ \A t \in Sessions : t # s => Places(t, "user", q)' = {} /\ Places(t, "assistant", q)' = {}
    BY <1>4, <2>5, <2>7
  <2>10. AnsweredOnce(q, s)'
    BY <2>8, <2>9 DEF AnsweredOnce
  <2>11. GoodQuery(q)'
    BY <1>1, <1>2, <1>3, <1>4, <2>3, <2>4, <2>9, <2>10, ConstantsAssumption
       DEF GoodQuery, Answered, AnsweredOnce
  <2>12. ASSUME NEW p \in Queries, p # q PROVE GoodQuery(p)'
    <3>1. \A t \in Sessions : /\ Places(t, "user", p)' = Places(t, "user", p)
                              /\ Places(t, "assistant", p)' = Places(t, "assistant", p)
      BY <2>5, <2>12
    <3>2. GoodQuery(p) /\ agent'[p] = agent[p] /\ stream'[p] = stream[p] /\ queue'[p] = queue[p]
      BY <1>1, <2>4, <2>12 DEF StreamInv
    <3>3. QED
      BY <1>1, <3>1, <3>2, Others
  <2>13. QED
    BY <2>6, <2>11, <2>12 DEF StreamInv
<1>6. CASE ~CanAdd(s)
  <2> DEFINE new == [stream[q] EXCEPT !.step = "broken"]
  <2>1. stream' = [stream EXCEPT ![q] = new] /\ UNCHANGED history
    BY <1>1, <1>2, <1>6 DEF StoreAnswer, Goto, Streams
  <2>2. new \in Streams /\ new.step = "broken" /\ new.session = s /\ new.told = stream[q].told
    BY <1>1, <1>2 DEF Streams
  <2> HIDE DEF new
  <2>3. QED
    BY <1>1, <1>2, <1>4, <2>1, <2>2, ReadStep DEF Answered
<1>7. QED
  BY <1>5, <1>6

LEMMA CoroutineStep ==
    ASSUME StreamInv, NEW q \in Queries, Coroutine(q)
    PROVE  StreamInv'
<1>1. stream \in [Queries -> Streams] /\ stream[q] \in Streams /\ GoodQuery(q)
  BY DEF StreamInv, StreamTypes
<1>2. CASE Open(q)
  BY <1>2, OpenStep
<1>3. CASE StoreAnswer(q)
  BY <1>3, StoreStep
<1>4. CASE NoticeLeave(q)
  <2> DEFINE new == [stream[q] EXCEPT !.step = "closed"]
  <2>1. /\ stream' = [stream EXCEPT ![q] = new] /\ stream[q].step = "read"
        /\ UNCHANGED <<sessions, history, agent, queue, online>>
    BY <1>1, <1>4 DEF NoticeLeave, Goto, Streams
  <2>2. new \in Streams /\ new.step = "closed" /\ new.session = stream[q].session
        /\ new.told = stream[q].told
    BY <1>1 DEF Streams
  <2> HIDE DEF new
  <2>3. QED
    BY <2>1, <2>2, ReadStep DEF Answered
<1>5. CASE PassOn(q)
  <2>1. /\ stream[q].step = "read" /\ queue[q] # <<>> /\ queue' = [queue EXCEPT ![q] = Tail(@)]
        /\ UNCHANGED <<sessions, history, agent, online>>
    BY <1>5 DEF PassOn, Take
  <2>2. Head(queue[q]) \in Told
    BY <2>1, DoneTail DEF StreamInv, StreamTypes
  <2>3. PICK new \in Streams :
          /\ stream' = [stream EXCEPT ![q] = new] /\ new.step = "read"
          /\ new.session = stream[q].session /\ new.told = stream[q].told
    <3>1. CASE Take(q, "tool_start") /\ stream' = [stream EXCEPT ![q].open = @ \cup {Head(queue[q]).call}]
      <4> DEFINE new == [stream[q] EXCEPT !.open = @ \cup {Head(queue[q]).call}]
      <4>1. Head(queue[q]).call \in CallIds
        BY <3>1, <2>2 DEF Take, Told
      <4>2. /\ new \in Streams /\ new.step = "read" /\ new.session = stream[q].session
            /\ new.told = stream[q].told /\ stream' = [stream EXCEPT ![q] = new]
        BY <3>1, <4>1, <1>1, <2>1 DEF Streams
      <4>3. QED
        BY <4>2
    <3>2. CASE Take(q, "tool_end") /\ stream' = [stream EXCEPT ![q].open = @ \ {Head(queue[q]).call}]
      <4> DEFINE new == [stream[q] EXCEPT !.open = @ \ {Head(queue[q]).call}]
      <4>1. /\ new \in Streams /\ new.step = "read" /\ new.session = stream[q].session
            /\ new.told = stream[q].told /\ stream' = [stream EXCEPT ![q] = new]
        BY <3>2, <1>1, <2>1 DEF Streams
      <4>2. QED
        BY <4>1
    <3>3. CASE Take(q, "text_chunk") /\ stream' = [stream EXCEPT ![q].text = TRUE]
      <4> DEFINE new == [stream[q] EXCEPT !.text = TRUE]
      <4>1. /\ new \in Streams /\ new.step = "read" /\ new.session = stream[q].session
            /\ new.told = stream[q].told /\ stream' = [stream EXCEPT ![q] = new]
        BY <3>3, <1>1, <2>1 DEF Streams
      <4>2. QED
        BY <4>1
    <3>4. QED
      BY <1>5, <3>1, <3>2, <3>3 DEF PassOn
  <2>4. QED
    BY <2>1, <2>3, ReadStep DEF Answered
<1>6. CASE TellDone(q)
  <2> DEFINE told == IF q \in online THEN "done" ELSE stream[q].told
             new == [stream[q] EXCEPT !.step = "read", !.told = told]
  <2>1. /\ stream' = [stream EXCEPT ![q] = new] /\ stream[q].step = "tell"
        /\ UNCHANGED <<sessions, history, agent, queue, online>>
    BY <1>1, <1>6 DEF TellDone, Streams
  <2>2. new \in Streams /\ new.step = "read" /\ new.session = stream[q].session
    BY <1>1 DEF Streams
  <2> HIDE DEF new
  <2>3. QED
    BY <2>1, <2>2, ReadStep DEF Answered
<1>7. CASE TakeError(q)
  <2> DEFINE new == [stream[q] EXCEPT !.step = "closed", !.told = "error"]
  <2>1. /\ stream' = [stream EXCEPT ![q] = new] /\ stream[q].step = "read"
        /\ queue[q] # <<>> /\ queue' = [queue EXCEPT ![q] = Tail(@)]
        /\ UNCHANGED <<sessions, history, agent, online>>
    BY <1>1, <1>7 DEF TakeError, Take, Streams
  <2>2. new \in Streams /\ new.step = "closed" /\ new.session = stream[q].session /\ new.told = "error"
    BY <1>1 DEF Streams
  <2> HIDE DEF new
  <2>3. QED
    BY <2>1, <2>2, ReadStep
<1>8. CASE TakeEnd(q)
  <2> DEFINE new == [stream[q] EXCEPT !.step = "closed"]
  <2>1. /\ stream' = [stream EXCEPT ![q] = new] /\ stream[q].step = "read"
        /\ queue[q] # <<>> /\ queue' = [queue EXCEPT ![q] = Tail(@)]
        /\ UNCHANGED <<sessions, history, agent, online>>
    BY <1>1, <1>8 DEF TakeEnd, Take, Goto, Streams
  <2>2. new \in Streams /\ new.step = "closed" /\ new.session = stream[q].session
        /\ new.told = stream[q].told
    BY <1>1 DEF Streams
  <2> HIDE DEF new
  <2>3. QED
    BY <2>1, <2>2, ReadStep DEF Answered
<1>9. QED
  BY <1>2, <1>3, <1>4, <1>5, <1>6, <1>7, <1>8 DEF Coroutine

\* The request finds its session, and nothing is in the history yet.
LEMMA QueryStep ==
    ASSUME StreamInv, NEW q \in Queries, NEW s \in Sessions, Query(q, s)
    PROVE  StreamInv'
<1> DEFINE new == [NoStream EXCEPT !.step = "open", !.session = s]
<1>1. /\ stream' = [stream EXCEPT ![q] = new] /\ stream[q] = NoStream
      /\ stream \in [Queries -> Streams] /\ GoodQuery(q) /\ sessions \subseteq Sessions
      /\ UNCHANGED <<sessions, history, agent, queue, online>>
  BY DEF Query, StreamInv, StreamTypes
<1>2. NoStream \in Streams /\ NoStream.step = "idle" /\ NoStream.told = "nothing"
  BY DEF NoStream, Streams
<1>3. new \in Streams /\ new.step = "open" /\ new.session = s /\ new.told = "nothing"
  BY DEF NoStream, Streams
<1> HIDE DEF new
<1>4. /\ stream' \in [Queries -> Streams] /\ stream'[q] = new
      /\ \A p \in Queries : p # q => stream'[p] = stream[p]
  BY <1>1, <1>3
<1>5. StreamTypes' /\ NoOrphans'
  BY <1>1, <1>4 DEF StreamInv, StreamTypes, NoOrphans
<1>6. \A p \in Queries, t \in Sessions, r \in {"user", "assistant"} : Places(t, r, p)' = Places(t, r, p)
  BY <1>1 DEF Places
<1>7. \A t \in Sessions : Places(t, "user", q) = {} /\ Places(t, "assistant", q) = {}
  BY <1>1, <1>2, ConstantsAssumption DEF GoodQuery
<1>8. GoodQuery(q)'
  BY <1>1, <1>2, <1>3, <1>4, <1>6, <1>7, ConstantsAssumption DEF GoodQuery, Answered
<1>9. \A p \in Queries : GoodQuery(p)'
  BY <1>1, <1>4, <1>6, <1>8, Others DEF StreamInv
<1>10. QED
  BY <1>5, <1>9 DEF StreamInv

\* A session goes with its messages, while its queries may still be under way.
LEMMA DeleteStep ==
    ASSUME StreamInv, NEW s \in Sessions, DeleteSession(s)
    PROVE  StreamInv'
<1>1. /\ sessions' = sessions \ {s} /\ history' = [history EXCEPT ![s] = <<>>]
      /\ history \in [Sessions -> Seq(Messages)] /\ sessions \subseteq Sessions
      /\ UNCHANGED <<agent, queue, stream, online>>
  BY DEF DeleteSession, StreamInv, StreamTypes
<1>2. /\ history' \in [Sessions -> Seq(Messages)] /\ history'[s] = <<>>
      /\ \A t \in Sessions : t # s => history'[t] = history[t]
  BY <1>1
<1>3. StreamTypes' /\ NoOrphans'
  BY <1>1, <1>2 DEF StreamInv, StreamTypes, NoOrphans
<1>4. ASSUME NEW p \in Queries PROVE GoodQuery(p)'
  <2>1. \A t \in Sessions, r \in {"user", "assistant"} :
           Places(t, r, p)' = IF t = s THEN {} ELSE Places(t, r, p)
    BY <1>2 DEF Places
  <2>2. GoodQuery(p) /\ (Answered(p)' <=> Answered(p))
    BY <1>1 DEF StreamInv, Answered
  <2>3. stream[p].session \in sessions' => stream[p].session \in Sessions \ {s} /\ stream[p].session \in sessions
    BY <1>1
  <2>4. QED
    BY <1>1, <2>1, <2>2, <2>3 DEF GoodQuery, AskedOnce, AnsweredOnce
<1>5. QED
  BY <1>3, <1>4 DEF StreamInv

LEMMA StreamStep == StreamInv /\ [Next]_vars => StreamInv'
<1> SUFFICES ASSUME StreamInv, [Next]_vars PROVE StreamInv'
  OBVIOUS
<1>1. ASSUME NEW s \in Sessions, DeleteSession(s) PROVE StreamInv'
  BY <1>1, DeleteStep
<1>2. ASSUME NEW q \in Queries, NEW s \in Sessions, Query(q, s) PROVE StreamInv'
  BY <1>2, QueryStep
<1>3. ASSUME NEW q \in Queries, Thread(q) PROVE StreamInv'
  BY <1>3, ThreadStep
<1>4. ASSUME NEW q \in Queries, Coroutine(q) PROVE StreamInv'
  BY <1>4, CoroutineStep
<1>5. ASSUME UNCHANGED <<sessions, history, agent, queue, stream>>, online' \subseteq online
      PROVE  StreamInv'
  <2>1. StreamTypes' /\ NoOrphans'
    BY <1>5 DEF StreamInv, StreamTypes, NoOrphans
  <2>2. \A p \in Queries, t \in Sessions, r \in {"user", "assistant"} : Places(t, r, p)' = Places(t, r, p)
    BY <1>5 DEF Places
  <2>3. \A p \in Queries : GoodQuery(p)'
    BY <1>5, <2>2, Others DEF StreamInv, StreamTypes
  <2>4. QED
    BY <2>1, <2>3 DEF StreamInv
<1>6. ASSUME NEW q \in Queries, Leave(q) PROVE StreamInv'
  BY <1>5, <1>6 DEF Leave
<1>7. CASE UNCHANGED vars
  BY <1>5, <1>7 DEF vars
<1>8. QED
  BY <1>1, <1>2, <1>3, <1>4, <1>6, <1>7 DEF Next

LEMMA StreamInvariant == Spec => []StreamInv
<1>1. QED
  BY StreamInit, StreamStep, PTL DEF Spec

\* Whatever runs in a session beside it, a browser that was told "done" finds
\* its answer there once, after its question, as long as the session exists.
THEOREM DoneMeansStored == Spec => []DoneIsStored
<1>1. StreamInv => DoneIsStored
  <2> SUFFICES ASSUME StreamInv, NEW q \in Queries, NEW s \in sessions,
                      stream[q].told = "done", stream[q].session = s
               PROVE  \E i, j \in 1..Len(history[s]) :
                         i < j /\ Places(s, "user", q) = {i} /\ Places(s, "assistant", q) = {j}
    BY DEF DoneIsStored
  <2>1. AnsweredOnce(q, s)
    BY DEF StreamInv, GoodQuery, Answered
  <2>2. PICK i \in Nat, j \in Nat : i < j /\ Places(s, "user", q) = {i} /\ Places(s, "assistant", q) = {j}
    BY <2>1 DEF AnsweredOnce
  <2>3. i \in 1..Len(history[s]) /\ j \in 1..Len(history[s])
    BY <2>2 DEF Places
  <2>4. QED
    BY <2>2, <2>3
<1>2. QED
  BY <1>1, StreamInvariant, PTL

\* An answer that comes after its session was deleted leaves no message behind.
THEOREM NothingIsLeftBehind == Spec => []NoOrphans
<1>1. StreamInv => NoOrphans
  BY DEF StreamInv
<1>2. QED
  BY <1>1, StreamInvariant, PTL

-----------------------------------------------------------------------------
(* No stream ends silently. *)

NoEnd(es) == \A i \in 1..Len(es) : es[i].type # "end"

\* The answer or an error comes before the end of the queue does.
News(es) ==
    \E j \in 1..Len(es) : es[j].type \in {"done", "error"} /\ \A i \in 1..j : es[i].type # "end"

\* While a browser waits and has been told nothing, news is in its queue or its
\* thread goes on.
TellsAll(q) ==
    /\ agent[q].step # "gone" => NoEnd(queue[q])
    /\ (agent[q].step = "gone" /\ stream[q].step = "read" /\ stream[q].told = "nothing" /\ q \in online)
          => News(queue[q])
    /\ (q \in online /\ stream[q].step \in {"closed", "broken"})
          => stream[q].told # "nothing" \/ stream[q].session \notin sessions

EndInv == \A q \in Queries : TellsAll(q)

LEMMA NewsConcat ==
    ASSUME NEW es \in Seq(Told), NEW fs \in Seq(Told), NoEnd(es)
    PROVE  /\ NoEnd(fs) => NoEnd(es \o fs)
           /\ News(fs) => News(es \o fs)
<1>1. /\ Len(es \o fs) = Len(es) + Len(fs) /\ Len(es) \in Nat /\ Len(fs) \in Nat
      /\ \A i \in 1..Len(es \o fs) : (es \o fs)[i] = IF i <= Len(es) THEN es[i] ELSE fs[i - Len(es)]
  BY ConcatProperties, LenProperties
<1>2. NoEnd(fs) => NoEnd(es \o fs)
  BY <1>1 DEF NoEnd
<1>3. ASSUME News(fs) PROVE News(es \o fs)
  <2>1. PICK j \in 1..Len(fs) : fs[j].type \in {"done", "error"} /\ \A i \in 1..j : fs[i].type # "end"
    BY <1>3 DEF News
  <2> DEFINE k == Len(es) + j
  <2>2. k \in 1..Len(es \o fs) /\ (es \o fs)[k] = fs[j]
    BY <1>1
  <2>3. ASSUME NEW i \in 1..k PROVE (es \o fs)[i].type # "end"
    <3>1. CASE i <= Len(es)
      BY <3>1, <1>1, <2>2 DEF NoEnd
    <3>2. CASE i > Len(es)
      <4>1. i - Len(es) \in 1..j /\ (es \o fs)[i] = fs[i - Len(es)]
        BY <3>2, <1>1, <2>2
      <4>2. QED
        BY <4>1, <2>1
    <3>3. QED
      BY <3>1, <3>2, <1>1
  <2> HIDE DEF k
  <2>4. QED
    BY <2>1, <2>2, <2>3 DEF News
<1>4. QED
  BY <1>2, <1>3

LEMMA NewsTail ==
    ASSUME NEW es \in Seq(Told), es # <<>>
    PROVE  /\ NoEnd(es) => NoEnd(Tail(es)) /\ Head(es).type # "end"
           /\ News(es) => Head(es).type # "end"
           /\ News(es) /\ Head(es).type \notin {"done", "error"} => News(Tail(es))
<1>1. /\ Head(es) = es[1] /\ Len(Tail(es)) = Len(es) - 1 /\ Len(es) \in Nat \ {0}
      /\ \A i \in 1..Len(Tail(es)) : Tail(es)[i] = es[i + 1]
  BY HeadTailProperties, EmptySeq, LenProperties
<1>2. \A i \in 1..Len(Tail(es)) : i + 1 \in 1..Len(es)
  BY <1>1
<1>3. 1 \in 1..Len(es)
  BY <1>1
<1>4. NoEnd(es) => NoEnd(Tail(es)) /\ Head(es).type # "end"
  BY <1>1, <1>2, <1>3 DEF NoEnd
<1>5. ASSUME News(es)
      PROVE  Head(es).type # "end" /\ (Head(es).type \notin {"done", "error"} => News(Tail(es)))
  <2>1. PICK j \in 1..Len(es) : es[j].type \in {"done", "error"} /\ \A i \in 1..j : es[i].type # "end"
    BY <1>5 DEF News
  <2>2. 1 \in 1..j
    BY <1>1, <2>1
  <2>3. ASSUME Head(es).type \notin {"done", "error"} PROVE News(Tail(es))
    <3>1. j # 1
      BY <2>1, <2>3, <1>1
    <3>2. j - 1 \in 1..Len(Tail(es)) /\ Tail(es)[j - 1] = es[j]
      BY <3>1, <2>1, <1>1
    <3>3. \A i \in 1..(j - 1) : i + 1 \in 1..j /\ Tail(es)[i] = es[i + 1]
      BY <3>1, <2>1, <1>1
    <3>4. QED
      BY <2>1, <3>2, <3>3 DEF News
  <2>4. QED
    BY <1>1, <2>1, <2>2, <2>3
<1>6. QED
  BY <1>4, <1>5

\* A query of which nothing changes but its session or its browser going.
LEMMA TellsOthers ==
    ASSUME NEW p \in Queries, TellsAll(p),
           stream'[p] = stream[p], agent'[p] = agent[p], queue'[p] = queue[p],
           sessions' \subseteq sessions, online' \subseteq online
    PROVE  TellsAll(p)'
BY DEF TellsAll

\* The events of a step of a thread bring the end only behind news.
LEMMA ThreadTells ==
    ASSUME StreamInv, EndInv, NEW q \in Queries, Thread(q)
    PROVE  EndInv'
<1>1. /\ agent \in [Queries -> Threads] /\ queue \in [Queries -> Seq(Told)] /\ NoEnd(queue[q])
      /\ stream[q].step \notin {"idle", "open"}
      /\ UNCHANGED <<sessions, history, stream, online>> /\ agent[q].step \notin {"none", "gone"}
  BY DEF StreamInv, StreamTypes, GoodQuery, EndInv, TellsAll, Thread, CallModel, CallTools, Answer, AgentFails
<1>2. PICK es \in Seq(Told), th \in Threads :
        /\ queue' = [queue EXCEPT ![q] = @ \o es] /\ agent' = [agent EXCEPT ![q] = th]
        /\ IF th.step = "gone" THEN News(es) ELSE NoEnd(es)
  <2>1. \A type \in {"tool_start", "tool_end"}, n \in 0..MaxCalls :
           CallEvents(q, type, n) \in Seq(Told) /\ NoEnd(CallEvents(q, type, n))
    <3> SUFFICES ASSUME NEW type \in {"tool_start", "tool_end"}, NEW n \in 0..MaxCalls
                 PROVE  CallEvents(q, type, n) \in Seq(Told) /\ NoEnd(CallEvents(q, type, n))
      OBVIOUS
    <3>1. CallEvents(q, type, n) \in Seq(Told)
      BY <1>1, ToolEvents
    <3>2. Len(CallEvents(q, type, n)) = n
      BY <3>1, ConstantsAssumption, LenProperties DEF CallEvents
    <3>3. QED
      BY <3>1, <3>2 DEF CallEvents, Event, NoEnd
  <2>2. /\ agent[q] \in Threads /\ GoodQuery(q)
    BY <1>1 DEF StreamInv
  <2>3. ASSUME NEW n \in 0..MaxCalls, CallModel(q, n)
        PROVE  \E es \in Seq(Told), th \in Threads :
                  /\ queue' = [queue EXCEPT ![q] = @ \o es] /\ agent' = [agent EXCEPT ![q] = th]
                  /\ IF th.step = "gone" THEN News(es) ELSE NoEnd(es)
    <3> DEFINE to == IF n = 0 \/ agent[q].iterations >= MaxIterations THEN "answer" ELSE "tools"
               th == [agent[q] EXCEPT !.calls = n, !.step = to]
    <3>1. /\ queue' = [queue EXCEPT ![q] = @ \o CallEvents(q, "tool_start", n)]
          /\ agent' = [agent EXCEPT ![q] = th]
      BY <2>2, <2>3, <1>1 DEF CallModel, Put, Threads
    <3>2. th \in Threads /\ th.step # "gone"
      BY <2>2 DEF Threads
    <3> HIDE DEF th
    <3>3. QED
      BY <3>1, <3>2, <2>1
  <2>4. CASE CallTools(q)
    <3> DEFINE th == [agent[q] EXCEPT !.iterations = @ + 1, !.calls = 0, !.step = "model"]
    <3>1. /\ queue' = [queue EXCEPT ![q] = @ \o CallEvents(q, "tool_end", agent[q].calls)]
          /\ agent' = [agent EXCEPT ![q] = th] /\ agent[q].step = "tools"
      BY <2>2, <2>4, <1>1 DEF CallTools, Put, Threads
    <3>2. agent[q].iterations + 1 \in 0..MaxIterations /\ 0 \in 0..MaxCalls /\ agent[q].calls \in 0..MaxCalls
      BY <2>2, <3>1, ConstantsAssumption DEF GoodQuery, Threads
    <3>3. th \in Threads /\ th.step # "gone"
      BY <2>2, <3>2 DEF Threads
    <3> HIDE DEF th
    <3>4. QED
      BY <3>1, <3>2, <3>3, <2>1
  <2>5. CASE Answer(q)
    <3> DEFINE th == [agent[q] EXCEPT !.step = "gone"]
               es == <<Plain("text_chunk"), Plain("done"), Plain("end")>>
    <3>1. queue' = [queue EXCEPT ![q] = @ \o es] /\ agent' = [agent EXCEPT ![q] = th]
      BY <2>2, <2>5, <1>1 DEF Answer, Put, Threads
    <3>2. th \in Threads /\ th.step = "gone"
      BY <2>2 DEF Threads
    <3>3. es \in Seq(Told) /\ Len(es) = 3 /\ es[1].type = "text_chunk" /\ es[2].type = "done"
      BY ToldEvents
    <3>4. News(es)
      <4>1. 2 \in 1..Len(es) /\ \A i \in 1..2 : i = 1 \/ i = 2
        BY <3>3
      <4>2. QED
        BY <3>3, <4>1 DEF News
    <3> HIDE DEF th, es
    <3>5. QED
      BY <3>1, <3>2, <3>3, <3>4
  <2>6. CASE AgentFails(q)
    <3> DEFINE th == [agent[q] EXCEPT !.step = "gone"]
               es == <<Plain("error"), Plain("end")>>
    <3>1. queue' = [queue EXCEPT ![q] = @ \o es] /\ agent' = [agent EXCEPT ![q] = th]
      BY <2>2, <2>6, <1>1 DEF AgentFails, Put, Threads
    <3>2. th \in Threads /\ th.step = "gone"
      BY <2>2 DEF Threads
    <3>3. es \in Seq(Told) /\ Len(es) = 2 /\ es[1].type = "error"
      BY ToldEvents
    <3>4. News(es)
      <4>1. 1 \in 1..Len(es) /\ \A i \in 1..1 : i = 1
        BY <3>3
      <4>2. QED
        BY <3>3, <4>1 DEF News
    <3> HIDE DEF th, es
    <3>5. QED
      BY <3>1, <3>2, <3>3, <3>4
  <2>7. QED
    BY <2>3, <2>4, <2>5, <2>6 DEF Thread
<1>3. /\ queue'[q] = queue[q] \o es /\ agent'[q] = th
      /\ \A p \in Queries : p # q => queue'[p] = queue[p] /\ agent'[p] = agent[p]
  BY <1>1, <1>2
<1>4. (NoEnd(es) => NoEnd(queue'[q])) /\ (News(es) => News(queue'[q]))
  BY <1>1, <1>3, NewsConcat
<1>5. TellsAll(q)'
  BY <1>1, <1>2, <1>3, <1>4 DEF EndInv, TellsAll
<1>6. \A p \in Queries : TellsAll(p)'
  BY <1>1, <1>3, <1>5, TellsOthers DEF EndInv
<1>7. QED
  BY <1>6 DEF EndInv

LEMMA CoroutineTells ==
    ASSUME StreamInv, EndInv, NEW q \in Queries, Coroutine(q)
    PROVE  EndInv'
<1>1. /\ agent \in [Queries -> Threads] /\ queue \in [Queries -> Seq(Told)] /\ stream \in [Queries -> Streams]
      /\ stream[q] \in Streams /\ GoodQuery(q) /\ TellsAll(q) /\ UNCHANGED <<sessions, online>>
  BY DEF StreamInv, StreamTypes, EndInv, Coroutine, Open, NoticeLeave, PassOn, StoreAnswer, TellDone,
         TakeError, TakeEnd
<1>2. \A p \in Queries : p # q => stream'[p] = stream[p] /\ agent'[p] = agent[p] /\ queue'[p] = queue[p]
  BY <1>1 DEF Coroutine, Open, NoticeLeave, PassOn, StoreAnswer, TellDone, TakeError, TakeEnd, Take, Goto
<1>3. ASSUME Open(q) PROVE TellsAll(q)'
  <2>1. stream[q].step = "open" /\ queue'[q] = queue[q] /\ agent[q].step = "none"
        /\ stream'[q].session = stream[q].session
    BY <1>1, <1>3 DEF Open, Goto, GoodQuery, Streams
  <2>2. \/ agent'[q].step = "model" /\ stream'[q].step = "read"
        \/ agent'[q] = agent[q] /\ stream'[q].step = "broken" /\ stream[q].session \notin sessions
    BY <1>1, <1>3 DEF Open, Goto, CanAdd, Streams, Threads
  <2>3. QED
    BY <1>1, <2>1, <2>2 DEF TellsAll
<1>4. ASSUME NoticeLeave(q) PROVE TellsAll(q)'
  <2>1. q \notin online /\ stream'[q].step = "closed" /\ UNCHANGED <<agent, queue>>
    BY <1>1, <1>4 DEF NoticeLeave, Goto, Streams
  <2>2. QED
    BY <1>1, <2>1 DEF TellsAll
<1>5. ASSUME TellDone(q) PROVE TellsAll(q)'
  <2>1. /\ stream'[q].step = "read" /\ UNCHANGED <<agent, queue>>
        /\ q \in online => stream'[q].told = "done"
    BY <1>1, <1>5 DEF TellDone, Streams
  <2>2. QED
    BY <1>1, <2>1 DEF TellsAll
<1>6. ASSUME NEW type, Take(q, type)
      PROVE  /\ stream[q].step = "read" /\ q \in online /\ Head(queue[q]).type = type
             /\ NoEnd(queue[q]) => NoEnd(queue'[q]) /\ type # "end"
             /\ News(queue[q]) => type # "end"
             /\ News(queue[q]) /\ type \notin {"done", "error"} => News(queue'[q])
  <2>1. /\ stream[q].step = "read" /\ q \in online /\ Head(queue[q]).type = type
        /\ queue[q] # <<>> /\ queue'[q] = Tail(queue[q])
    BY <1>1, <1>6 DEF Take
  <2>2. QED
    BY <1>1, <2>1, NewsTail
<1>7. ASSUME PassOn(q) PROVE TellsAll(q)'
  <2>1. PICK type \in {"tool_start", "tool_end", "text_chunk"} : Take(q, type)
    BY <1>7 DEF PassOn
  <2>2. stream'[q].step = "read" /\ stream'[q].told = stream[q].told /\ agent'[q] = agent[q]
    BY <1>1, <1>6, <1>7, <2>1 DEF PassOn, Streams
  <2>3. QED
    BY <1>1, <1>6, <2>1, <2>2 DEF TellsAll
<1>8. ASSUME StoreAnswer(q) PROVE TellsAll(q)'
  <2>1. Take(q, "done") /\ agent'[q] = agent[q]
    BY <1>8 DEF StoreAnswer
  <2>2. \/ stream'[q].step = "tell"
        \/ /\ stream'[q].step = "broken" /\ stream'[q].session = stream[q].session
           /\ stream[q].session \notin sessions
    BY <1>1, <1>8 DEF StoreAnswer, Goto, CanAdd, Streams
  <2>3. QED
    BY <1>1, <1>6, <2>1, <2>2 DEF TellsAll
<1>9. ASSUME TakeError(q) PROVE TellsAll(q)'
  <2>1. Take(q, "error") /\ agent'[q] = agent[q]
    BY <1>9 DEF TakeError
  <2>2. stream'[q].step = "closed" /\ stream'[q].told = "error"
    BY <1>1, <1>9 DEF TakeError, Streams
  <2>3. QED
    BY <1>1, <1>6, <2>1, <2>2 DEF TellsAll
<1>10. ASSUME TakeEnd(q) PROVE TellsAll(q)'
  <2>1. Take(q, "end") /\ agent'[q] = agent[q]
    BY <1>10 DEF TakeEnd
  <2>2. stream'[q].step = "closed" /\ stream'[q].told = stream[q].told
    BY <1>1, <1>10 DEF TakeEnd, Goto, Streams
  <2>3. stream[q].told # "nothing" /\ agent[q].step = "gone"
    BY <1>1, <1>6, <2>1 DEF TellsAll
  <2>4. QED
    BY <2>1, <2>2, <2>3 DEF TellsAll
<1>11. TellsAll(q)'
  BY <1>3, <1>4, <1>5, <1>7, <1>8, <1>9, <1>10 DEF Coroutine
<1>12. \A p \in Queries : TellsAll(p)'
  BY <1>1, <1>2, <1>11, TellsOthers DEF EndInv
<1>13. QED
  BY <1>12 DEF EndInv

LEMMA EndStep == StreamInv /\ EndInv /\ [Next]_vars => EndInv'
<1> SUFFICES ASSUME StreamInv, EndInv, [Next]_vars PROVE EndInv'
  OBVIOUS
<1>1. ASSUME UNCHANGED <<agent, queue, stream>>, sessions' \subseteq sessions, online' \subseteq online
      PROVE  EndInv'
  BY <1>1, TellsOthers DEF EndInv
<1>2. ASSUME NEW s \in Sessions, DeleteSession(s) PROVE EndInv'
  BY <1>1, <1>2 DEF DeleteSession
<1>3. ASSUME NEW q \in Queries, NEW s \in Sessions, Query(q, s) PROVE EndInv'
  <2>1. /\ stream' = [stream EXCEPT ![q] = [NoStream EXCEPT !.step = "open", !.session = s]]
        /\ stream[q].step = "idle" /\ UNCHANGED <<sessions, agent, queue, online>>
    BY <1>3 DEF Query, NoStream
  <2>2. \A p \in Queries : p # q => stream'[p] = stream[p]
    BY <2>1
  <2>3. stream'[q].step = "open" /\ agent[q].step = "none" /\ TellsAll(q)
    BY <2>1 DEF StreamInv, StreamTypes, GoodQuery, EndInv, NoStream
  <2>4. TellsAll(q)'
    BY <2>1, <2>3 DEF TellsAll
  <2>5. \A p \in Queries : TellsAll(p)'
    BY <2>1, <2>2, <2>4, TellsOthers DEF EndInv
  <2>6. QED
    BY <2>5 DEF EndInv
<1>4. ASSUME NEW q \in Queries, Thread(q) PROVE EndInv'
  BY <1>4, ThreadTells
<1>5. ASSUME NEW q \in Queries, Coroutine(q) PROVE EndInv'
  BY <1>5, CoroutineTells
<1>6. ASSUME NEW q \in Queries, Leave(q) PROVE EndInv'
  BY <1>1, <1>6 DEF Leave
<1>7. CASE UNCHANGED vars
  BY <1>1, <1>7 DEF vars
<1>8. QED
  BY <1>2, <1>3, <1>4, <1>5, <1>6, <1>7 DEF Next

\* A stream never ends silently under a browser that is still there, unless its
\* session was deleted meanwhile.
THEOREM NothingEndsSilently == Spec => []NoSilentEnd
<1>1. Init => EndInv
  BY DEF Init, EndInv, TellsAll, NoEnd, NoStream, NoThread
<1>2. StreamInv /\ EndInv => NoSilentEnd
  BY DEF StreamInv, StreamTypes, EndInv, TellsAll, NoSilentEnd
<1>3. QED
  BY <1>1, <1>2, EndStep, StreamInvariant, PTL DEF Spec

-----------------------------------------------------------------------------
(* Every stored call has its output. *)

\* The calls of the responses behind which the loop goes on.
Whole == {c \in CallIds : c[1] # MaxIterations}

\* The call is open (i = 0) or will be when the i-th event is taken out.
Started(es, open, c, i) ==
    IF i = 0 THEN c \in open ELSE es[i].type = "tool_start" /\ es[i].call = c

EndsAt(es, c, j) ==
    /\ es[j].type = "tool_end" /\ es[j].call = c
    /\ \A k \in 1..j : es[k].type # "done"

Running(th, c) == th.step = "tools" /\ c[1] = th.iterations /\ c[2] <= th.calls

\* The end of a call comes behind its start and before the done event, or the
\* tools still run, or there will be no done event.
Covered(es, open, th) ==
    \A c \in Whole : \A i \in 0..Len(es) : Started(es, open, c, i) =>
        \/ \E j \in (i + 1)..Len(es) : EndsAt(es, c, j)
        \/ Running(th, c)
        \/ th.step = "gone" /\ NoDone(es)

CallsInv == ToolCallsComplete /\ \A q \in Queries : Covered(queue[q], stream[q].open, agent[q])

LEMMA CoveredConcat ==
    ASSUME NEW es \in Seq(Told), NEW fs \in Seq(Told), NEW open, NEW th, NEW new,
           Covered(es, open, th), NoDone(es), th.step # "gone",
           \A c \in Whole : Running(th, c) =>
               \E m \in 1..Len(fs) : EndsAt(fs, c, m),
           \A c \in Whole, m \in 1..Len(fs) :
               fs[m].type = "tool_start" /\ fs[m].call = c => Running(new, c)
    PROVE  Covered(es \o fs, open, new)
<1>1. /\ Len(es \o fs) = Len(es) + Len(fs) /\ Len(es) \in Nat /\ Len(fs) \in Nat
      /\ \A i \in 1..Len(es \o fs) : (es \o fs)[i] = IF i <= Len(es) THEN es[i] ELSE fs[i - Len(es)]
  BY ConcatProperties, LenProperties
<1>2. PICK gs : gs = es \o fs
  OBVIOUS
<1> SUFFICES ASSUME NEW c \in Whole, NEW i \in 0..Len(gs), Started(gs, open, c, i)
             PROVE  Running(new, c) \/ \E j \in (i + 1)..Len(gs) : EndsAt(gs, c, j)
  BY <1>2 DEF Covered
<1>3. CASE i > Len(es)
  <2>1. i - Len(es) \in 1..Len(fs) /\ gs[i] = fs[i - Len(es)] /\ i # 0 /\ i \in 1..Len(gs)
    BY <1>1, <1>2, <1>3
  <2>2. fs[i - Len(es)].type = "tool_start" /\ fs[i - Len(es)].call = c
    BY <2>1 DEF Started
  <2>3. QED
    BY <2>1, <2>2
<1>4. CASE i <= Len(es)
  <2>1. i \in 0..Len(es) /\ Started(es, open, c, i)
    <3>1. CASE i = 0
      BY <1>1, <3>1 DEF Started
    <3>2. CASE i # 0
      <4>1. i \in 1..Len(gs) /\ gs[i] = es[i]
        BY <1>1, <1>2, <1>4, <3>2
      <4>2. QED
        BY <1>1, <1>4, <3>2, <4>1 DEF Started
    <3>3. QED
      BY <3>1, <3>2
  <2>2. CASE \E j \in (i + 1)..Len(es) : EndsAt(es, c, j)
    <3>1. PICK j \in (i + 1)..Len(es) : EndsAt(es, c, j)
      BY <2>2
    <3>2. j \in (i + 1)..Len(gs) /\ j \in 1..Len(gs) /\ \A k \in 1..j : k \in 1..Len(gs) /\ k <= Len(es)
      BY <1>1, <1>2, <2>1, <3>1
    <3>3. gs[j] = es[j] /\ \A k \in 1..j : gs[k] = es[k]
      BY <1>1, <1>2, <3>1, <3>2
    <3>4. EndsAt(gs, c, j)
      BY <3>1, <3>3 DEF EndsAt
    <3>5. QED
      BY <3>2, <3>4
  <2>3. CASE Running(th, c)
    <3>1. PICK m \in 1..Len(fs) : EndsAt(fs, c, m)
      BY <2>3
    <3>2. PICK j : j = Len(es) + m
      OBVIOUS
    <3>3. j \in (i + 1)..Len(gs) /\ gs[j] = fs[m]
      BY <1>1, <1>2, <1>4, <3>1, <3>2
    <3>4. ASSUME NEW k \in 1..j PROVE gs[k].type # "done"
      <4>1. CASE k <= Len(es)
        <5>1. k \in 1..Len(es) /\ k \in 1..Len(gs)
          BY <1>1, <1>2, <3>3, <4>1
        <5>2. gs[k] = es[k]
          BY <1>1, <1>2, <4>1, <5>1
        <5>3. QED
          BY <5>1, <5>2 DEF NoDone
      <4>2. CASE k > Len(es)
        <5>1. k - Len(es) \in 1..m /\ k \in 1..Len(gs)
          BY <1>1, <1>2, <3>2, <3>3, <4>2
        <5>2. gs[k] = fs[k - Len(es)]
          BY <1>1, <1>2, <4>2, <5>1
        <5>3. QED
          BY <3>1, <5>1, <5>2 DEF EndsAt
      <4>3. QED
        BY <1>1, <3>2, <4>1, <4>2
    <3>5. EndsAt(gs, c, j)
      BY <3>1, <3>3, <3>4 DEF EndsAt
    <3>6. QED
      BY <3>3, <3>5
  <2>4. QED
    BY <2>1, <2>2, <2>3 DEF Covered
<1>5. QED
  BY <1>1, <1>3, <1>4

LEMMA CoveredTail ==
    ASSUME NEW es \in Seq(Told), es # <<>>, NEW open, NEW new, NEW th,
           Covered(es, open, th),
           Head(es).type = "tool_start" => new \subseteq open \cup {Head(es).call},
           Head(es).type # "tool_start" => new \subseteq open,
           Head(es).type = "tool_end" => Head(es).call \notin new
    PROVE  Covered(Tail(es), new, th)
<1>1. /\ Head(es) = es[1] /\ Len(Tail(es)) = Len(es) - 1 /\ Len(es) \in Nat \ {0}
      /\ \A i \in 1..Len(Tail(es)) : Tail(es)[i] = es[i + 1]
  BY HeadTailProperties, EmptySeq, LenProperties
<1>2. PICK ts : ts = Tail(es)
  OBVIOUS
<1>3. NoDone(es) => NoDone(ts)
  BY <1>2, DoneTail
<1> SUFFICES ASSUME NEW c \in Whole, NEW i \in 0..Len(ts), Started(ts, new, c, i)
             PROVE  \/ \E j \in (i + 1)..Len(ts) : EndsAt(ts, c, j)
                    \/ Running(th, c)
                    \/ th.step = "gone" /\ NoDone(ts)
  BY <1>2 DEF Covered
\* Where the start was in the whole queue.
<1>4. PICK b \in 0..Len(es) :
          /\ Started(es, open, c, b) /\ b <= i + 1
          /\ i # 0 => b = i + 1
          /\ b = 0 => Head(es).type # "tool_end" \/ Head(es).call # c
  <2>1. CASE i # 0
    <3>1. ts[i] = es[i + 1] /\ i + 1 \in 0..Len(es) /\ i + 1 # 0
      BY <1>1, <1>2, <2>1
    <3>2. Started(es, open, c, i + 1)
      BY <2>1, <3>1 DEF Started
    <3>3. QED
      BY <2>1, <3>1, <3>2
  <2>2. CASE i = 0 /\ c \in open
    <3>1. Started(es, open, c, 0) /\ 0 \in 0..Len(es) /\ c \in new
      BY <1>1, <2>2 DEF Started
    <3>2. QED
      BY <2>2, <3>1
  <2>3. CASE i = 0 /\ c \notin open
    <3>1. c \in new /\ Head(es).type = "tool_start" /\ Head(es).call = c
      BY <2>3 DEF Started
    <3>2. Started(es, open, c, 1) /\ 1 \in 0..Len(es)
      BY <1>1, <3>1 DEF Started
    <3>3. QED
      BY <2>3, <3>2
  <2>4. QED
    BY <2>1, <2>2, <2>3
<1>5. CASE \E j \in (b + 1)..Len(es) : EndsAt(es, c, j)
  <2>1. PICK j \in (b + 1)..Len(es) : EndsAt(es, c, j)
    BY <1>5
  <2>2. j # 1
    BY <1>1, <1>4, <2>1 DEF EndsAt
  <2>3. j - 1 \in (i + 1)..Len(ts) /\ j - 1 \in 1..Len(ts) /\ ts[j - 1] = es[j]
    BY <1>1, <1>2, <1>4, <2>1, <2>2
  <2>4. \A k \in 1..(j - 1) : k + 1 \in 1..j /\ ts[k] = es[k + 1]
    BY <1>1, <1>2, <2>3
  <2>5. EndsAt(ts, c, j - 1)
    BY <2>1, <2>3, <2>4 DEF EndsAt
  <2>6. QED
    BY <2>3, <2>5
<1>6. QED
  BY <1>3, <1>4, <1>5 DEF Covered

\* At the done event no call of a whole response is open.
LEMMA DoneClosesCalls ==
    ASSUME NEW es \in Seq(Told), es # <<>>, Head(es).type = "done", NEW open, NEW th,
           Covered(es, open, th), th.step = "gone"
    PROVE  \A c \in Whole : c \notin open
<1>1. Head(es) = es[1] /\ Len(es) \in Nat \ {0}
  BY HeadTailProperties, EmptySeq, LenProperties
<1>2. ~NoDone(es)
  BY <1>1 DEF NoDone
<1>3. ASSUME NEW c, NEW j \in (0 + 1)..Len(es), EndsAt(es, c, j) PROVE FALSE
  BY <1>1, <1>3 DEF EndsAt
<1>4. ASSUME NEW c \in Whole, c \in open PROVE FALSE
  <2>1. Started(es, open, c, 0) /\ 0 \in 0..Len(es)
    BY <1>1, <1>4 DEF Started
  <2>2. ~Running(th, c)
    BY DEF Running
  <2>3. QED
    BY <1>2, <1>3, <2>1, <2>2 DEF Covered
<1>5. QED
  BY <1>4

LEMMA EventsOfCalls ==
    ASSUME NEW q \in Queries, agent \in [Queries -> Threads],
           NEW type \in {"tool_start", "tool_end"}, NEW n \in 0..MaxCalls,
           NEW es, es = CallEvents(q, type, n)
    PROVE  /\ es \in Seq(Told) /\ NoDone(es) /\ Len(es) = n
           /\ \A m \in 1..n : es[m].type = type /\ es[m].call = <<agent[q].iterations, m>>
<1>1. es \in Seq(Told) /\ NoDone(es)
  BY ToolEvents
<1>2. Len(es) = n
  BY <1>1, ConstantsAssumption, LenProperties DEF CallEvents
<1>3. QED
  BY <1>1, <1>2 DEF CallEvents, Event

LEMMA ThreadCalls ==
    ASSUME StreamInv, CallsInv, NEW q \in Queries, Thread(q)
    PROVE  CallsInv'
<1>1. /\ agent \in [Queries -> Threads] /\ queue \in [Queries -> Seq(Told)] /\ agent[q] \in Threads
      /\ GoodQuery(q) /\ Covered(queue[q], stream[q].open, agent[q])
      /\ UNCHANGED <<sessions, history, stream, online>>
  BY DEF StreamInv, StreamTypes, CallsInv, Thread, CallModel, CallTools, Answer, AgentFails
<1>2. \A c \in CallIds : c[1] \in 0..MaxIterations /\ c[2] \in 1..MaxCalls /\ c = <<c[1], c[2]>>
  BY DEF CallIds
<1>3. ASSUME NEW n \in 0..MaxCalls, CallModel(q, n)
      PROVE  Covered(queue'[q], stream[q].open, agent'[q])
  <2> DEFINE to == IF n = 0 \/ agent[q].iterations >= MaxIterations THEN "answer" ELSE "tools"
             th == [agent[q] EXCEPT !.calls = n, !.step = to]
  <2>1. PICK fs : fs = CallEvents(q, "tool_start", n)
    OBVIOUS
  <2>2. /\ queue'[q] = queue[q] \o fs /\ agent'[q] = th /\ agent[q].step = "model"
    BY <1>1, <1>3, <2>1 DEF CallModel, Put, Threads
  <2>3. th.step = to /\ th.calls = n /\ th.iterations = agent[q].iterations
    BY <1>1 DEF Threads
  <2> HIDE DEF th
  <2>4. /\ fs \in Seq(Told) /\ Len(fs) = n
        /\ \A m \in 1..n : fs[m].type = "tool_start" /\ fs[m].call = <<agent[q].iterations, m>>
    BY <1>1, <2>1, EventsOfCalls
  <2>5. NoDone(queue[q]) /\ \A c : ~Running(agent[q], c)
    BY <1>1, <2>2 DEF GoodQuery, Running
  <2>6. ASSUME NEW c \in Whole, NEW m \in 1..Len(fs), fs[m].call = c
        PROVE  Running(th, c)
    <3>1. c = <<agent[q].iterations, m>> /\ m \in 1..n /\ c[1] # MaxIterations
      BY <2>4, <2>6 DEF Whole
    <3>2. to = "tools"
      BY <1>1, <3>1, ConstantsAssumption DEF Threads
    <3>3. QED
      BY <2>3, <3>1, <3>2 DEF Running
  <2>7. Covered(queue[q] \o fs, stream[q].open, th)
    BY <1>1, <2>2, <2>4, <2>5, <2>6, CoveredConcat
  <2>8. QED
    BY <2>2, <2>7
<1>4. ASSUME CallTools(q)
      PROVE  Covered(queue'[q], stream[q].open, agent'[q])
  <2> DEFINE th == [agent[q] EXCEPT !.iterations = @ + 1, !.calls = 0, !.step = "model"]
  <2>1. PICK n \in 0..MaxCalls : n = agent[q].calls
    BY <1>1 DEF Threads
  <2>2. PICK fs : fs = CallEvents(q, "tool_end", n)
    OBVIOUS
  <2>3. /\ queue'[q] = queue[q] \o fs /\ agent'[q] = th /\ agent[q].step = "tools"
    BY <1>1, <1>4, <2>2, <2>1 DEF CallTools, Put, Threads
  <2> HIDE DEF th
  <2>4. /\ fs \in Seq(Told) /\ Len(fs) = n
        /\ \A m \in 1..n : fs[m].type = "tool_end" /\ fs[m].call = <<agent[q].iterations, m>>
    BY <1>1, <2>2, EventsOfCalls
  <2>5. NoDone(queue[q])
    BY <1>1, <2>3 DEF GoodQuery
  <2>6. ASSUME NEW c \in Whole, Running(agent[q], c)
        PROVE  \E m \in 1..Len(fs) : EndsAt(fs, c, m)
    <3>1. c = <<agent[q].iterations, c[2]>> /\ c[2] \in 1..n
      BY <1>2, <2>1, <2>6, ConstantsAssumption DEF Whole, Running
    <3>2. \A k \in 1..c[2] : k \in 1..n
      BY <2>1, <3>1, ConstantsAssumption
    <3>3. EndsAt(fs, c, c[2])
      BY <2>4, <3>1, <3>2 DEF EndsAt
    <3>4. QED
      BY <2>4, <3>1, <3>3
  <2>7. \A m \in 1..Len(fs) : fs[m].type # "tool_start"
    BY <2>4
  <2>8. Covered(queue[q] \o fs, stream[q].open, th)
    BY <1>1, <2>3, <2>4, <2>5, <2>6, <2>7, CoveredConcat
  <2>9. QED
    BY <2>3, <2>8
<1>5. ASSUME Answer(q)
      PROVE  Covered(queue'[q], stream[q].open, agent'[q])
  <2>1. PICK fs : fs = <<Plain("text_chunk"), Plain("done"), Plain("end")>>
    OBVIOUS
  <2>2. queue'[q] = queue[q] \o fs /\ agent[q].step = "answer"
    BY <1>1, <1>5, <2>1 DEF Answer, Put
  <2>3. /\ fs \in Seq(Told) /\ Len(fs) = 3
        /\ fs[1].type = "text_chunk" /\ fs[2].type = "done" /\ fs[3].type = "end"
    BY <2>1, ToldEvents
  <2>4. \A m \in 1..Len(fs) : fs[m].type # "tool_start"
    BY <2>3
  <2>5. NoDone(queue[q]) /\ \A c : ~Running(agent[q], c)
    BY <1>1, <2>2 DEF GoodQuery, Running
  <2>6. QED
    BY <1>1, <2>2, <2>3, <2>4, <2>5, CoveredConcat
<1>6. ASSUME AgentFails(q)
      PROVE  Covered(queue'[q], stream[q].open, agent'[q])
  <2>1. PICK fs : fs = <<Plain("error"), Plain("end")>>
    OBVIOUS
  <2>2. /\ queue'[q] = queue[q] \o fs /\ agent[q].step \in {"model", "tools"}
        /\ agent'[q].step = "gone"
    BY <1>1, <1>6, <2>1 DEF AgentFails, Put, Threads
  <2>3. fs \in Seq(Told) /\ Len(fs) = 2 /\ fs[1].type = "error" /\ fs[2].type = "end"
    BY <2>1, ToldEvents
  <2>4. NoDone(fs) /\ NoDone(queue[q])
    BY <1>1, <2>2, <2>3 DEF NoDone, GoodQuery
  <2>5. NoDone(queue'[q])
    BY <1>1, <2>2, <2>3, <2>4, DoneConcat
  <2>6. QED
    BY <2>2, <2>5 DEF Covered
<1>7. Covered(queue'[q], stream[q].open, agent'[q])
  BY <1>3, <1>4, <1>5, <1>6 DEF Thread
<1>8. \A p \in Queries : p # q => queue'[p] = queue[p] /\ agent'[p] = agent[p]
  BY <1>1 DEF Thread, CallModel, CallTools, Answer, AgentFails, Put
<1>9. \A p \in Queries : Covered(queue'[p], stream'[p].open, agent'[p])
  BY <1>1, <1>7, <1>8 DEF CallsInv
<1>10. ToolCallsComplete'
  BY <1>1 DEF CallsInv, ToolCallsComplete
<1>11. QED
  BY <1>9, <1>10 DEF CallsInv

\* A message whose open calls are of the last response may be stored.
LEMMA AddComplete ==
    ASSUME StreamTypes, ToolCallsComplete, NEW s \in Sessions, NEW m \in Messages, AddMessage(s, m),
           \A call \in m.open : call[1] = MaxIterations
    PROVE  ToolCallsComplete'
<1>1. /\ history'[s] = Append(history[s], m) /\ history[s] \in Seq(Messages)
      /\ \A t \in Sessions : t # s => history'[t] = history[t]
  BY DEF StreamTypes, AddMessage
<1>2. /\ Len(history'[s]) = Len(history[s]) + 1 /\ Len(history[s]) \in Nat
      /\ \A i \in 1..Len(history[s]) : history'[s][i] = history[s][i]
      /\ history'[s][Len(history[s]) + 1] = m
  BY <1>1, AppendProperties, LenProperties
<1>3. \A i \in 1..Len(history'[s]) : i \in 1..Len(history[s]) \/ i = Len(history[s]) + 1
  BY <1>2
<1>4. \A i \in 1..Len(history'[s]) : \A call \in history'[s][i].open : call[1] = MaxIterations
  BY <1>2, <1>3 DEF ToolCallsComplete
<1>5. QED
  BY <1>1, <1>4 DEF ToolCallsComplete

LEMMA CoroutineCalls ==
    ASSUME StreamInv, CallsInv, NEW q \in Queries, Coroutine(q)
    PROVE  CallsInv'
<1>1. /\ agent \in [Queries -> Threads] /\ queue \in [Queries -> Seq(Told)] /\ stream \in [Queries -> Streams]
      /\ stream[q] \in Streams /\ GoodQuery(q) /\ Covered(queue[q], stream[q].open, agent[q])
      /\ StreamTypes /\ ToolCallsComplete
  BY DEF StreamInv, StreamTypes, CallsInv
<1>2. \A p \in Queries : p # q => stream'[p] = stream[p] /\ agent'[p] = agent[p] /\ queue'[p] = queue[p]
  BY <1>1 DEF Coroutine, Open, NoticeLeave, PassOn, StoreAnswer, TellDone, TakeError, TakeEnd, Take, Goto
<1> DEFINE Good == ToolCallsComplete' /\ Covered(queue'[q], stream'[q].open, agent'[q])
<1>3. ASSUME UNCHANGED history PROVE ToolCallsComplete'
  BY <1>1, <1>3 DEF ToolCallsComplete
<1>4. ASSUME Open(q) PROVE Good
  <2>1. /\ stream'[q].open = stream[q].open /\ queue'[q] = queue[q] /\ agent[q].step = "none"
    BY <1>1, <1>4 DEF Open, Goto, GoodQuery, Streams
  <2>2. Covered(queue'[q], stream'[q].open, agent'[q])
    BY <1>1, <2>1 DEF Covered, Running
  <2>3. CASE CanAdd(stream[q].session)
    <3>1. PICK s, m : s = stream[q].session /\ m = Message("user", q, {})
      OBVIOUS
    <3>2. s \in Sessions /\ m \in Messages /\ AddMessage(s, m) /\ m.open = {}
      BY <1>1, <1>4, <2>3, <3>1 DEF Open, CanAdd, StreamTypes, Message, Messages
    <3>3. QED
      BY <1>1, <2>2, <3>2, AddComplete
  <2>4. CASE ~CanAdd(stream[q].session)
    BY <1>3, <1>4, <2>2, <2>4 DEF Open
  <2>5. QED
    BY <2>3, <2>4
<1>5. ASSUME NoticeLeave(q) \/ TellDone(q) PROVE Good
  <2>1. stream'[q].open = stream[q].open /\ UNCHANGED <<agent, queue, history>>
    BY <1>1, <1>5 DEF NoticeLeave, TellDone, Goto, Streams
  <2>2. QED
    BY <1>1, <1>3, <2>1
<1>6. ASSUME NEW type, Take(q, type)
      PROVE  queue[q] \in Seq(Told) /\ queue[q] # <<>> /\ Head(queue[q]).type = type
             /\ queue'[q] = Tail(queue[q])
  BY <1>1, <1>6 DEF Take
<1>7. ASSUME PassOn(q) PROVE Good
  <2>1. UNCHANGED <<agent, history>>
    BY <1>7 DEF PassOn
  <2>2. PICK type \in {"tool_start", "tool_end", "text_chunk"} :
            /\ Take(q, type)
            /\ stream'[q].open = IF type = "tool_start" THEN stream[q].open \cup {Head(queue[q]).call}
                                 ELSE IF type = "tool_end" THEN stream[q].open \ {Head(queue[q]).call}
                                 ELSE stream[q].open
    BY <1>1, <1>7 DEF PassOn, Streams
  <2>3. PICK es, new : es = queue[q] /\ new = stream'[q].open
    OBVIOUS
  <2>4. /\ es \in Seq(Told) /\ es # <<>> /\ Head(es).type = type /\ queue'[q] = Tail(es)
    BY <1>6, <2>2, <2>3
  <2>5. Covered(Tail(es), new, agent[q])
    BY <1>1, <2>2, <2>3, <2>4, CoveredTail
  <2>6. QED
    BY <1>3, <2>1, <2>3, <2>4, <2>5
<1>8. ASSUME TakeError(q) \/ TakeEnd(q) PROVE Good
  <2>1. PICK type \in {"error", "end"} : Take(q, type)
    BY <1>8 DEF TakeError, TakeEnd
  <2>2. stream'[q].open = stream[q].open /\ UNCHANGED <<agent, history>>
    BY <1>1, <1>8 DEF TakeError, TakeEnd, Goto, Streams
  <2>3. Covered(Tail(queue[q]), stream[q].open, agent[q])
    BY <1>1, <1>6, <2>1, CoveredTail
  <2>4. QED
    BY <1>3, <1>6, <2>1, <2>2, <2>3
<1>9. ASSUME StoreAnswer(q) PROVE Good
  <2>1. Take(q, "done") /\ UNCHANGED agent /\ stream'[q].open = stream[q].open
    BY <1>1, <1>9 DEF StoreAnswer, Goto, Streams
  <2>2. /\ queue[q] # <<>> /\ Head(queue[q]).type = "done" /\ queue'[q] = Tail(queue[q])
    BY <1>6, <2>1
  <2>3. OneDone(queue[q]) /\ (agent[q].step # "gone" => NoDone(queue[q]))
    BY <1>1 DEF GoodQuery
  <2>4. agent[q].step = "gone" /\ NoDone(Tail(queue[q]))
    BY <1>1, <2>2, <2>3, DoneTail
  <2>5. Covered(queue'[q], stream'[q].open, agent'[q])
    BY <2>1, <2>2, <2>4 DEF Covered
  <2>6. \A c \in Whole : c \notin stream[q].open
    BY <1>1, <2>2, <2>4, DoneClosesCalls
  <2>7. \A call \in stream[q].open : call \in CallIds /\ call[1] = MaxIterations
    BY <1>1, <2>6 DEF Streams, Whole
  <2>8. CASE CanAdd(stream[q].session)
    <3>1. PICK s, m : s = stream[q].session /\ m = Message("assistant", q, stream[q].open)
      OBVIOUS
    <3>2. s \in Sessions /\ m \in Messages /\ AddMessage(s, m) /\ m.open = stream[q].open
      BY <1>1, <1>9, <2>8, <3>1 DEF StoreAnswer, CanAdd, StreamTypes, Message, Messages, Streams
    <3>3. QED
      BY <1>1, <2>5, <2>7, <3>2, AddComplete
  <2>9. CASE ~CanAdd(stream[q].session)
    BY <1>3, <1>9, <2>5, <2>9 DEF StoreAnswer
  <2>10. QED
    BY <2>8, <2>9
<1>10. Good
  BY <1>4, <1>5, <1>7, <1>8, <1>9 DEF Coroutine
<1>11. QED
  BY <1>1, <1>2, <1>10 DEF CallsInv

LEMMA CallsStep == StreamInv /\ CallsInv /\ [Next]_vars => CallsInv'
<1> SUFFICES ASSUME StreamInv, CallsInv, [Next]_vars PROVE CallsInv'
  OBVIOUS
<1>1. ASSUME NEW s \in Sessions, DeleteSession(s) PROVE CallsInv'
  <2>1. /\ history'[s] = <<>> /\ \A t \in Sessions : t # s => history'[t] = history[t]
        /\ UNCHANGED <<agent, queue, stream>>
    BY <1>1 DEF DeleteSession, StreamInv, StreamTypes
  <2>2. ToolCallsComplete'
    <3>1. Len(history'[s]) = 0
      BY <2>1
    <3>2. \A i \in 1..Len(history'[s]) : FALSE
      BY <3>1
    <3>3. QED
      BY <2>1, <3>2 DEF CallsInv, ToolCallsComplete
  <2>3. QED
    BY <2>1, <2>2 DEF CallsInv
<1>2. ASSUME NEW q \in Queries, NEW s \in Sessions, Query(q, s) PROVE CallsInv'
  <2>1. /\ stream[q] = NoStream /\ stream' = [stream EXCEPT ![q] = [NoStream EXCEPT !.step = "open", !.session = s]]
        /\ UNCHANGED <<history, agent, queue>>
    BY <1>2 DEF Query
  <2>2. \A p \in Queries : stream'[p].open = stream[p].open
    BY <2>1 DEF StreamInv, StreamTypes, NoStream
  <2>3. QED
    BY <2>1, <2>2 DEF CallsInv, ToolCallsComplete
<1>3. ASSUME NEW q \in Queries, Leave(q) PROVE CallsInv'
  BY <1>3 DEF Leave, CallsInv, ToolCallsComplete
<1>4. CASE UNCHANGED vars
  BY <1>4 DEF vars, CallsInv, ToolCallsComplete
<1>5. QED
  BY <1>1, <1>2, <1>3, <1>4, ThreadCalls, CoroutineCalls DEF Next

\* An answer is stored with the output of every tool call, except those of a
\* response at which the loop was cut off, whatever fails, leaves or is deleted.
THEOREM StoredCallsAreComplete == Spec => []ToolCallsComplete
<1>1. Init => CallsInv
  <2> SUFFICES ASSUME Init PROVE CallsInv
    OBVIOUS
  <2>1. \A s \in Sessions : Len(history[s]) = 0
    BY DEF Init
  <2>2. \A q \in Queries : queue[q] = <<>> /\ stream[q].open = {}
    BY DEF Init, NoStream
  <2>3. \A q \in Queries : Len(queue[q]) = 0
    BY <2>2
  <2>4. \A q \in Queries : Covered(queue[q], stream[q].open, agent[q])
    BY <2>2, <2>3 DEF Covered, Started
  <2>5. ToolCallsComplete
    BY <2>1 DEF ToolCallsComplete
  <2>6. QED
    BY <2>4, <2>5 DEF CallsInv
<1>2. CallsInv => ToolCallsComplete
  BY DEF CallsInv
<1>3. QED
  BY <1>1, <1>2, CallsStep, StreamInvariant, PTL DEF Spec
=============================================================================
