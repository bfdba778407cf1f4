----------------------------- MODULE QueryStream -----------------------------
(***************************************************************************)
(* One question on the dashboard, from POST /query to the last event of    *)
(* its stream: _run_agent_streaming (ui/api_routes.py), the agent's loop   *)
(* of model and tool calls (agent/agent.py) and the chat history           *)
(* (ui/store.py).                                                          *)
(*                                                                         *)
(* The agent runs in a thread and puts events into a queue; the coroutine  *)
(* of the request takes them out, sends them to the browser and writes the *)
(* history.  Meanwhile the browser may go away, the session may be         *)
(* deleted, and another question may run in the same session.  Events that *)
(* are only passed on (thinking, tokens, queued) are left out.             *)
(***************************************************************************)
EXTENDS Naturals, Sequences, FiniteSets

CONSTANTS
    Queries, Sessions,
    MaxIterations, \* max_iterations
    MaxCalls,      \* bound: tool calls in one response of the model
    NoSession

ASSUME ConstantsAssumption ==
    /\ MaxIterations \in Nat \ {0}
    /\ MaxCalls \in Nat
    /\ NoSession \notin Sessions

VARIABLES
    sessions, \* rows of chat_sessions
    history,  \* rows of chat_messages: [Sessions -> Seq(message)]
    agent,    \* the thread of each query: [step, iterations, calls]
    queue,    \* [Queries -> Seq(event)]
    stream,   \* the coroutine of each query: [step, session, open, text, told]
    online    \* queries whose browser is still there

vars == <<sessions, history, agent, queue, stream, online>>

\* A tool call is known by the iteration and its place in the response.
CallIds == (0..MaxIterations) \X (1..MaxCalls)

Event(type, call) == [type |-> type, call |-> call]
NoCall == <<0, 0>>
Plain(type) == Event(type, NoCall)

Message(role, q, open) == [role |-> role, query |-> q, open |-> open]

NoThread == [step |-> "none", iterations |-> 0, calls |-> 0]
NoStream == [step |-> "idle", session |-> NoSession, open |-> {}, text |-> FALSE, told |-> "nothing"]

Init ==
    /\ sessions = Sessions
    /\ history = [s \in Sessions |-> <<>>]
    /\ agent = [q \in Queries |-> NoThread]
    /\ queue = [q \in Queries |-> <<>>]
    /\ stream = [q \in Queries |-> NoStream]
    /\ online = Queries

-----------------------------------------------------------------------------
(* The chat history. *)

\* Mutant: a connection without PRAGMA foreign_keys.
CanAdd_Unchecked(s) == TRUE

\* INSERT INTO chat_messages: the session has to exist.
CanAdd(s) == s \in sessions

AddMessage(s, m) == history' = [history EXCEPT ![s] = Append(@, m)]

\* DELETE /sessions/{id}.
DeleteSession(s) ==
    /\ s \in sessions
    /\ sessions' = sessions \ {s}
    /\ history' = [history EXCEPT ![s] = <<>>]
    /\ UNCHANGED <<agent, queue, stream, online>>

-----------------------------------------------------------------------------
(* The request. *)

Goto(q, step) == stream' = [stream EXCEPT ![q].step = step]

\* POST /query looks the session up ...
Query(q, s) ==
    /\ stream[q] = NoStream
    /\ s \in sessions
    /\ stream' = [stream EXCEPT ![q] = [NoStream EXCEPT !.step = "open", !.session = s]]
    /\ UNCHANGED <<sessions, history, agent, queue, online>>

\* ... and the stream begins with the question in the history and the thread,
\* or breaks off if the session is gone by then.
Open(q) ==
    LET s == stream[q].session IN
    /\ stream[q].step = "open"
    /\ IF CanAdd(s)
         THEN /\ AddMessage(s, Message("user", q, {}))
              /\ agent' = [agent EXCEPT ![q].step = "model"]
              /\ Goto(q, "read")
         ELSE /\ Goto(q, "broken")
              /\ UNCHANGED <<history, agent>>
    /\ UNCHANGED <<sessions, queue, online>>

-----------------------------------------------------------------------------
(* The agent's thread: agent.stream over the graph of call_llm and         *)
(* call_tools.                                                             *)

Put(q, events) == queue' = [queue EXCEPT ![q] = @ \o events]

CallEvents(q, type, n) == [i \in 1..n |-> Event(type, <<agent[q].iterations, i>>)]

\* call_llm, and route behind it: no tool call, or too many iterations, ends
\* the loop.
CallModel(q, n) ==
    /\ agent[q].step = "model"
    /\ Put(q, CallEvents(q, "tool_start", n))
    /\ agent' = [agent EXCEPT ![q].calls = n,
                   ![q].step = IF n = 0 \/ agent[q].iterations >= MaxIterations
                                 THEN "answer" ELSE "tools"]
    /\ UNCHANGED <<sessions, history, stream, online>>

\* Mutant: the ToolMessage of the last call of a response is missing.
CallTools_LastLost(q) ==
    /\ agent[q].step = "tools"
    /\ Put(q, CallEvents(q, "tool_end", agent[q].calls - 1))
    /\ agent' = [agent EXCEPT ![q].iterations = @ + 1, ![q].calls = 0, ![q].step = "model"]
    /\ UNCHANGED <<sessions, history, stream, online>>

\* call_tools runs every call of the response; a tool that fails has an error
\* text as its output.
CallTools(q) ==
    /\ agent[q].step = "tools"
    /\ Put(q, CallEvents(q, "tool_end", agent[q].calls))
    /\ agent' = [agent EXCEPT ![q].iterations = @ + 1, ![q].calls = 0, ![q].step = "model"]
    /\ UNCHANGED <<sessions, history, stream, online>>

\* The answer, whole, with the figures, and the end of the thread.
Answer(q) ==
    /\ agent[q].step = "answer"
    /\ Put(q, <<Plain("text_chunk"), Plain("done"), Plain("end")>>)
    /\ agent' = [agent EXCEPT ![q].step = "gone"]
    /\ UNCHANGED <<sessions, history, stream, online>>

\* Mutant: an exception of the agent is logged and not put into the queue.
AgentFails_Silent(q) ==
    /\ agent[q].step \in {"model", "tools"}
    /\ Put(q, <<Plain("end")>>)
    /\ agent' = [agent EXCEPT ![q].step = "gone"]
    /\ UNCHANGED <<sessions, history, stream, online>>

\* Mutant: the thread without its finally, and the error in no event.
AgentFails_NoEnd(q) ==
    /\ agent[q].step \in {"model", "tools"}
    /\ agent' = [agent EXCEPT ![q].step = "gone"]
    /\ UNCHANGED <<sessions, history, queue, stream, online>>

\* get_agent, the model or the graph raised.
AgentFails(q) ==
    /\ agent[q].step \in {"model", "tools"}
    /\ Put(q, <<Plain("error"), Plain("end")>>)
    /\ agent' = [agent EXCEPT ![q].step = "gone"]
    /\ UNCHANGED <<sessions, history, stream, online>>

-----------------------------------------------------------------------------
(* The coroutine: one event after the other. *)

Leave(q) ==
    /\ q \in online
    /\ stream[q].step \in {"read", "tell"}
    /\ online' = online \ {q}
    /\ UNCHANGED <<sessions, history, agent, queue, stream>>

\* is_disconnected is asked before every event; the thread goes on alone.
NoticeLeave(q) ==
    /\ stream[q].step = "read" /\ q \notin online
    /\ Goto(q, "closed")
    /\ UNCHANGED <<sessions, history, agent, queue, online>>

Take(q, type) ==
    /\ stream[q].step = "read" /\ q \in online
    /\ queue[q] # <<>> /\ Head(queue[q]).type = type
    /\ queue' = [queue EXCEPT ![q] = Tail(@)]

PassOn(q) ==
    /\ \/ /\ Take(q, "tool_start")
          /\ stream' = [stream EXCEPT ![q].open = @ \cup {Head(queue[q]).call}]
       \/ /\ Take(q, "tool_end")
          /\ stream' = [stream EXCEPT ![q].open = @ \ {Head(queue[q]).call}]
       \/ /\ Take(q, "text_chunk")
          /\ stream' = [stream EXCEPT ![q].text = TRUE]
    /\ UNCHANGED <<sessions, history, agent, online>>

\* Mutant: done is sent before the answer is stored, and a failed insert is
\* ignored.
StoreAnswer_TellFirst(q) ==
    /\ Take(q, "done")
    /\ stream' = [stream EXCEPT ![q].told = "done"]
    /\ UNCHANGED <<sessions, history, agent, online>>

\* The done event: the answer goes into the history with its tool calls and
\* their outputs ("open" are the calls without one), then to the browser.
StoreAnswer(q) ==
    LET s == stream[q].session IN
    /\ Take(q, "done")
    /\ IF CanAdd(s)
         THEN /\ AddMessage(s, Message("assistant", q, stream[q].open))
              /\ Goto(q, "tell")
         ELSE /\ Goto(q, "broken")
              /\ UNCHANGED history
    /\ UNCHANGED <<sessions, agent, online>>

TellDone(q) ==
    /\ stream[q].step = "tell"
    /\ stream' = [stream EXCEPT ![q].step = "read",
                    ![q].told = IF q \in online THEN "done" ELSE @]
    /\ UNCHANGED <<sessions, history, agent, queue, online>>

TakeError(q) ==
    /\ Take(q, "error")
    /\ stream' = [stream EXCEPT ![q].step = "closed", ![q].told = "error"]
    /\ UNCHANGED <<sessions, history, agent, online>>

TakeEnd(q) ==
    /\ Take(q, "end")
    /\ Goto(q, "closed")
    /\ UNCHANGED <<sessions, history, agent, online>>

-----------------------------------------------------------------------------

Thread(q) ==
    \/ \E n \in 0..MaxCalls : CallModel(q, n)
    \/ CallTools(q) \/ Answer(q) \/ AgentFails(q)

Coroutine(q) ==
    \/ Open(q) \/ NoticeLeave(q) \/ PassOn(q) \/ StoreAnswer(q) \/ TellDone(q)
    \/ TakeError(q) \/ TakeEnd(q)

Next ==
    \/ \E s \in Sessions : DeleteSession(s)
    \/ \E q \in Queries :
         \/ \E s \in Sessions : Query(q, s)
         \/ Thread(q) \/ Coroutine(q) \/ Leave(q)

Spec == Init /\ [][Next]_vars

\* Threads and coroutines run on; nobody has to ask, leave or delete.
FairSpec == Spec /\ \A q \in Queries : WF_vars(Thread(q)) /\ WF_vars(Coroutine(q))

-----------------------------------------------------------------------------
(* Properties. *)

Events == [type : {"tool_start", "tool_end", "text_chunk", "done", "error", "end"},
           call : CallIds \cup {NoCall}]

Messages == [role : {"user", "assistant"}, query : Queries, open : SUBSET CallIds]

\* Every variable stays in its type, and no thread makes more than
\* MaxIterations rounds of tools.
TypeOK ==
    /\ sessions \subseteq Sessions
    /\ history \in [Sessions -> Seq(Messages)]
    /\ agent \in [Queries -> [step : {"none", "model", "tools", "answer", "gone"},
                              iterations : 0..MaxIterations, calls : 0..MaxCalls]]
    /\ queue \in [Queries -> Seq(Events)]
    /\ stream \in [Queries -> [step : {"idle", "open", "read", "tell", "closed", "broken"},
                               session : Sessions \cup {NoSession}, open : SUBSET CallIds,
                               text : BOOLEAN, told : {"nothing", "done", "error"}]]
    /\ online \subseteq Queries

Places(s, role, q) == {i \in 1..Len(history[s]) :
                         history[s][i].role = role /\ history[s][i].query = q}

\* A browser that was told "done" finds the answer when it loads the session,
\* once, after its question, for as long as the session exists.
DoneIsStored ==
    \A q \in Queries : \A s \in sessions :
        (stream[q].told = "done" /\ stream[q].session = s) =>
            \E i, j \in 1..Len(history[s]) :
                /\ i < j
                /\ Places(s, "user", q) = {i}
                /\ Places(s, "assistant", q) = {j}

\* An answer is stored with the output of every tool call, unless the loop was
\* cut off at max_iterations; then the calls of the last response have none.
ToolCallsComplete ==
    \A s \in Sessions : \A i \in 1..Len(history[s]) :
        \A call \in history[s][i].open : call[1] = MaxIterations

\* A deleted session leaves nothing behind, also when its answer comes later.
NoOrphans == \A s \in Sessions \ sessions : history[s] = <<>>

\* A stream never ends silently under a browser that is still there: it was
\* told the answer or an error, or its session was deleted meanwhile.
NoSilentEnd ==
    \A q \in online :
        stream[q].step \in {"closed", "broken"} =>
            stream[q].told # "nothing" \/ stream[q].session \notin sessions

\* Every stream and every thread ends, also the thread whose browser left.
EveryStreamEnds ==
    \A q \in Queries :
        stream[q].step = "open" ~> /\ stream[q].step \in {"closed", "broken"}
                                   /\ agent[q].step \in {"none", "gone"}
=============================================================================
