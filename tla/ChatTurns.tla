----------------------------- MODULE ChatTurns -----------------------------
(***************************************************************************)
(* The turns of one chat session (core/agent/turns.py, core/agent/store.py)*)
(* and the panels that show it: the page and the rail beside it, each a    *)
(* mount of static/chat-panel.js fed by web/chat_router.py.                *)
(*                                                                         *)
(* The event loop runs one handler or turn at a time up to its next await; *)
(* `loop` names the one between two of its store calls.  Pages are drawn   *)
(* on the thread pool, so a page may be read there.                        *)
(***************************************************************************)
EXTENDS ChatReply, FiniteSets

CONSTANTS
  Panel,        \* the panels open on the session
  Replies,      \* what the CLI may answer
  FoldedBlocks, \* bound: blocks of the replies FoldsAgree looks at
  MaxTurns      \* bound: messages sent

ASSUME ChatBounds ==
  /\ MaxTurns \in Nat \ {0} /\ FoldedBlocks \in Nat
  /\ \A reply \in Replies : reply \in Seq([kind : BlockKinds, id : Nat]) /\ WellFormed(reply)

VARIABLES
  session,    \* the stored AgentSession
  turns,      \* the turn manager's registry, in memory
  loop,       \* the handler on the event loop, between two store calls
  panels,     \* the browser
  (* The CLI, external: what each of its sessions remembers. *)
  memory,
  (* Observation. *)
  overlapped, \* two turns of the session ran at a time
  restarted

vars == <<session, turns, loop, panels, memory, overlapped, restarted>>

Turn == 1..MaxTurns

Live == {"started", "running", "stored", "ended"}

\* A turn's record; what a restart leaves of one is nothing.  `token` is the CLI
\* session it resumes, then the one it yields, 0 for none.
Unposted == [state |-> "unposted", left |-> <<>>, token |-> 0, told |-> Unwritten]
Gone == [Unposted EXCEPT !.state = "gone"]

\* A panel's state.  `drawn` are the turns whose messages the page came with,
\* `streamed` the ones it attached to; it is on the stream of `on` and was given
\* `seen` events of it.  `owed` counts the turns it owes the reader, those
\* started when it read the session, none once a stream of its breaks.
Closed ==
  [mode |-> "closed", read |-> 0, owed |-> 0, drawn |-> {}, streamed |-> {},
   on |-> 0, seen |-> 0, asleep |-> FALSE]

Free == [at |-> "free", turn |-> 0]

Init ==
  /\ session = [messages |-> <<>>, active |-> 0, pending |-> 0, token |-> 0, spent |-> {}]
  /\ turns = [t \in Turn |-> Unposted]
  /\ loop = Free
  /\ panels = [p \in Panel |-> Closed]
  /\ memory = [t \in 0..MaxTurns |-> <<>>]
  /\ overlapped = FALSE /\ restarted = FALSE

-----------------------------------------------------------------------------
Members(s) == {s[i] : i \in DOMAIN s}

InOrder(s) == \A i, j \in DOMAIN s : i < j => s[i] < s[j]

Running == {t \in Turn : turns[t].state \in Live}
Started == {t \in Turn : turns[t].state \notin {"unposted", "posted"}}
Sending == {p \in Panel : panels[p].mode = "sending"}

\* The turns the transcript holds.
Answered == Members(session.messages)

\* Those of them whose CLI session was named.
Carried == {t \in Answered : turns[t].token # 0}

\* A plausible bug, used by no definition: an event is buffered and nobody is
\* woken.
WakeNobody(t) == panels' = panels

\* Turn.emit and _wake: every generator waiting on the turn is woken.
Wake(t) ==
  panels' = [p \in Panel |->
               IF panels[p].on = t THEN [panels[p] EXCEPT !.asleep = FALSE]
               ELSE panels[p]]

\* connect(): a new bubble, replayed from event 0.
Attached(panel, t) ==
  [panel EXCEPT !.mode = "attached", !.on = t, !.streamed = @ \cup {t}]

\* es.close(): the bubble stays, the panel may send again.
Detached(panel) == [panel EXCEPT !.mode = "idle", !.on = 0, !.seen = 0, !.asleep = FALSE]

-----------------------------------------------------------------------------
(***************************************************************************)
(* Plausible bugs.  No behaviour of the specification uses the operators   *)
(* of this section: each stands in for the definition its name begins      *)
(* with, to show that a property notices the difference.                   *)
(***************************************************************************)

\* The page shows what is stored and does not reattach.
DrawWithoutAttaching(p) ==
  /\ panels[p].mode = "reading"
  /\ panels' = [panels EXCEPT ![p].mode = "idle", ![p].read = 0, ![p].drawn = Answered]
  /\ UNCHANGED <<session, turns, loop, memory, overlapped, restarted>>

\* The turn's teardown leaves the session marked.
TearDownLeavingTheMark(t) ==
  /\ loop = [at |-> "stopping", turn |-> t]
  /\ session' = [session EXCEPT !.spent = @ \cup {t}]
  /\ turns' = [turns EXCEPT ![t].state = "over",
                            ![t].told.events = Append(@, [kind |-> "done", id |-> 0])]
  /\ loop' = Free
  /\ Wake(t)
  /\ UNCHANGED <<memory, overlapped, restarted>>

\* A turn starts from the CLI session it was given when it was posted.
BeginAfresh(t) ==
  /\ loop = Free /\ turns[t].state = "started"
  /\ \E reply \in Replies :
       turns' = [turns EXCEPT ![t].state = "running", ![t].left = reply, ![t].token = 0]
  /\ UNCHANGED <<session, loop, panels, memory, overlapped, restarted>>

-----------------------------------------------------------------------------
(* The browser and the page.                                               *)

\* chat_page and chat_panel: the session is loaded for its marks ...
Load(p) ==
  /\ panels' = [panels EXCEPT ![p] = [Closed EXCEPT !.mode = "reading",
                                                    !.read = session.active,
                                                    !.owed = Cardinality(Started)]]
  /\ UNCHANGED <<session, turns, loop, memory, overlapped, restarted>>

\* ... and again by history_view for its transcript; mount() then reattaches to
\* the turn the first load found.
Draw(p) ==
  LET drawn == [panels[p] EXCEPT !.drawn = Answered, !.read = 0] IN
  /\ panels[p].mode = "reading"
  /\ panels' = [panels EXCEPT ![p] = IF panels[p].read # 0 THEN Attached(drawn, panels[p].read)
                                     ELSE [drawn EXCEPT !.mode = "idle"]]
  /\ UNCHANGED <<session, turns, loop, memory, overlapped, restarted>>

\* sendText, up to its request: a panel that streams sends nothing.
Send(p) ==
  /\ panels[p].mode = "idle"
  /\ Cardinality({t \in Turn : turns[t].state # "unposted"}) + Cardinality(Sending) < MaxTurns
  /\ panels' = [panels EXCEPT ![p].mode = "sending"]
  /\ UNCHANGED <<session, turns, loop, memory, overlapped, restarted>>

\* post_message, up to set_pending_user.
PostMessage(p, t) ==
  /\ loop = Free /\ panels[p].mode = "sending"
  /\ turns[t].state = "unposted" /\ \A u \in 1..(t - 1) : turns[u].state # "unposted"
  /\ turns' = [turns EXCEPT ![t].state = "posted"]
  /\ session' = [session EXCEPT !.pending = t]
  /\ panels' = [panels EXCEPT ![p].mode = "posted"]
  /\ loop' = [at |-> "posting", turn |-> t]
  /\ UNCHANGED <<memory, overlapped, restarted>>

\* TurnManager.start, and the answer that carries the turn's id to the panel, if
\* the page is still there.
StartTurn(t) ==
  /\ loop = [at |-> "posting", turn |-> t]
  /\ turns' = [turns EXCEPT ![t].state = "started"]
  /\ session' = [session EXCEPT !.active = t]
  /\ panels' = [p \in Panel |-> IF panels[p].mode = "posted" THEN Attached(panels[p], t)
                                ELSE panels[p]]
  /\ overlapped' = (overlapped \/ Running # {})
  /\ loop' = Free
  /\ UNCHANGED <<memory, restarted>>

\* TurnManager.stream yields the next event, and the panel draws it.  A turn the
\* registry does not know is an error and done.
Receive(p) ==
  LET turn == turns[panels[p].on]
      next == panels[p].seen + 1
      ends == turn.state = "gone" \/ turn.told.events[next].kind = "done"
  IN
  /\ panels[p].mode = "attached" /\ ~panels[p].asleep
  /\ turn.state = "gone" \/ next \in DOMAIN turn.told.events
  /\ panels' = [panels EXCEPT ![p] = IF ends THEN Detached(@) ELSE [@ EXCEPT !.seen = next]]
  /\ UNCHANGED <<session, turns, loop, memory, overlapped, restarted>>

\* Turn.wait: the generator has read the whole buffer.
Wait(p) ==
  /\ panels[p].mode = "attached" /\ ~panels[p].asleep
  /\ turns[panels[p].on].state \in Live
  /\ panels[p].seen = Len(turns[panels[p].on].told.events)
  /\ panels' = [panels EXCEPT ![p].asleep = TRUE]
  /\ UNCHANGED <<session, turns, loop, memory, overlapped, restarted>>

\* onerror: the panel closes the stream for good and may send again.
Drop(p) ==
  /\ panels[p].mode = "attached"
  /\ panels' = [panels EXCEPT ![p] = [Detached(@) EXCEPT !.owed = 0]]
  /\ UNCHANGED <<session, turns, loop, memory, overlapped, restarted>>

-----------------------------------------------------------------------------
(* The turn: TurnManager._run.                                             *)

\* The task reads the resume token and asks the CLI.
Begin(t) ==
  /\ loop = Free /\ turns[t].state = "started"
  /\ \E reply \in Replies :
       turns' = [turns EXCEPT ![t].state = "running", ![t].left = reply,
                              ![t].token = session.token]
  /\ UNCHANGED <<session, loop, panels, memory, overlapped, restarted>>

\* A block arrives.
Speak(t) ==
  /\ loop = Free /\ turns[t].state = "running" /\ turns[t].left # <<>>
  /\ turns' = [turns EXCEPT ![t].told = Tell(@, Head(turns[t].left)), ![t].left = Tail(@)]
  /\ IF turns'[t].told.events # turns[t].told.events THEN Wake(t) ELSE UNCHANGED panels
  /\ UNCHANGED <<session, loop, memory, overlapped, restarted>>

\* The CLI ends the turn, naming its session or not: append_messages.
StoreReply(t) ==
  /\ loop = Free /\ turns[t].state = "running" /\ turns[t].left = <<>>
  /\ \E token \in {0, t} : turns' = [turns EXCEPT ![t].state = "stored", ![t].token = token]
  /\ session' = [session EXCEPT !.messages = Append(@, t), !.pending = 0]
  /\ memory' = [memory EXCEPT ![t] = Append(memory[turns[t].token], t)]
  /\ loop' = [at |-> "storing", turn |-> t]
  /\ UNCHANGED <<panels, overlapped, restarted>>

\* set_resume_token, of a turn that yielded one.
KeepToken(t) ==
  /\ loop = [at |-> "storing", turn |-> t]
  /\ turns' = [turns EXCEPT ![t].state = "ended"]
  /\ session' = [session EXCEPT !.token = IF turns[t].token # 0 THEN turns[t].token ELSE @]
  /\ loop' = [at |-> "stopping", turn |-> t]
  /\ UNCHANGED <<panels, memory, overlapped, restarted>>

\* The turn raises: an SDK or socket error is told, any other is not.
Fail(t, told) ==
  /\ loop = Free /\ turns[t].state = "running"
  /\ turns' = [turns EXCEPT ![t].state = "ended", ![t].left = <<>>, ![t].token = 0,
                            ![t].told.events =
                              IF told THEN Append(@, [kind |-> "error", id |-> 0]) ELSE @]
  /\ IF told THEN Wake(t) ELSE UNCHANGED panels
  /\ loop' = [at |-> "stopping", turn |-> t]
  /\ UNCHANGED <<session, memory, overlapped, restarted>>

\* The finally clause; a message of a chat carries no completion hook.
TearDown(t) ==
  /\ loop = [at |-> "stopping", turn |-> t]
  /\ session' = [session EXCEPT !.spent = @ \cup {t}, !.active = 0]
  /\ turns' = [turns EXCEPT ![t].state = "over",
                            ![t].told.events = Append(@, [kind |-> "done", id |-> 0])]
  /\ loop' = Free
  /\ Wake(t)
  /\ UNCHANGED <<memory, overlapped, restarted>>

\* The server restarts: the registry is empty, the session is as it was stored.
\* A stream breaks, a page load fails, and a message on its way gets no answer,
\* which sendText does not catch: the panel goes on claiming to stream.
Crash ==
  /\ turns' = [t \in Turn |-> IF turns[t].state = "unposted" THEN turns[t] ELSE Gone]
  /\ loop' = Free
  /\ panels' = [p \in Panel |->
                  CASE panels[p].mode = "reading" -> Closed
                    [] panels[p].mode \in {"sending", "posted"} -> [panels[p] EXCEPT !.mode = "stuck"]
                    [] panels[p].mode = "attached" -> Detached(panels[p])
                    [] OTHER -> panels[p]]
  /\ restarted' = TRUE
  /\ UNCHANGED <<session, memory, overlapped>>

-----------------------------------------------------------------------------
Server ==
  \E t \in Turn :
    \/ \E p \in Panel : PostMessage(p, t)
    \/ StartTurn(t) \/ Begin(t) \/ Speak(t) \/ StoreReply(t) \/ KeepToken(t)
    \/ \E told \in BOOLEAN : Fail(t, told)
    \/ TearDown(t)

Feed == \E p \in Panel : Draw(p) \/ Receive(p) \/ Wait(p)

Reader == \E p \in Panel : Load(p) \/ Send(p) \/ Drop(p)

Next == Server \/ Feed \/ Reader \/ Crash

Spec == Init /\ [][Next]_vars

(* The loop gets round to every handler and the CLI ends every turn it was *)
(* given; a page that is loading is drawn and a stream is read.            *)
Fairness ==
  /\ \A t \in Turn :
       /\ WF_vars(StartTurn(t)) /\ WF_vars(Begin(t)) /\ WF_vars(Speak(t)) /\ WF_vars(StoreReply(t))
       /\ WF_vars(KeepToken(t)) /\ WF_vars(TearDown(t))
  /\ \A p \in Panel : WF_vars(Receive(p)) /\ WF_vars(Draw(p))

FairSpec == Spec /\ Fairness

-----------------------------------------------------------------------------
(* Properties.                                                             *)

(* A panel at rest shows every answer to a message that was sent before the *)
(* page was read, out of the transcript or out of the stream it reattached  *)
(* to: the two reads of a page (chat_router._read_panel_context) and the    *)
(* saves of a turn's end, in whatever order they meet, lose no reply.  Two  *)
(* turns at a time, a broken stream and a restart may each lose one.        *)
NothingIsMissed ==
  \A p \in Panel :
    panels[p].mode = "idle" /\ ~overlapped /\ ~restarted =>
      \A t \in Answered : t <= panels[p].owed => t \in panels[p].drawn \cup panels[p].streamed

(* The session is marked with a turn that runs, so a page reattaches to     *)
(* something that ends, and while one turn runs at a time it is marked from  *)
(* the turn's start to its end (TurnManager.start, the finally of _run).     *)
MarkIsHonest ==
  /\ session.active # 0 /\ ~restarted => session.active \in Running
  /\ ~overlapped => \A t \in Running : session.active = t

(* While one turn runs at a time and the server stays up, the CLI session   *)
(* the next turn resumes remembers the transcript the page shows, in its    *)
(* order, but for the turns that named no session (`if resume_token`): one  *)
(* of those is forgotten by itself and takes no other turn with it.         *)
MemoryIsTheTranscript ==
  ~overlapped /\ ~restarted /\ loop.at # "storing" =>
    /\ Members(memory[session.token]) = Carried
    /\ InOrder(memory[session.token]) /\ InOrder(session.messages)

\* The two bubbles of every reply of a few blocks read alike.
FoldsAgree ==
  \A reply \in RepliesUpTo(FoldedBlocks) : ReadsTheSame(reply)

(* Whatever the running turn may answer reads the same live and after a      *)
(* reload, and the swap of renderStoredMarkdown finds the segments it looks  *)
(* for.  The fold of the browser and the fold of the store are two programs  *)
(* in two languages that have to agree on where a paragraph ends.           *)
EveryReplyReadsTheSame == Running # {} => FoldsAgree

(* Every stream ends: a turn tears down whatever happened in it, emits done  *)
(* and wakes the generators that wait on it.                                *)
EveryStreamEnds ==
  \A p \in Panel : panels[p].mode = "attached" ~> panels[p].mode # "attached"

=============================================================================
