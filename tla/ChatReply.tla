------------------------------ MODULE ChatReply ------------------------------
(***************************************************************************)
(* One reply of an agent, told three times over.  The engine              *)
(* (core/agent/sdk_engine.py) turns the blocks of the CLI into events for  *)
(* whoever watches and into parts for the transcript; the browser          *)
(* (static/chat-panel.js) draws a bubble out of the events; the store      *)
(* (core/agent/store.py) draws the same bubble out of the parts when the   *)
(* page is loaded again.                                                   *)
(*                                                                         *)
(* A block is a record [kind, id]: `id` names the tool call a "call",      *)
(* "submit" or "offer" makes and a "result" or "refused" answers, and is 0 *)
(* for the other kinds.                                                    *)
(***************************************************************************)
EXTENDS Naturals, Sequences, SequencesExt

BlockKinds ==
  {"text", "thinking",
   "call",      \* a tool row
   "submit",    \* submit_answer: a tool row, its acceptance hidden
   "offer",     \* offer_next_steps with arguments that validate
   "result",    \* a tool's answer
   "refused",   \* a tool's answer with is_error
   "system",    \* the CLI's own account of the turn
   "failed"}    \* a terminal message with is_error

CallKinds == {"call", "submit", "offer"}
AnswerKinds == {"result", "refused"}

\* The replies the CLI may give: an answer follows its call and comes once, a
\* failure ends the turn, and calls are numbered in the order they are made.
WellFormed(reply) ==
  /\ \A i \in DOMAIN reply :
       CASE reply[i].kind \in CallKinds ->
              reply[i].id = 1 + Len(SelectSeq(SubSeq(reply, 1, i - 1),
                                              LAMBDA b : b.kind \in CallKinds))
         [] reply[i].kind \in AnswerKinds ->
              /\ \E j \in 1..(i - 1) :
                   reply[j].kind \in CallKinds /\ reply[j].id = reply[i].id
              /\ ~ \E j \in 1..(i - 1) :
                   reply[j].kind \in AnswerKinds /\ reply[j].id = reply[i].id
         [] OTHER -> reply[i].id = 0
  /\ \A i \in DOMAIN reply : reply[i].kind = "failed" => i = Len(reply)

RepliesUpTo(n) ==
  LET Block == [kind : BlockKinds, id : 0..n]
      replies[k \in 0..n] ==
        IF k = 0 THEN {<<>>}
        ELSE {r \in {Append(s, b) : s \in replies[k - 1], b \in Block} : WellFormed(r)}
  IN UNION {replies[k] : k \in 0..n}

-----------------------------------------------------------------------------
(* The engine: what one block adds to the events and to the transcript.    *)

Unwritten == [events |-> <<>>, parts |-> <<>>, hidden |-> {}]

\* A block told to the watcher and kept for the transcript.
Told(told, b) == [told EXCEPT !.events = Append(@, b), !.parts = Append(@, b)]

\* _record_tool_results: an answer nobody is shown, unless it is an error.
ToldAnswer(told, b) ==
  LET seen == [told EXCEPT !.hidden = @ \ {b.id}] IN
  IF b.id \in told.hidden /\ b.kind = "result" THEN seen
  ELSE Told(seen, [b EXCEPT !.kind = "result"])

\* stream_turn, one block of one message.
Tell(told, b) ==
  CASE b.kind \in {"text", "thinking", "call"} -> Told(told, b)
    [] b.kind = "submit" -> Told([told EXCEPT !.hidden = @ \cup {b.id}], [b EXCEPT !.kind = "call"])
    [] b.kind = "offer" -> Told([told EXCEPT !.hidden = @ \cup {b.id}], b)
    [] b.kind \in AnswerKinds -> ToldAnswer(told, b)
    [] b.kind = "system" -> [told EXCEPT !.events = Append(@, b)]
    [] b.kind = "failed" -> [told EXCEPT !.events = Append(@, [b EXCEPT !.kind = "error"])]

Telling(reply) == FoldLeft(Tell, Unwritten, reply)

-----------------------------------------------------------------------------
(* The browser: newAssistant, one event at a time.  `open` is the region   *)
(* the next chunk of its kind joins, 0 when the last one closed it;        *)
(* `offers` is the region of the one row of offers; `pending` counts the   *)
(* rows of calls no result was put into (pendingTools).                    *)

EmptyBubble == [regions |-> <<>>, open |-> 0, offers |-> 0, pending |-> 0]

Opened(bubble, kind, holds) ==
  [bubble EXCEPT !.regions = Append(@, [kind |-> kind, holds |-> <<holds>>])]

\* thinking, text, tool: join the open region of the kind or open one.
Joined(bubble, kind, b) ==
  IF bubble.open # 0 /\ bubble.regions[bubble.open].kind = kind
  THEN [bubble EXCEPT !.regions[bubble.open].holds = Append(@, b)]
  ELSE [Opened(bubble, kind, b) EXCEPT !.open = Len(bubble.regions) + 1]

\* offers: a second row of offers takes the place of the first.
Offered(bubble, b) ==
  IF bubble.offers # 0
  THEN [bubble EXCEPT !.open = 0, !.regions[bubble.offers].holds = <<b>>]
  ELSE [Opened(bubble, "offers", b) EXCEPT !.open = 0, !.offers = Len(bubble.regions) + 1]

(* A plausible bug, used by no definition: it stands in for DrawLive to show *)
(* that a property notices when a tool call does not end the paragraph.     *)
DrawLiveAcrossTools(bubble, e) ==
  CASE e.kind \in {"text", "thinking"} -> Joined(bubble, e.kind, e)
    [] e.kind = "call" -> Opened(bubble, "tool", e)
    [] OTHER -> bubble

\* tool: the row waits for its result.
Called(bubble, e) == [Joined(bubble, "tool", e) EXCEPT !.pending = @ + 1]

\* toolResult: a result goes into the oldest row that waits, whichever call it
\* answers, or where none does stands by itself; it closes no region.
Resulted(bubble, e) ==
  IF bubble.pending > 0 THEN [bubble EXCEPT !.pending = @ - 1]
  ELSE Opened(bubble, "result", e)

DrawLive(bubble, e) ==
  CASE e.kind \in {"text", "thinking"} -> Joined(bubble, e.kind, e)
    [] e.kind = "call" -> Called(bubble, e)
    [] e.kind = "result" -> Resulted(bubble, e)
    [] e.kind = "offer" -> Offered(bubble, e)
    [] e.kind = "error" -> [Opened(bubble, "error", e) EXCEPT !.open = 0]
    [] e.kind \in {"system", "done"} -> bubble

LiveBubble(events) == FoldLeft(DrawLive, EmptyBubble, events).regions

-----------------------------------------------------------------------------
(* The store: _blocks_in_turn_order, the bubble a reload draws.            *)

\* _append_prose and _append_tool_call: one block per run of a kind.
Run(blocks, kind, p) ==
  IF blocks # <<>> /\ Last(blocks).kind = kind
  THEN [blocks EXCEPT ![Len(blocks)].holds = Append(@, p)]
  ELSE Append(blocks, [kind |-> kind, holds |-> <<p>>])

DrawStored(blocks, p) ==
  CASE p.kind = "text" -> Run(blocks, "text", p)
    [] p.kind = "thinking" -> Run(blocks, "thinking", p)
    [] p.kind = "call" -> Run(blocks, "tool", p)
    [] p.kind = "offer" -> Append(blocks, [kind |-> "offers", holds |-> <<p>>])
    [] p.kind = "result" -> blocks

\* _drop_superseded_offers
WithoutSupersededOffers(blocks) ==
  LET offers == {i \in DOMAIN blocks : blocks[i].kind = "offers"}
      newest == CHOOSE i \in offers : \A j \in offers : j <= i
      kept[i \in 0..Len(blocks)] ==
        IF i = 0 THEN <<>>
        ELSE IF i \in offers /\ i # newest THEN kept[i - 1]
        ELSE Append(kept[i - 1], blocks[i])
  IN kept[Len(blocks)]

StoredBubble(parts) == WithoutSupersededOffers(FoldLeft(DrawStored, <<>>, parts))

-----------------------------------------------------------------------------
\* read_last_reply_texts, and the regions renderStoredMarkdown swaps.
Segments(bubble) == SelectSeq(bubble, LAMBDA r : r.kind = "text")

\* What a reader makes of a bubble, but for what only the live side draws (an error,
\* a result by itself) and where the offers stand.
Reading(bubble) == SelectSeq(bubble, LAMBDA r : r.kind \notin {"error", "result", "offers"})

\* The offers a reader may click.
Offers(bubble) == SelectSeq(bubble, LAMBDA r : r.kind = "offers")

\* An answer the reader is shown though its call draws no row.
RefusesAnOffer(reply) ==
  \E i, j \in DOMAIN reply :
    reply[i].kind = "offer" /\ reply[j].kind = "refused" /\ reply[j].id = reply[i].id

(* The two bubbles of a reply read alike: the same regions hold the same   *)
(* blocks in the same order, so the swap of the live text for the stored   *)
(* text finds as many segments as it drew, each with its own words, and    *)
(* the same offers can be clicked.  The live bubble shows a result by      *)
(* itself, which a reload does not, only if an offer was refused.          *)
ReadsTheSame(reply) ==
  LET told == Telling(reply)
      live == LiveBubble(told.events)  stored == StoredBubble(told.parts)
  IN
  /\ Segments(live) = Segments(stored)
  /\ Reading(live) = Reading(stored)
  /\ Offers(live) = Offers(stored)
  /\ (\E i \in DOMAIN live : live[i].kind = "result") => RefusesAnOffer(reply)
=============================================================================
