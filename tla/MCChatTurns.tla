----------------------------- MODULE MCChatTurns -----------------------------
(***************************************************************************)
(* Replies of a paragraph, of a hidden answer and of an offer with a word   *)
(* after it.                                                               *)
(***************************************************************************)
EXTENDS ChatTurns

Block(kind, id) == [kind |-> kind, id |-> id]

MCReplies ==
  {<<Block("text", 0)>>,
   <<Block("submit", 1), Block("result", 1)>>,
   <<Block("offer", 1), Block("text", 0)>>}
=============================================================================
