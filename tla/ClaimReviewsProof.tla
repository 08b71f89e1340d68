------------------------- MODULE ClaimReviewsProof -------------------------
(***************************************************************************)
(* What ClaimReviews promises of claims and their reviews, for any set of  *)
(* shapes, contexts, runs and reviewers and any number of claims: one      *)
(* claim of a fact stands, and a claim is reviewed once.                   *)
(*                                                                         *)
(* Both rest on what a handler that stands between two of its store calls  *)
(* has read and not yet acted on: submit_claim holds the claims it has     *)
(* still to supersede, start_claim_review the claim it found unreviewed.   *)
(***************************************************************************)
EXTENDS ClaimReviews, SequenceTheorems, WellFoundedInduction, TLAPS

\* While submit_claim supersedes, every claim in the new one's way is still on
\* its list.
SupersedingIsOnItsWay ==
  loop.at = "superseding" =>
    \A c \in DOMAIN claims : Stands(claims[c]) /\ SameFact(claims[c], loop.draft[1]) => c \in loop.left

ClaimInvariant == TypeOK /\ AtMostOneStands /\ SupersedingIsOnItsWay

\* A function on 1..n is a sequence.
LEMMA FunctionIsASeq ==
  ASSUME NEW S, NEW n \in Nat, NEW f \in [1..n -> S]
  PROVE  f \in Seq(S)
OBVIOUS

\* The loop when no handler stands on it.
LEMMA FreeIsStanding == Free \in Standing /\ Free.at = "free" /\ Free.left = {} /\ Free.draft = <<>>
BY DEF Free, Standing

\* A review is a claim's while it goes, and its session is marked; and the session
\* start_claim_review has just opened is of a claim that has none marked.
GoingIsMarked == \A s \in DOMAIN sessions : sessions[s].task \in Going => sessions[s].marked

OpenedIsAlone ==
  loop.at = "marking" =>
    /\ sessions[loop.of].task = "none"
    /\ \A s \in DOMAIN sessions : sessions[s].claim = sessions[loop.of].claim => ~sessions[s].marked

OneGoes ==
  \A s, t \in DOMAIN sessions :
    /\ sessions[s].task \in Going /\ sessions[t].task \in Going
    /\ sessions[s].claim = sessions[t].claim
    => s = t

ReviewInvariant == TypeOK /\ GoingIsMarked /\ OpenedIsAlone /\ ReviewedOnce

\* Before anything is submitted there are no claims, reviews or sessions.
LEMMA InitHolds == Init => ClaimInvariant /\ ReviewInvariant
<1>. SUFFICES ASSUME Init  PROVE ClaimInvariant /\ ReviewInvariant
  OBVIOUS
<1>1. /\ claims = <<>> /\ claims \in Seq(Claim) /\ Len(claims) = 0 /\ DOMAIN claims = {}
      /\ sessions = <<>> /\ sessions \in Seq(Session) /\ DOMAIN sessions = {}
      /\ reviews = {} /\ loop = Free /\ restarted = FALSE
  BY EmptySeq DEF Init
<1>2. loop \in Standing /\ loop.at = "free" /\ loop.left = {}
  BY <1>1, FreeIsStanding
<1>3. Len(claims) <= MaxClaims
  BY <1>1, ClaimConstants
<1>4. TypeOK
  <2>1. reviews \subseteq [claim : DOMAIN claims, session : DOMAIN sessions]
    BY <1>1
  <2>2. \A s \in DOMAIN sessions : sessions[s].claim \in DOMAIN claims
    BY <1>1
  <2>3. restarted \in BOOLEAN
    BY <1>1
  <2>. QED  BY <1>1, <1>2, <1>3, <2>1, <2>2, <2>3 DEF TypeOK
<1>. QED
  BY <1>1, <1>2, <1>4 DEF ClaimInvariant, AtMostOneStands, SupersedingIsOnItsWay,
     ReviewInvariant, GoingIsMarked, OpenedIsAlone, ReviewedOnce

-----------------------------------------------------------------------------
(* What the actions do to the claims and to the sessions.                  *)

\* A claim that is proposed, and a skip.
LEMMA ProposalsAreClaims ==
  ASSUME NEW p \in Proposal
  PROVE  /\ Proposed(p) \in Claim /\ Skipped(p) \in Claim
         /\ Skipped(p).status = "declined"
BY ClaimConstants DEF Proposed, Skipped, Claim, Statuses

\* A claim that is given a status is a claim, of the fact it was of.
LEMMA GivenAStatus ==
  ASSUME TypeOK, NEW c \in DOMAIN claims, NEW status \in Statuses
  PROVE  LET after == [claims EXCEPT ![c].status = status] IN
         /\ after \in Seq(Claim) /\ Len(after) = Len(claims) /\ DOMAIN after = DOMAIN claims
         /\ after[c].status = status
         /\ \A d \in DOMAIN claims : /\ after[d].shape = claims[d].shape
                                     /\ after[d].context = claims[d].context
                                     /\ d # c => after[d] = claims[d]
<1> DEFINE after == [claims EXCEPT ![c].status = status]
<1>1. claims \in Seq(Claim) /\ DOMAIN claims = 1..Len(claims) /\ Len(claims) \in Nat
  BY LenProperties DEF TypeOK
<1>2. \A d \in DOMAIN claims : claims[d] \in Claim
  BY <1>1, ElementOfSeq
<1>3. /\ [claims[c] EXCEPT !.status = status] \in Claim
      /\ [claims[c] EXCEPT !.status = status].status = status
      /\ [claims[c] EXCEPT !.status = status].shape = claims[c].shape
      /\ [claims[c] EXCEPT !.status = status].context = claims[c].context
  BY <1>2 DEF Claim
<1>4. after = [claims EXCEPT ![c] = [claims[c] EXCEPT !.status = status]]
  OBVIOUS
<1>5. after \in Seq(Claim) /\ Len(after) = Len(claims)
  BY <1>1, <1>3, <1>4, ExceptSeq
<1>. QED  BY <1>1, <1>3, <1>5

\* A claim that stands after it was given a status that does not stand stood before,
\* and so did every other: no claim begins to stand.
LEMMA FewerStand ==
  ASSUME TypeOK, NEW c \in DOMAIN claims, NEW status \in {"declined", "superseded"},
         claims' = [claims EXCEPT ![c].status = status]
  PROVE  \A d \in DOMAIN claims' : Stands(claims[d])' =>
           d \in DOMAIN claims /\ d # c /\ claims'[d] = claims[d]
<1>1. status \in Statuses
  BY DEF Statuses
<1>2. /\ DOMAIN claims' = DOMAIN claims /\ claims'[c].status = status
      /\ \A d \in DOMAIN claims : d # c => claims'[d] = claims[d]
  BY <1>1, GivenAStatus
<1>. QED  BY <1>2 DEF Stands

\* The claims that stand stood, of the fact they were of: nothing new is in anyone's way.
LEMMA NothingNewStands ==
  ASSUME ClaimInvariant, loop' = loop,
         \A d \in DOMAIN claims' : Stands(claims[d])' => d \in DOMAIN claims /\ claims'[d] = claims[d]
  PROVE  AtMostOneStands' /\ SupersedingIsOnItsWay'
BY DEF ClaimInvariant, AtMostOneStands, SupersedingIsOnItsWay, Stands, SameFact

\* A sequence of sessions one of which is given another state.
LEMMA GivenAState ==
  ASSUME TypeOK, NEW s \in DOMAIN sessions, NEW session \in Session,
         session.claim = sessions[s].claim, sessions' = [sessions EXCEPT ![s] = session]
  PROVE  /\ sessions' \in Seq(Session) /\ DOMAIN sessions' = DOMAIN sessions
         /\ sessions'[s] = session
         /\ \A t \in DOMAIN sessions : t # s => sessions'[t] = sessions[t]
         /\ \A t \in DOMAIN sessions : sessions'[t].claim = sessions[t].claim
<1>1. sessions \in Seq(Session) /\ DOMAIN sessions = 1..Len(sessions)
  BY LenProperties DEF TypeOK
<1>. QED  BY <1>1, ExceptSeq, LenProperties

\* Reviews that go are reviews that went, whoever stops.
LEMMA NoneBegins ==
  ASSUME ReviewInvariant, DOMAIN sessions' = DOMAIN sessions, loop'.at # "marking",
         \A s \in DOMAIN sessions :
           /\ sessions'[s].claim = sessions[s].claim
           /\ sessions'[s].task \in Going =>
                sessions[s].task \in Going /\ sessions'[s].marked = sessions[s].marked
  PROVE  GoingIsMarked' /\ OpenedIsAlone' /\ OneGoes'
BY DEF ReviewInvariant, GoingIsMarked, OpenedIsAlone, OneGoes, ReviewedOnce

\* What a session's record is made of.
LEMMA SessionType ==
  ASSUME TypeOK, NEW s \in DOMAIN sessions
  PROVE  /\ sessions[s] \in Session /\ sessions[s].claim \in DOMAIN claims
         /\ sessions[s].agents \in [Reviewer -> Agents]
         /\ s \in Nat
<1>1. sessions \in Seq(Session) /\ DOMAIN sessions = 1..Len(sessions)
  BY LenProperties DEF TypeOK
<1>2. sessions[s] \in Session
  BY <1>1, ElementOfSeq
<1>. QED  BY <1>1, <1>2 DEF TypeOK, Session

\* A step of reviews: sessions go on or stop, at most one review is stored, of a claim
\* that had none, and the loop is left free or at a task's finally clause.
LEMMA ReviewsStep ==
  ASSUME ClaimInvariant, ReviewInvariant, UNCHANGED claims, restarted' \in BOOLEAN,
         sessions' \in Seq(Session), DOMAIN sessions' = DOMAIN sessions,
         \A s \in DOMAIN sessions :
           /\ sessions'[s].claim = sessions[s].claim
           /\ sessions'[s].task \in Going =>
                sessions[s].task \in Going /\ sessions'[s].marked = sessions[s].marked,
         \/ reviews' = reviews
         \/ \E s \in DOMAIN sessions :
              /\ ~Reviewed(sessions[s].claim)
              /\ reviews' = reviews \cup {[claim |-> sessions[s].claim, session |-> s]},
         loop' = Free \/ \E s \in DOMAIN sessions : loop' = [Free EXCEPT !.at = "closing", !.of = s]
  PROVE  ClaimInvariant' /\ ReviewInvariant'
<1>1. TypeOK
  BY DEF ClaimInvariant
<1>2. /\ loop' \in Standing /\ loop'.left = {}
      /\ loop'.at \in {"free", "closing"}
      /\ loop'.at = "closing" => loop'.of \in DOMAIN sessions
  <2>1. CASE loop' = Free
    BY <2>1, FreeIsStanding
  <2>2. ASSUME NEW s \in DOMAIN sessions, loop' = [Free EXCEPT !.at = "closing", !.of = s]
        PROVE  /\ loop' \in Standing /\ loop'.left = {}
               /\ loop'.at = "closing" /\ loop'.of \in DOMAIN sessions
    <3>1. s \in Nat
      BY <1>1, SessionType
    <3>. QED  BY <2>2, <3>1, FreeIsStanding DEF Standing
  <2>. QED  BY <2>1, <2>2, FreeIsStanding
<1>3. reviews' \subseteq [claim : DOMAIN claims, session : DOMAIN sessions]
  <2>1. reviews \subseteq [claim : DOMAIN claims, session : DOMAIN sessions]
    BY <1>1 DEF TypeOK
  <2>2. \A s \in DOMAIN sessions :
          [claim |-> sessions[s].claim, session |-> s] \in [claim : DOMAIN claims, session : DOMAIN sessions]
    BY <1>1, SessionType
  <2>. QED  BY <2>1, <2>2
<1>4. TypeOK'
  <2>1. claims' \in Seq(Claim) /\ Len(claims') <= MaxClaims
    BY <1>1 DEF TypeOK
  <2>2. \A s \in DOMAIN sessions' : sessions'[s].claim \in DOMAIN claims'
    BY <1>1 DEF TypeOK
  <2>. QED  BY <1>2, <1>3, <2>1, <2>2 DEF TypeOK
<1>5. AtMostOneStands' /\ SupersedingIsOnItsWay'
  BY <1>2 DEF ClaimInvariant, AtMostOneStands, SupersedingIsOnItsWay, Stands, SameFact
<1>6. GoingIsMarked' /\ OpenedIsAlone' /\ OneGoes'
  BY <1>2, NoneBegins
<1>7. \A one, other \in reviews' : one.claim = other.claim => one = other
  <2>1. \A one, other \in reviews : one.claim = other.claim => one = other
    BY DEF ReviewInvariant, ReviewedOnce
  <2>2. ASSUME NEW s \in DOMAIN sessions, ~Reviewed(sessions[s].claim),
               reviews' = reviews \cup {[claim |-> sessions[s].claim, session |-> s]}
        PROVE  \A one, other \in reviews' : one.claim = other.claim => one = other
    <3> DEFINE review == [claim |-> sessions[s].claim, session |-> s]
    <3>1. \A one \in reviews : one.claim # sessions[s].claim
      BY <2>2 DEF Reviewed
    <3>2. reviews' = reviews \cup {review} /\ review.claim = sessions[s].claim
      BY <2>2
    <3> HIDE DEF review
    <3>. QED  BY <2>1, <3>1, <3>2
  <2>. QED  BY <2>1, <2>2
<1>8. ReviewedOnce'
  BY <1>6, <1>7 DEF OneGoes, ReviewedOnce
<1>. QED  BY <1>4, <1>5, <1>6, <1>8 DEF ClaimInvariant, ReviewInvariant

\* A step of one review, whose task stops or goes on as it is marked.
LEMMA ReviewStep ==
  ASSUME ClaimInvariant, ReviewInvariant, UNCHANGED <<claims, restarted>>,
         NEW s \in DOMAIN sessions, NEW session \in Session,
         session.claim = sessions[s].claim,
         session.task \in Going => sessions[s].task \in Going /\ session.marked = sessions[s].marked,
         sessions' = [sessions EXCEPT ![s] = session],
         \/ reviews' = reviews
         \/ /\ ~Reviewed(sessions[s].claim)
            /\ reviews' = reviews \cup {[claim |-> sessions[s].claim, session |-> s]},
         loop' = Free \/ Closing(s)
  PROVE  ClaimInvariant' /\ ReviewInvariant'
<1>1. TypeOK
  BY DEF ClaimInvariant
<1>2. /\ sessions' \in Seq(Session) /\ DOMAIN sessions' = DOMAIN sessions
      /\ sessions'[s] = session
      /\ \A t \in DOMAIN sessions : t # s => sessions'[t] = sessions[t]
      /\ \A t \in DOMAIN sessions : sessions'[t].claim = sessions[t].claim
  BY <1>1, GivenAState
<1>3. restarted' \in BOOLEAN
  BY <1>1 DEF TypeOK
<1>4. loop' = Free \/ \E t \in DOMAIN sessions : loop' = [Free EXCEPT !.at = "closing", !.of = t]
  BY DEF Closing
<1>5. \A t \in DOMAIN sessions :
        /\ sessions'[t].claim = sessions[t].claim
        /\ sessions'[t].task \in Going =>
             sessions[t].task \in Going /\ sessions'[t].marked = sessions[t].marked
  BY <1>2
<1>. QED  BY <1>2, <1>3, <1>4, <1>5, ReviewsStep

-----------------------------------------------------------------------------
(* The actions, one by one.                                                *)

Both == ClaimInvariant /\ ReviewInvariant

\* Only the claims change, none begins to stand, and the loop stays.
LEMMA ClaimsStep ==
  ASSUME Both, UNCHANGED <<reviews, sessions, restarted>>,
         claims' \in Seq(Claim), Len(claims') <= MaxClaims, DOMAIN claims \subseteq DOMAIN claims',
         loop' \in Standing, loop'.left \subseteq DOMAIN claims',
         loop'.at = "superseding" => Len(loop'.draft) = 1 /\ Len(claims') < MaxClaims,
         loop'.at = "opening" => loop'.of \in DOMAIN claims',
         loop'.at \notin {"marking", "closing"},
         AtMostOneStands', SupersedingIsOnItsWay'
  PROVE  Both'
<1>1. TypeOK'
  <2>1. reviews \subseteq [claim : DOMAIN claims', session : DOMAIN sessions]
    <3>1. reviews \subseteq [claim : DOMAIN claims, session : DOMAIN sessions]
      BY DEF Both, ClaimInvariant, TypeOK
    <3>2. [claim : DOMAIN claims, session : DOMAIN sessions]
            \subseteq [claim : DOMAIN claims', session : DOMAIN sessions]
      OBVIOUS
    <3>. QED  BY <3>1, <3>2
  <2>2. \A s \in DOMAIN sessions : sessions[s].claim \in DOMAIN claims'
    BY DEF Both, ClaimInvariant, TypeOK
  <2>3. sessions \in Seq(Session) /\ restarted \in BOOLEAN
    BY DEF Both, ClaimInvariant, TypeOK
  <2>. QED  BY <2>1, <2>2, <2>3 DEF TypeOK
<1>2. GoingIsMarked' /\ OpenedIsAlone' /\ ReviewedOnce'
  BY DEF Both, ReviewInvariant, GoingIsMarked, OpenedIsAlone, ReviewedOnce
<1>. QED  BY <1>1, <1>2 DEF Both, ClaimInvariant, ReviewInvariant

\* submit_claim lists every standing claim of the fact it is about to state.
LEMMA SubmitStep == ASSUME Both, NEW p \in Proposal, Submit(p)  PROVE Both'
<1> DEFINE draft == Proposed(p)
<1>1. TypeOK /\ draft \in Claim
  BY ProposalsAreClaims DEF Both, ClaimInvariant
<1>2. /\ UNCHANGED <<claims, reviews, sessions, restarted>> /\ Len(claims) < MaxClaims
      /\ loop' = [Free EXCEPT !.at = "superseding", !.left = Equivalent(draft), !.draft = <<draft>>]
  BY DEF Submit
<1> HIDE DEF draft
<1>3. Equivalent(draft) \subseteq DOMAIN claims /\ DOMAIN claims \subseteq Nat
  BY <1>1, LenProperties DEF Equivalent, TypeOK
<1>4. <<draft>> \in Seq(Claim) /\ Len(<<draft>>) = 1 /\ <<draft>>[1] = draft
  BY <1>1
<1>5. /\ loop' \in Standing /\ loop'.at = "superseding"
      /\ loop'.left = Equivalent(draft) /\ loop'.draft = <<draft>>
  <2> DEFINE one == <<draft>>
  <2> HIDE DEF one
  <2>1. one \in Seq(Claim) /\ loop' = [Free EXCEPT !.at = "superseding", !.left = Equivalent(draft), !.draft = one]
    BY <1>2, <1>4 DEF one
  <2>2. loop' \in Standing /\ loop'.at = "superseding" /\ loop'.left = Equivalent(draft) /\ loop'.draft = one
    BY <1>3, <2>1, FreeIsStanding DEF Standing
  <2>. QED  BY <2>2 DEF one
<1>6. AtMostOneStands'
  BY <1>2 DEF Both, ClaimInvariant, AtMostOneStands, Stands, SameFact
<1>7. SupersedingIsOnItsWay'
  BY <1>2, <1>4, <1>5 DEF SupersedingIsOnItsWay, Equivalent, Stands, SameFact
<1>8. claims' \in Seq(Claim) /\ Len(claims') <= MaxClaims
  BY <1>1, <1>2 DEF TypeOK
<1>. QED  BY <1>2, <1>3, <1>4, <1>5, <1>6, <1>7, <1>8, ClaimsStep

\* Superseding one listed claim leaves the others in the way on the list.
LEMMA SupersedeStep == ASSUME Both, NEW c \in DOMAIN claims, Supersede(c)  PROVE Both'
<1>1. /\ TypeOK /\ loop.at = "superseding" /\ c \in loop.left
      /\ claims' = [claims EXCEPT ![c].status = "superseded"]
      /\ loop' = [loop EXCEPT !.left = @ \ {c}]
      /\ UNCHANGED <<reviews, sessions, restarted>>
  BY DEF Both, ClaimInvariant, Supersede
<1>2. /\ claims' \in Seq(Claim) /\ Len(claims') = Len(claims) /\ DOMAIN claims' = DOMAIN claims
      /\ \A d \in DOMAIN claims : /\ claims'[d].shape = claims[d].shape
                                  /\ claims'[d].context = claims[d].context
  BY <1>1, GivenAStatus DEF Statuses
<1>3. \A d \in DOMAIN claims' : Stands(claims[d])' => d # c /\ claims'[d] = claims[d]
  BY <1>1, FewerStand
<1>4. /\ loop' \in Standing /\ loop'.at = "superseding" /\ loop'.left = loop.left \ {c}
      /\ loop'.draft = loop.draft
  BY <1>1 DEF TypeOK, Standing
<1>5. AtMostOneStands'
  BY <1>2, <1>3 DEF Both, ClaimInvariant, AtMostOneStands, Stands, SameFact
<1>6. SupersedingIsOnItsWay'
  BY <1>1, <1>2, <1>3, <1>4 DEF Both, ClaimInvariant, SupersedingIsOnItsWay, Stands, SameFact
<1>7. /\ Len(claims') <= MaxClaims /\ loop'.left \subseteq DOMAIN claims'
      /\ Len(loop'.draft) = 1 /\ Len(claims') < MaxClaims
  BY <1>1, <1>2, <1>4 DEF TypeOK
<1>. QED  BY <1>1, <1>2, <1>4, <1>5, <1>6, <1>7, ClaimsStep

\* The new claim is written when nothing in its way is left on the list.
LEMMA WriteClaimStep == ASSUME Both, WriteClaim  PROVE Both'
<1> DEFINE n == Len(claims)
           draft == loop.draft[1]
<1>1. /\ TypeOK /\ loop.at = "superseding" /\ loop.left = {}
      /\ claims' = claims \o loop.draft
      /\ loop' = [Free EXCEPT !.at = "opening", !.of = n + 1]
      /\ UNCHANGED <<reviews, sessions, restarted>>
  BY DEF Both, ClaimInvariant, WriteClaim
<1>2. /\ claims \in Seq(Claim) /\ n \in Nat /\ DOMAIN claims = 1..n /\ n < MaxClaims
      /\ loop.draft \in Seq(Claim) /\ Len(loop.draft) = 1
      /\ MaxClaims \in Nat
  BY <1>1, LenProperties, ClaimConstants DEF TypeOK, Standing
<1>3. /\ claims' \in Seq(Claim) /\ Len(claims') = n + 1 /\ DOMAIN claims' = 1..(n + 1)
      /\ \A c \in 1..n : claims'[c] = claims[c]
      /\ claims'[n + 1] = draft
  <2>1. /\ claims \o loop.draft \in Seq(Claim)
        /\ Len(claims \o loop.draft) = Len(claims) + Len(loop.draft)
        /\ \A c \in 1..(Len(claims) + Len(loop.draft)) : (claims \o loop.draft)[c] =
             IF c <= Len(claims) THEN claims[c] ELSE loop.draft[c - Len(claims)]
    <3>1. claims \in Seq(Claim) /\ loop.draft \in Seq(Claim)
      BY <1>2
    <3>. QED  BY <3>1, ConcatProperties
  <2>2. (n + 1) - n = 1
    BY <1>2
  <2>. QED  BY <1>1, <1>2, <2>1, <2>2, LenProperties
<1>4. \A c \in 1..n : Stands(claims[c]) => ~SameFact(claims[c], draft)
  BY <1>1, <1>2 DEF Both, ClaimInvariant, SupersedingIsOnItsWay
<1> HIDE DEF n, draft
<1>5. AtMostOneStands'
  <2>1. \A c, d \in 1..n : Stands(claims[c]) /\ Stands(claims[d]) /\ SameFact(claims[c], claims[d]) => c = d
    BY <1>2 DEF Both, ClaimInvariant, AtMostOneStands
  <2>2. \A c, d \in 1..(n + 1) :
          Stands(claims'[c]) /\ Stands(claims'[d]) /\ SameFact(claims'[c], claims'[d]) => c = d
    BY <1>2, <1>3, <1>4, <2>1 DEF Stands, SameFact
  <2>. QED  BY <1>3, <2>2 DEF AtMostOneStands, Stands, SameFact
<1>6. loop' \in Standing /\ loop'.at = "opening" /\ loop'.left = {} /\ loop'.of = n + 1
  <2>1. n + 1 \in Nat
    BY <1>2
  <2>. QED  BY <1>1, <2>1, FreeIsStanding DEF Standing
<1>7. SupersedingIsOnItsWay'
  BY <1>6 DEF SupersedingIsOnItsWay
<1>. QED  BY <1>1, <1>2, <1>3, <1>5, <1>6, <1>7, ClaimsStep

\* A claim may stand again where none stands of its fact.
LEMMA ApproveStep == ASSUME Both, NEW c \in DOMAIN claims, Approve(c)  PROVE Both'
<1>1. /\ TypeOK /\ loop = Free /\ Equivalent(claims[c]) \subseteq {c}
      /\ claims' = [claims EXCEPT ![c].status = "approved"]
      /\ UNCHANGED <<reviews, sessions, loop, restarted>>
  BY DEF Both, ClaimInvariant, Approve
<1>2. /\ claims' \in Seq(Claim) /\ Len(claims') = Len(claims) /\ DOMAIN claims' = DOMAIN claims
      /\ \A d \in DOMAIN claims : /\ claims'[d].shape = claims[d].shape
                                  /\ claims'[d].context = claims[d].context
                                  /\ d # c => claims'[d] = claims[d]
  BY <1>1, GivenAStatus DEF Statuses
<1>3. \A d \in DOMAIN claims : d # c /\ Stands(claims[d]) => ~SameFact(claims[d], claims[c])
  BY <1>1 DEF Equivalent
<1>4. AtMostOneStands'
  BY <1>2, <1>3 DEF Both, ClaimInvariant, AtMostOneStands, Stands, SameFact
<1>5. loop' \in Standing /\ loop'.at = "free" /\ loop'.left = {}
  BY <1>1, FreeIsStanding
<1>6. SupersedingIsOnItsWay'
  BY <1>5 DEF SupersedingIsOnItsWay
<1>7. Len(claims') <= MaxClaims
  BY <1>1, <1>2 DEF TypeOK
<1>. QED  BY <1>1, <1>2, <1>4, <1>5, <1>6, <1>7, ClaimsStep

\* A declined claim does not stand, and only claims change.
LEMMA DeclineStep == ASSUME Both, NEW c \in DOMAIN claims, Decline(c)  PROVE Both'
<1>1. /\ TypeOK /\ loop = Free
      /\ claims' = [claims EXCEPT ![c].status = "declined"]
      /\ UNCHANGED <<reviews, sessions, loop, restarted>>
  BY DEF Both, ClaimInvariant, Decline
<1>2. claims' \in Seq(Claim) /\ Len(claims') = Len(claims) /\ DOMAIN claims' = DOMAIN claims
  BY <1>1, GivenAStatus DEF Statuses
<1>3. AtMostOneStands' /\ SupersedingIsOnItsWay'
  BY <1>1, <1>2, FewerStand, NothingNewStands DEF Both
<1>4. loop' \in Standing /\ loop'.at = "free" /\ loop'.left = {}
  BY <1>1, FreeIsStanding
<1>5. Len(claims') <= MaxClaims
  BY <1>1, <1>2 DEF TypeOK
<1>. QED  BY <1>1, <1>2, <1>3, <1>4, <1>5, ClaimsStep

\* A skipped reading is written as a claim that never stands.
LEMMA SkipStep == ASSUME Both, NEW p \in Proposal, Skip(p)  PROVE Both'
<1> DEFINE n == Len(claims)
<1>1. /\ TypeOK /\ loop = Free /\ n < MaxClaims
      /\ claims' = Append(claims, Skipped(p))
      /\ UNCHANGED <<reviews, sessions, loop, restarted>>
  BY DEF Both, ClaimInvariant, Skip
<1>2. Skipped(p) \in Claim /\ Skipped(p).status = "declined"
  BY ProposalsAreClaims
<1>3. claims \in Seq(Claim) /\ n \in Nat /\ DOMAIN claims = 1..n /\ MaxClaims \in Nat
  BY <1>1, LenProperties, ClaimConstants DEF TypeOK
<1>4. /\ claims' \in Seq(Claim) /\ Len(claims') = n + 1 /\ DOMAIN claims' = 1..(n + 1)
      /\ \A c \in 1..n : claims'[c] = claims[c]
      /\ claims'[n + 1] = Skipped(p)
  BY <1>1, <1>2, <1>3, AppendProperties, LenProperties
<1> HIDE DEF n
<1>5. \A d \in DOMAIN claims' : Stands(claims[d])' => d \in DOMAIN claims /\ claims'[d] = claims[d]
  BY <1>2, <1>3, <1>4 DEF Stands
<1>6. AtMostOneStands' /\ SupersedingIsOnItsWay'
  BY <1>1, <1>5, NothingNewStands DEF Both
<1>7. loop' \in Standing /\ loop'.at = "free" /\ loop'.left = {}
  BY <1>1, FreeIsStanding
<1>. QED  BY <1>1, <1>3, <1>4, <1>6, <1>7, ClaimsStep

\* start_claim_review goes on for a claim without a review under way.
LEMMA AskForReviewStep == ASSUME Both, NEW c \in DOMAIN claims, AskForReview(c)  PROVE Both'
<1>1. /\ TypeOK /\ loop' = [Free EXCEPT !.at = "opening", !.of = c]
      /\ UNCHANGED <<claims, reviews, sessions, restarted>>
  BY DEF Both, ClaimInvariant, AskForReview
<1>2. c \in Nat
  BY <1>1, LenProperties DEF TypeOK
<1>3. loop' \in Standing /\ loop'.at = "opening" /\ loop'.left = {} /\ loop'.of = c
  BY <1>1, <1>2, FreeIsStanding DEF Standing
<1>4. AtMostOneStands' /\ SupersedingIsOnItsWay'
  BY <1>1, <1>3 DEF Both, ClaimInvariant, AtMostOneStands, SupersedingIsOnItsWay, Stands, SameFact
<1>5. claims' \in Seq(Claim) /\ Len(claims') <= MaxClaims
  BY <1>1 DEF TypeOK
<1>. QED  BY <1>1, <1>3, <1>4, <1>5, ClaimsStep

\* A session is opened beside none that is marked.
LEMMA OpenSessionStep == ASSUME Both, OpenSession  PROVE Both'
<1> DEFINE c == loop.of
           n == Len(sessions)
           session == [claim |-> c, marked |-> FALSE, failed |-> FALSE, task |-> "none",
                       agents |-> [r \in Reviewer |-> "idle"]]
<1>1. /\ TypeOK /\ loop.at = "opening" /\ c \in DOMAIN claims
      /\ UNCHANGED <<claims, reviews, restarted>>
      /\ claims \in Seq(Claim) /\ Len(claims) <= MaxClaims
  BY DEF Both, ClaimInvariant, TypeOK, OpenSession
<1>2. ASSUME loop' = Free, UNCHANGED sessions  PROVE Both'
  <2>1. loop' \in Standing /\ loop'.at = "free" /\ loop'.left = {}
    BY <1>2, FreeIsStanding
  <2>2. AtMostOneStands' /\ SupersedingIsOnItsWay'
    BY <1>1, <2>1 DEF Both, ClaimInvariant, AtMostOneStands, SupersedingIsOnItsWay, Stands, SameFact
  <2>. QED  BY <1>1, <1>2, <2>1, <2>2, ClaimsStep
<1>3. ASSUME ~UnderReview(c), sessions' = Append(sessions, session),
             loop' = [Free EXCEPT !.at = "marking", !.of = n + 1]
      PROVE  Both'
  <2>1. c \in Nat /\ sessions \in Seq(Session) /\ n \in Nat /\ DOMAIN sessions = 1..n
    BY <1>1, LenProperties DEF TypeOK
  <2>2. /\ session \in Session /\ session.claim = c /\ session.marked = FALSE
        /\ session.task = "none"
    BY <2>1 DEF Session, Tasks, Agents
  <2> HIDE DEF session
  <2>3. /\ sessions' \in Seq(Session) /\ DOMAIN sessions' = 1..(n + 1)
        /\ \A s \in 1..n : sessions'[s] = sessions[s]
        /\ sessions'[n + 1] = session
    BY <1>3, <2>1, <2>2, AppendProperties, LenProperties
  <2> HIDE DEF n, c
  <2>4. loop' \in Standing /\ loop'.at = "marking" /\ loop'.left = {} /\ loop'.of = n + 1
    <3>1. n + 1 \in Nat
      BY <2>1
    <3>. QED  BY <1>3, <3>1, FreeIsStanding DEF Standing
  <2>5. \A s \in 1..n : sessions[s].claim = c => ~sessions[s].marked
    BY <1>3, <2>1 DEF UnderReview, SessionsOf
  <2>6. TypeOK'
    <3>1. reviews \subseteq [claim : DOMAIN claims, session : DOMAIN sessions']
      <4>1. reviews \subseteq [claim : DOMAIN claims, session : DOMAIN sessions]
        BY <1>1 DEF TypeOK
      <4>2. DOMAIN sessions \subseteq DOMAIN sessions'
        BY <2>1, <2>3
      <4>. QED  BY <4>1, <4>2
    <3>2. \A s \in DOMAIN sessions' : sessions'[s].claim \in DOMAIN claims
      BY <1>1, <2>1, <2>2, <2>3 DEF TypeOK, c
    <3>3. loop'.of \in DOMAIN sessions' /\ restarted \in BOOLEAN
      BY <1>1, <2>1, <2>3, <2>4 DEF TypeOK
    <3>. QED  BY <1>1, <2>3, <2>4, <3>1, <3>2, <3>3 DEF TypeOK
  <2>7. AtMostOneStands' /\ SupersedingIsOnItsWay'
    BY <1>1, <2>4 DEF Both, ClaimInvariant, AtMostOneStands, SupersedingIsOnItsWay, Stands, SameFact
  <2>8. "none" \notin Going
    BY DEF Going
  <2>9. GoingIsMarked' /\ OneGoes'
    <3>1. \A s \in 1..(n + 1) : sessions'[s].task \in Going =>
            s \in 1..n /\ sessions'[s] = sessions[s]
      BY <2>1, <2>2, <2>3, <2>8
    <3>. QED  BY <2>1, <2>3, <3>1 DEF Both, ReviewInvariant, GoingIsMarked, OneGoes, ReviewedOnce
  <2>10. OpenedIsAlone'
    BY <2>1, <2>2, <2>3, <2>4, <2>5 DEF OpenedIsAlone
  <2>11. ReviewedOnce'
    BY <1>1, <2>9 DEF Both, ReviewInvariant, ReviewedOnce, OneGoes
  <2>. QED  BY <2>6, <2>7, <2>9, <2>10, <2>11 DEF Both, ClaimInvariant, ReviewInvariant
<1>. QED  BY <1>2, <1>3 DEF OpenSession

\* The session just opened goes, and is the only one of its claim that does.
LEMMA MarkSessionStep == ASSUME Both, MarkSession  PROVE Both'
<1> DEFINE s == loop.of
           session == [sessions[s] EXCEPT !.marked = TRUE, !.task = "building"]
<1>1. /\ TypeOK /\ loop.at = "marking" /\ s \in DOMAIN sessions
      /\ UNCHANGED <<claims, reviews, restarted>> /\ loop' = Free
      /\ sessions' = [sessions EXCEPT ![s] = session]
  BY DEF Both, ClaimInvariant, TypeOK, MarkSession
<1>2. /\ session \in Session /\ session.claim = sessions[s].claim
      /\ session.marked = TRUE /\ session.task = "building"
  <2>1. sessions[s] \in Session
    BY <1>1, SessionType
  <2>. QED  BY <2>1 DEF Session, Tasks
<1> HIDE DEF session
<1>3. /\ sessions' \in Seq(Session) /\ DOMAIN sessions' = DOMAIN sessions
      /\ sessions'[s] = session
      /\ \A t \in DOMAIN sessions : t # s => sessions'[t] = sessions[t]
      /\ \A t \in DOMAIN sessions : sessions'[t].claim = sessions[t].claim
  BY <1>1, <1>2, GivenAState
<1>4. /\ sessions[s].task = "none"
      /\ \A t \in DOMAIN sessions : sessions[t].claim = sessions[s].claim =>
           ~sessions[t].marked /\ sessions[t].task \notin Going
  BY <1>1 DEF Both, ReviewInvariant, OpenedIsAlone, GoingIsMarked
<1>5. loop' \in Standing /\ loop'.at = "free" /\ loop'.left = {}
  BY <1>1, FreeIsStanding
<1>6. TypeOK'
  <2>1. reviews \subseteq [claim : DOMAIN claims, session : DOMAIN sessions]
    BY <1>1 DEF TypeOK
  <2>2. \A t \in DOMAIN sessions' : sessions'[t].claim \in DOMAIN claims
    BY <1>1, <1>3 DEF TypeOK
  <2>3. claims \in Seq(Claim) /\ Len(claims) <= MaxClaims /\ restarted \in BOOLEAN
    BY <1>1 DEF TypeOK
  <2>. QED  BY <1>1, <1>3, <1>5, <2>1, <2>2, <2>3 DEF TypeOK
<1>7. AtMostOneStands' /\ SupersedingIsOnItsWay'
  BY <1>1, <1>5 DEF Both, ClaimInvariant, AtMostOneStands, SupersedingIsOnItsWay, Stands, SameFact
<1> HIDE DEF s
<1>8. GoingIsMarked'
  BY <1>2, <1>3 DEF Both, ReviewInvariant, GoingIsMarked
<1>9. OneGoes'
  BY <1>3, <1>4 DEF Both, ReviewInvariant, ReviewedOnce, OneGoes
<1>10. OpenedIsAlone'
  BY <1>5 DEF OpenedIsAlone
<1>11. ReviewedOnce'
  BY <1>1, <1>9 DEF Both, ReviewInvariant, ReviewedOnce, OneGoes
<1>. QED  BY <1>6, <1>7, <1>8, <1>10, <1>11 DEF Both, ClaimInvariant, ReviewInvariant

\* What becomes of a session's record at the end of its reviewers, of its review, or
\* of the process: it stays the claim's, and keeps its mark.
LEMMA BookedSession ==
  ASSUME NEW session \in Session
  PROVE  /\ Booked(session) \in Session /\ Failed(session) \in Session
         /\ Booked(session).claim = session.claim /\ Failed(session).claim = session.claim
         /\ Booked(session).marked = session.marked /\ Failed(session).marked = session.marked
         /\ \A task \in Tasks : /\ [session EXCEPT !.task = task] \in Session
                               /\ [session EXCEPT !.task = task].claim = session.claim
                               /\ [session EXCEPT !.task = task].marked = session.marked
<1>1. [r \in Reviewer |-> IF session.agents[r] \in {"answered", "failed"} THEN "booked"
                          ELSE session.agents[r]] \in [Reviewer -> Agents]
  BY DEF Session, Agents
<1>2. Booked(session) \in Session /\ Booked(session).claim = session.claim
      /\ Booked(session).marked = session.marked
  BY <1>1 DEF Booked, Session
<1>. QED  BY <1>2 DEF Failed, Session, Tasks

\* The agents of a review that is cut keep their type.
LEMMA StoppedType ==
  ASSUME NEW agents \in [Reviewer -> Agents]
  PROVE  Stopped(agents) \in [Reviewer -> Agents]
BY DEF Stopped, Agents

\* A review task asks its reviewers; its session stays the claim's only one.
LEMMA AskStep == ASSUME Both, NEW s \in DOMAIN sessions, Ask(s)  PROVE Both'
<1>1. TypeOK /\ UNCHANGED <<claims, reviews, restarted>> /\ loop = Free
      /\ sessions[s].task = "building" /\ "building" \in Going
  BY DEF Both, ClaimInvariant, Ask, Fail, Going
<1>2. sessions[s] \in Session /\ sessions[s].agents \in [Reviewer -> Agents]
  BY <1>1, SessionType
<1>3. CASE Fail(s)
  <2>1. sessions' = [sessions EXCEPT ![s] = Failed(sessions[s])] /\ Closing(s)
    BY <1>3 DEF Fail
  <2>2. Failed(sessions[s]) \in Session /\ Failed(sessions[s]).claim = sessions[s].claim
        /\ Failed(sessions[s]).marked = sessions[s].marked
    BY <1>2, BookedSession
  <2>. QED  BY <1>1, <2>1, <2>2, ReviewStep DEF Both
<1>4. ASSUME sessions' = [sessions EXCEPT ![s].task = "raising", ![s].agents = [r \in Reviewer |-> "asked"]],
             UNCHANGED loop
      PROVE  Both'
  <2> DEFINE asked == [r \in Reviewer |-> "asked"]
             session == [sessions[s] EXCEPT !.task = "raising", !.agents = asked]
  <2>1. asked \in [Reviewer -> Agents]
    BY DEF Agents
  <2> HIDE DEF asked
  <2>2. session \in Session /\ session.claim = sessions[s].claim /\ session.marked = sessions[s].marked
    BY <1>2, <2>1 DEF Session, Tasks
  <2>3. sessions' = [sessions EXCEPT ![s] = session]
    BY <1>4 DEF asked
  <2> HIDE DEF session
  <2>. QED  BY <1>1, <1>4, <2>2, <2>3, ReviewStep DEF Both
<1>. QED  BY <1>3, <1>4 DEF Ask

\* A reviewer's answer changes its own place in the session.
LEMMA AnswerStep ==
  ASSUME Both, NEW s \in DOMAIN sessions, NEW r \in Reviewer, Answer(s, r)  PROVE Both'
<1>1. /\ TypeOK /\ UNCHANGED <<claims, reviews, loop, restarted>> /\ loop = Free
      /\ sessions[s] \in Session /\ sessions[s].agents \in [Reviewer -> Agents]
  BY SessionType DEF Both, ClaimInvariant, Answer
<1>2. PICK ended \in {"answered", "failed"} : sessions' = [sessions EXCEPT ![s].agents[r] = ended]
  BY DEF Answer
<1> DEFINE agents == [sessions[s].agents EXCEPT ![r] = ended]
           session == [sessions[s] EXCEPT !.agents = agents]
<1>3. agents \in [Reviewer -> Agents]
  BY <1>1 DEF Agents
<1>4. sessions' = [sessions EXCEPT ![s] = session]
  BY <1>2
<1> HIDE DEF agents
<1>5. /\ session \in Session /\ session.claim = sessions[s].claim
      /\ session.marked = sessions[s].marked /\ session.task = sessions[s].task
  BY <1>1, <1>3 DEF Session
<1> HIDE DEF session
<1>. QED  BY <1>1, <1>4, <1>5, ReviewStep DEF Both

\* A delivery stores a review of a claim that had none, or fails.
LEMMA DeliverStep ==
  ASSUME Both, NEW s \in DOMAIN sessions, sessions[s].task \in Going,
         UNCHANGED <<claims, restarted>>, Deliver(s), Closing(s)
  PROVE  Both'
<1> DEFINE booked == Booked(sessions[s])
           failed == Failed(booked)
           ended == [booked EXCEPT !.task = "closing"]
<1>1. /\ booked \in Session /\ failed \in Session /\ ended \in Session
      /\ failed.claim = sessions[s].claim /\ ended.claim = sessions[s].claim
      /\ failed.marked = sessions[s].marked /\ ended.marked = sessions[s].marked
  <2>1. sessions[s] \in Session
    BY SessionType DEF Both, ClaimInvariant
  <2>2. booked \in Session /\ booked.claim = sessions[s].claim /\ booked.marked = sessions[s].marked
    BY <2>1, BookedSession
  <2> HIDE DEF booked
  <2>3. "closing" \in Tasks
    BY DEF Tasks
  <2>. QED  BY <2>2, <2>3, BookedSession
<1>2. ASSUME ~Reviewed(sessions[s].claim),
             reviews' = reviews \cup {[claim |-> sessions[s].claim, session |-> s]},
             sessions' = [sessions EXCEPT ![s] = ended]
      PROVE  Both'
  <2> HIDE DEF ended
  <2>. QED  BY <1>1, <1>2, ReviewStep DEF Both
<1>3. ASSUME sessions' = [sessions EXCEPT ![s] = failed], UNCHANGED reviews
      PROVE  Both'
  <2> HIDE DEF failed
  <2>. QED  BY <1>1, <1>3, ReviewStep DEF Both
<1>. QED  BY <1>2, <1>3 DEF Deliver

\* When every reviewer has ended the review fails, is stored, or goes to its deduper.
LEMMA RaiseStep == ASSUME Both, NEW s \in DOMAIN sessions, Raise(s)  PROVE Both'
<1> DEFINE booked == Booked(sessions[s])
           failed == Failed(booked)
           deduping == [booked EXCEPT !.task = "deduping"]
<1>1. /\ TypeOK /\ UNCHANGED <<claims, restarted>> /\ loop = Free
      /\ sessions[s].task = "raising" /\ "raising" \in Going
  BY DEF Both, ClaimInvariant, Raise, Going
<1>2. /\ booked \in Session /\ failed \in Session /\ deduping \in Session
      /\ failed.claim = sessions[s].claim /\ deduping.claim = sessions[s].claim
      /\ failed.marked = sessions[s].marked /\ deduping.marked = sessions[s].marked
  <2>1. sessions[s] \in Session
    BY <1>1, SessionType
  <2>2. booked \in Session /\ booked.claim = sessions[s].claim /\ booked.marked = sessions[s].marked
    BY <2>1, BookedSession
  <2> HIDE DEF booked
  <2>3. "deduping" \in Tasks
    BY DEF Tasks
  <2>. QED  BY <2>2, <2>3, BookedSession
<1>3. ASSUME sessions' = [sessions EXCEPT ![s] = failed], Closing(s), UNCHANGED reviews
      PROVE  Both'
  <2> HIDE DEF failed
  <2>. QED  BY <1>1, <1>2, <1>3, ReviewStep DEF Both
<1>4. ASSUME Deliver(s), Closing(s)  PROVE Both'
  BY <1>1, <1>4, DeliverStep
<1>5. ASSUME sessions' = [sessions EXCEPT ![s] = deduping], UNCHANGED <<reviews, loop>>
      PROVE  Both'
  <2> HIDE DEF deduping
  <2>. QED  BY <1>1, <1>2, <1>5, ReviewStep DEF Both
<1>. QED  BY <1>3, <1>4, <1>5 DEF Raise

\* The deduper ends: the review is stored unless the claim has one, or it fails.
LEMMA DedupeStep == ASSUME Both, NEW s \in DOMAIN sessions, Dedupe(s)  PROVE Both'
<1>1. /\ sessions[s].task \in Going /\ UNCHANGED <<claims, restarted>>
      /\ Deliver(s) /\ Closing(s)
  BY DEF Dedupe, Going
<1>. QED  BY <1>1, DeliverStep

\* The end of a review clears its mark and ends its task in one save.
LEMMA CloseStep == ASSUME Both, Close  PROVE Both'
<1> DEFINE s == loop.of
           session == [sessions[s] EXCEPT !.marked = FALSE, !.task = "over"]
<1>1. /\ TypeOK /\ s \in DOMAIN sessions
      /\ UNCHANGED <<claims, reviews, restarted>> /\ loop' = Free
      /\ sessions' = [sessions EXCEPT ![s] = session]
  BY DEF Both, ClaimInvariant, TypeOK, Close
<1>2. session \in Session /\ session.claim = sessions[s].claim /\ session.task = "over"
  <2>1. sessions[s] \in Session
    BY <1>1, SessionType
  <2>. QED  BY <2>1 DEF Session, Tasks
<1>3. "over" \notin Going
  BY DEF Going
<1> HIDE DEF s, session
<1>. QED  BY <1>1, <1>2, <1>3, ReviewStep DEF Both

\* The process stops, asked to or not: no task goes on, whatever was being done.
LEMMA StopStep ==
  ASSUME Both, UNCHANGED <<claims, reviews>>, restarted' \in BOOLEAN, loop' = Free,
         \/ sessions' = [s \in DOMAIN sessions |->
                           IF sessions[s].task \notin Going THEN sessions[s]
                           ELSE [sessions[s] EXCEPT !.failed = TRUE, !.marked = FALSE, !.task = "cut",
                                                    !.agents = Stopped(@)]]
         \/ sessions' = [s \in DOMAIN sessions |->
                           IF sessions[s].task \notin Going \cup {"none"} THEN sessions[s]
                           ELSE [sessions[s] EXCEPT !.task = "dead", !.agents = Stopped(@)]]
  PROVE  Both'
<1> DEFINE n == Len(sessions)
           cut(s) == [sessions[s] EXCEPT !.failed = TRUE, !.marked = FALSE, !.task = "cut",
                                         !.agents = Stopped(@)]
           dead(s) == [sessions[s] EXCEPT !.task = "dead", !.agents = Stopped(@)]
<1>1. TypeOK
  BY DEF Both, ClaimInvariant
<1>2. n \in Nat /\ DOMAIN sessions = 1..n
  BY <1>1, LenProperties DEF TypeOK
<1>3. ASSUME NEW s \in DOMAIN sessions
      PROVE  /\ sessions[s] \in Session
             /\ cut(s) \in Session /\ cut(s).claim = sessions[s].claim /\ cut(s).task = "cut"
             /\ dead(s) \in Session /\ dead(s).claim = sessions[s].claim /\ dead(s).task = "dead"
  <2>1. sessions[s] \in Session
    BY <1>1, SessionType
  <2>2. Stopped(sessions[s].agents) \in [Reviewer -> Agents]
    BY <1>1, SessionType, StoppedType
  <2>. QED  BY <2>1, <2>2 DEF Session, Tasks
<1>4. /\ DOMAIN sessions' = DOMAIN sessions
      /\ \A s \in DOMAIN sessions : sessions'[s] \in {sessions[s], cut(s), dead(s)}
      /\ sessions' = [s \in DOMAIN sessions |-> sessions'[s]]
  OBVIOUS
<1>5. "cut" \notin Going /\ "dead" \notin Going
  BY DEF Going
<1> HIDE DEF cut, dead
<1>6. \A s \in DOMAIN sessions :
        /\ sessions'[s] \in Session /\ sessions'[s].claim = sessions[s].claim
        /\ sessions'[s].task \in Going =>
             sessions[s].task \in Going /\ sessions'[s].marked = sessions[s].marked
  BY <1>3, <1>4, <1>5
<1>7. sessions' \in Seq(Session)
  <2> HIDE DEF n
  <2> DEFINE after == sessions'
  <2>1. after = [s \in 1..n |-> after[s]] /\ \A s \in 1..n : after[s] \in Session
    BY <1>2, <1>4, <1>6
  <2> HIDE DEF after
  <2>2. after \in [1..n -> Session]
    BY <2>1
  <2>3. after \in Seq(Session)
    BY <1>2, <2>2, FunctionIsASeq
  <2>. QED  BY <2>3 DEF after
<1>. QED  BY <1>4, <1>6, <1>7, ReviewsStep DEF Both

\* A shutdown cuts every review under way, clears its mark and stores none.
LEMMA ShutdownStep == ASSUME Both, Shutdown  PROVE Both'
<1>1. restarted' \in BOOLEAN /\ loop' = Free /\ UNCHANGED <<claims, reviews>>
  BY DEF Both, ClaimInvariant, TypeOK, Shutdown
<1>. QED  BY <1>1, StopStep DEF Shutdown

\* A crash ends the tasks and leaves the stored marks as they are.
LEMMA CrashStep == ASSUME Both, Crash  PROVE Both'
<1>1. restarted' \in BOOLEAN /\ loop' = Free /\ UNCHANGED <<claims, reviews>>
  BY DEF Crash
<1>. QED  BY <1>1, StopStep DEF Crash

-----------------------------------------------------------------------------
(* The invariants.                                                         *)

\* A step that changes nothing keeps both invariants.
LEMMA StutterHolds == ASSUME Both, UNCHANGED vars  PROVE Both'
<1>1. /\ claims' = claims /\ reviews' = reviews /\ sessions' = sessions
      /\ loop' = loop /\ restarted' = restarted
  BY DEF vars
<1>2. TypeOK'
  BY <1>1 DEF Both, ClaimInvariant, TypeOK
<1>3. AtMostOneStands' /\ SupersedingIsOnItsWay'
  BY <1>1 DEF Both, ClaimInvariant, AtMostOneStands, SupersedingIsOnItsWay, Stands, SameFact
<1>4. GoingIsMarked' /\ OpenedIsAlone' /\ ReviewedOnce'
  BY <1>1 DEF Both, ReviewInvariant, GoingIsMarked, OpenedIsAlone, ReviewedOnce
<1>. QED  BY <1>2, <1>3, <1>4 DEF Both, ClaimInvariant, ReviewInvariant

\* Every action keeps both invariants.
LEMMA StepHolds == Both /\ [Next]_vars => Both'
<1>. SUFFICES ASSUME Both, [Next]_vars  PROVE Both'
  OBVIOUS
<1>1. CASE Ruling
  BY <1>1, SubmitStep, SkipStep, SupersedeStep, ApproveStep, DeclineStep, AskForReviewStep,
     WriteClaimStep DEF Ruling
<1>2. CASE Reviewing
  <2>1. ASSUME NEW s \in DOMAIN sessions, GoesOn(s)  PROVE Both'
    BY <2>1, AskStep, RaiseStep, DedupeStep, AnswerStep DEF GoesOn
  <2>. QED  BY <1>2, <2>1, OpenSessionStep, MarkSessionStep, CloseStep DEF Reviewing
<1>3. CASE Shutdown
  BY <1>3, ShutdownStep
<1>4. CASE Crash
  BY <1>4, CrashStep
<1>5. CASE UNCHANGED vars
  BY <1>5, StutterHolds
<1>. QED  BY <1>1, <1>2, <1>3, <1>4, <1>5 DEF Next

\* Both invariants hold of every behaviour.
LEMMA BothHold == Spec => []Both
<1>1. Init => Both
  BY InitHolds DEF Both
<1>. QED  BY <1>1, StepHolds, PTL DEF Spec

\* Every claim, session, review and handler keeps its type, and each reference names
\* what it should.
THEOREM RecordsNameEachOther == Spec => []TypeOK
<1>1. Both => TypeOK
  BY DEF Both, ClaimInvariant
<1>. QED  BY <1>1, BothHold, PTL

\* One claim of a fact stands, however proposals, rewrites, approvals of superseded
\* claims and deaths between two saves follow one another.
THEOREM OneClaimStands == Spec => []AtMostOneStands
<1>1. Both => AtMostOneStands
  BY DEF Both, ClaimInvariant
<1>. QED  BY <1>1, BothHold, PTL

\* Two reviews of a claim never run at a time and none is stored beside another,
\* with any number of claims, sessions and reviewers.
THEOREM ClaimsAreReviewedOnce == Spec => []ReviewedOnce
<1>1. Both => ReviewedOnce
  BY DEF Both, ReviewInvariant
<1>. QED  BY <1>1, BothHold, PTL

-----------------------------------------------------------------------------
(***************************************************************************)
(* What a claim's page says of its review, and what becomes of the         *)
(* reviewers, rest on how a session's task, mark, failure and agents move  *)
(* together, and on the newest session of a claim being the one that may   *)
(* still go.                                                               *)
(***************************************************************************)

\* The agents a task has: none before it asks them, none left once they are gathered.
AgentsFit ==
  \A s \in DOMAIN sessions : \A r \in Reviewer :
    /\ sessions[s].task \in {"none", "building"} => sessions[s].agents[r] = "idle"
    /\ sessions[s].task = "raising" => sessions[s].agents[r] \in {"asked", "answered", "failed"}
    /\ sessions[s].task \in {"deduping", "closing", "over"} => sessions[s].agents[r] \in {"idle", "booked"}

\* No claim on a table has a session.
NoneIsTabular == \A s \in DOMAIN sessions : claims[sessions[s].claim].shape \notin Tabular

\* The loop stands at the one task that closes, and at the one session not marked yet.
LoopIsThere ==
  /\ loop.at = "closing" => sessions[loop.of].task = "closing"
  /\ \A s \in DOMAIN sessions :
       /\ sessions[s].task = "closing" => loop.at = "closing" /\ loop.of = s
       /\ sessions[s].task = "none" => loop.at = "marking" /\ loop.of = s

\* Once a claim has its review, none of its sessions goes on but to close.
ReviewedIsOver ==
  \A s \in DOMAIN sessions :
    Reviewed(sessions[s].claim) => sessions[s].task \notin {"none", "building", "raising", "deduping"}

\* The session that goes, or is to, is the newest of its claim.
NewestGoes ==
  \A s, t \in DOMAIN sessions :
    /\ sessions[s].task \in Going \cup {"none"}
    /\ sessions[s].claim = sessions[t].claim
    => t <= s

\* While the process lives a mark says that the review goes.
MarksAreTrue ==
  ~restarted => \A s \in DOMAIN sessions :
                  /\ sessions[s].marked => sessions[s].task \in Going
                  /\ sessions[s].task # "dead"

\* A review that is over left itself or the reason.
EndsAreTold ==
  \A s \in DOMAIN sessions :
    sessions[s].task \in {"closing", "over", "cut"} =>
      sessions[s].failed \/ Reviewed(sessions[s].claim)

Told ==
  /\ AgentsFit /\ NoneIsTabular /\ LoopIsThere /\ ReviewedIsOver
  /\ NewestGoes /\ MarksAreTrue /\ EndsAreTold

\* Before anything is submitted there is no session to tell of.
LEMMA InitIsTold == Init => Told
<1>. SUFFICES ASSUME Init  PROVE Told
  OBVIOUS
<1>1. DOMAIN sessions = {} /\ loop.at = "free"
  BY FreeIsStanding DEF Init
<1>. QED  BY <1>1 DEF Told, AgentsFit, NoneIsTabular, LoopIsThere, ReviewedIsOver, NewestGoes,
     MarksAreTrue, EndsAreTold

\* What is decided of the claims tells nothing new of their reviews.
LEMMA RulingKeepsTold ==
  ASSUME TypeOK, Told, UNCHANGED <<reviews, sessions, restarted>>,
         DOMAIN claims \subseteq DOMAIN claims',
         \A c \in DOMAIN claims : claims'[c].shape = claims[c].shape,
         loop.at \notin {"marking", "closing"}, loop'.at \notin {"marking", "closing"}
  PROVE  Told'
<1>1. \A s \in DOMAIN sessions : sessions[s].claim \in DOMAIN claims
  BY DEF TypeOK
<1>2. NoneIsTabular'
  BY <1>1 DEF Told, NoneIsTabular
<1>3. LoopIsThere'
  BY DEF Told, LoopIsThere
<1>4. ReviewedIsOver' /\ EndsAreTold'
  BY DEF Told, ReviewedIsOver, EndsAreTold, Reviewed
<1>. QED  BY <1>2, <1>3, <1>4 DEF Told, AgentsFit, NewestGoes, MarksAreTrue

\* One session that goes, or is to, goes on or ends, and says so.
LEMMA OneGoesOn ==
  ASSUME TypeOK, Told, UNCHANGED <<claims, restarted>>,
         NEW s \in DOMAIN sessions, NEW session \in Session,
         sessions' = [sessions EXCEPT ![s] = session],
         session.claim = sessions[s].claim,
         sessions[s].task \in Going \cup {"none"},
         loop = Free \/ loop.of = s,
         IF session.task = "closing" THEN Closing(s) ELSE loop' = Free,
         session.task \in Going \cup {"over"},
         session.marked => session.task \in Going,
         session.task \in {"building", "raising", "deduping"} =>
           sessions[s].task # "closing" /\ reviews' = reviews,
         session.task \in {"closing", "over"} =>
           session.failed \/ \E review \in reviews' : review.claim = session.claim,
         \A r \in Reviewer :
           /\ session.task = "building" => session.agents[r] = "idle"
           /\ session.task = "raising" => session.agents[r] \in {"asked", "answered", "failed"}
           /\ session.task \in {"deduping", "closing", "over"} => session.agents[r] \in {"idle", "booked"},
         reviews' = reviews \/ reviews' = reviews \cup {[claim |-> sessions[s].claim, session |-> s]}
  PROVE  Told'
<1>1. /\ DOMAIN sessions' = DOMAIN sessions /\ sessions'[s] = session
      /\ \A t \in DOMAIN sessions : t # s => sessions'[t] = sessions[t]
      /\ \A t \in DOMAIN sessions : sessions'[t].claim = sessions[t].claim
  BY GivenAState
<1>2. DOMAIN sessions \subseteq Nat
  BY SessionType
<1>3. /\ session.task # "none" /\ session.task \notin {"cut", "dead"}
      /\ sessions[s].task \in {"none", "building", "raising", "deduping", "closing"}
  BY DEF Going
<1>4. /\ session.task = "closing" => loop'.at = "closing" /\ loop'.of = s
      /\ session.task # "closing" => loop'.at = "free"
  BY FreeIsStanding DEF Closing, Free
<1>5. \A t \in DOMAIN sessions : t # s => sessions[t].task \notin {"none", "closing"}
  BY FreeIsStanding DEF Told, LoopIsThere
<1>6. AgentsFit'
  <2>1. ASSUME NEW t \in DOMAIN sessions, NEW r \in Reviewer
        PROVE  /\ sessions'[t].task \in {"none", "building"} => sessions'[t].agents[r] = "idle"
               /\ sessions'[t].task = "raising" => sessions'[t].agents[r] \in {"asked", "answered", "failed"}
               /\ sessions'[t].task \in {"deduping", "closing", "over"} =>
                    sessions'[t].agents[r] \in {"idle", "booked"}
    <3>1. CASE t = s
      BY <1>1, <1>3, <3>1
    <3>2. CASE t # s
      BY <1>1, <3>2 DEF Told, AgentsFit
    <3>. QED  BY <3>1, <3>2
  <2>. QED  BY <1>1, <2>1 DEF AgentsFit
<1>7. NoneIsTabular'
  BY <1>1 DEF Told, NoneIsTabular
<1>8. LoopIsThere'
  BY <1>1, <1>3, <1>4, <1>5 DEF LoopIsThere
<1>9. NewestGoes'
  <2>1. \A t, u \in DOMAIN sessions :
          /\ sessions[t].task \in Going \cup {"none"} /\ sessions[t].claim = sessions[u].claim
          => u <= t
    BY DEF Told, NewestGoes
  <2>2. \A t \in DOMAIN sessions :
          sessions'[t].task \in Going \cup {"none"} => sessions[t].task \in Going \cup {"none"}
    BY <1>1
  <2>. QED  BY <1>1, <2>1, <2>2 DEF NewestGoes
<1>10. ReviewedIsOver'
  <2>1. ASSUME NEW t \in DOMAIN sessions, Reviewed(sessions[t].claim)'
        PROVE  sessions'[t].task \notin {"none", "building", "raising", "deduping"}
    <3>1. CASE reviews' = reviews
      <4>1. sessions[t].task \notin {"none", "building", "raising", "deduping"}
        BY <1>1, <2>1, <3>1 DEF Told, ReviewedIsOver, Reviewed
      <4>. QED  BY <1>1, <1>3, <4>1
    <3>2. CASE reviews' # reviews
      <4>1. sessions'[s].task \in {"closing", "over"}
        BY <1>1, <3>2 DEF Going
      <4>2. CASE t = s
        BY <4>1, <4>2
      <4>3. CASE t # s /\ sessions[t].claim = sessions[s].claim
        <5>1. sessions[t].task \notin Going \cup {"none"}
          BY <1>2, <4>3 DEF Told, NewestGoes
        <5>. QED  BY <1>1, <4>3, <5>1 DEF Going
      <4>4. CASE t # s /\ sessions[t].claim # sessions[s].claim
        <5>1. Reviewed(sessions[t].claim)
          BY <1>1, <2>1, <4>4 DEF Reviewed
        <5>. QED  BY <1>1, <4>4, <5>1 DEF Told, ReviewedIsOver
      <4>. QED  BY <4>2, <4>3, <4>4
    <3>. QED  BY <3>1, <3>2
  <2>. QED  BY <1>1, <2>1 DEF ReviewedIsOver
<1>11. MarksAreTrue'
  BY <1>1, <1>3 DEF Told, MarksAreTrue
<1>12. EndsAreTold'
  <2>1. \A c : Reviewed(c) => Reviewed(c)'
    BY DEF Reviewed
  <2>2. \A t \in DOMAIN sessions : t # s /\ sessions'[t].task \in {"closing", "over", "cut"} =>
          sessions'[t].failed \/ Reviewed(sessions[t].claim)'
    BY <1>1, <2>1 DEF Told, EndsAreTold
  <2>3. sessions'[s].task \in {"closing", "over", "cut"} =>
          sessions'[s].failed \/ Reviewed(sessions[s].claim)'
    BY <1>1, <1>3 DEF Reviewed
  <2>. QED  BY <1>1, <2>2, <2>3 DEF EndsAreTold
<1>. QED  BY <1>6, <1>7, <1>8, <1>9, <1>10, <1>11, <1>12 DEF Told

\* Submitting, superseding, writing, approving, declining, skipping and asking for a
\* review: every claim keeps its shape and the loop is at none of the reviews.
LEMMA RulingIsTold == ASSUME Both, Told, Ruling  PROVE Told'
<1>1. TypeOK /\ claims \in Seq(Claim) /\ DOMAIN claims = 1..Len(claims) /\ Len(claims) \in Nat
  BY LenProperties DEF Both, ClaimInvariant, TypeOK
<1>2. Free.at = "free"
  BY FreeIsStanding
<1>3. ASSUME NEW p \in Proposal, Submit(p)  PROVE Told'
  <2>1. loop'.at = "superseding" /\ loop.at = "free" /\ UNCHANGED <<claims, reviews, sessions, restarted>>
    BY <1>2, <1>3 DEF Submit, Free
  <2>. QED  BY <1>1, <2>1, RulingKeepsTold
<1>4. ASSUME NEW p \in Proposal, Skip(p)  PROVE Told'
  <2>1. /\ claims' = Append(claims, Skipped(p)) /\ loop.at = "free"
        /\ UNCHANGED <<reviews, sessions, loop, restarted>>
    BY <1>2, <1>4 DEF Skip
  <2>2. Skipped(p) \in Claim
    BY ProposalsAreClaims
  <2>3. DOMAIN claims \subseteq DOMAIN claims' /\ \A c \in DOMAIN claims : claims'[c] = claims[c]
    <3>1. Len(claims') = Len(claims) + 1 /\ claims' \in Seq(Claim)
          /\ \A c \in 1..Len(claims) : claims'[c] = claims[c]
      BY <1>1, <2>1, <2>2, AppendProperties
    <3>2. DOMAIN claims' = 1..(Len(claims) + 1)
      BY <3>1, LenProperties
    <3>. QED  BY <1>1, <3>1, <3>2
  <2>. QED  BY <1>1, <2>1, <2>3, RulingKeepsTold
<1>5. ASSUME NEW c \in DOMAIN claims, NEW status \in Statuses,
             claims' = [claims EXCEPT ![c].status = status],
             UNCHANGED <<reviews, sessions, restarted>>,
             loop.at \in {"free", "superseding"}, loop'.at \in {"free", "superseding"}
      PROVE  Told'
  <2>1. DOMAIN claims' = DOMAIN claims /\ \A d \in DOMAIN claims : claims'[d].shape = claims[d].shape
    BY <1>1, <1>5, GivenAStatus
  <2>. QED  BY <1>1, <1>5, <2>1, RulingKeepsTold
<1>6. ASSUME NEW c \in DOMAIN claims, Supersede(c)  PROVE Told'
  <2>1. loop.at = "superseding" /\ loop'.at = "superseding"
    BY <1>1, <1>6 DEF Supersede, TypeOK, Standing
  <2>. QED  BY <1>5, <1>6, <2>1 DEF Supersede, Statuses
<1>7. ASSUME NEW c \in DOMAIN claims, Approve(c)  PROVE Told'
  BY <1>2, <1>5, <1>7 DEF Approve, Statuses
<1>8. ASSUME NEW c \in DOMAIN claims, Decline(c)  PROVE Told'
  BY <1>2, <1>5, <1>8 DEF Decline, Statuses
<1>9. ASSUME NEW c \in DOMAIN claims, AskForReview(c)  PROVE Told'
  <2>1. loop'.at = "opening" /\ loop.at = "free" /\ UNCHANGED <<claims, reviews, sessions, restarted>>
    BY <1>2, <1>9 DEF AskForReview, Free
  <2>. QED  BY <1>1, <2>1, RulingKeepsTold
<1>10. CASE WriteClaim
  <2>1. /\ loop.at = "superseding" /\ loop'.at = "opening" /\ claims' = claims \o loop.draft
        /\ UNCHANGED <<reviews, sessions, restarted>>
    BY <1>10 DEF WriteClaim, Free
  <2>2. loop.draft \in Seq(Claim) /\ Len(loop.draft) \in Nat
    BY <1>1, LenProperties DEF TypeOK, Standing
  <2>3. /\ claims' \in Seq(Claim) /\ Len(claims') = Len(claims) + Len(loop.draft)
        /\ \A c \in 1..(Len(claims) + Len(loop.draft)) : claims'[c] =
             IF c <= Len(claims) THEN claims[c] ELSE loop.draft[c - Len(claims)]
    BY <1>1, <2>1, <2>2, ConcatProperties
  <2>4. DOMAIN claims' = 1..Len(claims')
    BY <2>3, LenProperties
  <2>5. DOMAIN claims \subseteq DOMAIN claims' /\ \A c \in DOMAIN claims : claims'[c] = claims[c]
    BY <1>1, <2>2, <2>3, <2>4
  <2>. QED  BY <1>1, <2>1, <2>5, RulingKeepsTold
<1>. QED  BY <1>3, <1>4, <1>6, <1>7, <1>8, <1>9, <1>10 DEF Ruling

\* A session is opened of a claim on cells that has no review and none under way, and it
\* is the newest of its claim.
LEMMA OpenSessionIsTold == ASSUME Both, Told, OpenSession  PROVE Told'
<1> DEFINE c == loop.of
           n == Len(sessions)
           session == [claim |-> c, marked |-> FALSE, failed |-> FALSE, task |-> "none",
                       agents |-> [r \in Reviewer |-> "idle"]]
<1>1. /\ TypeOK /\ loop.at = "opening" /\ c \in DOMAIN claims
      /\ UNCHANGED <<claims, reviews, restarted>>
  BY DEF Both, ClaimInvariant, TypeOK, OpenSession
<1>2. ASSUME loop' = Free, UNCHANGED sessions  PROVE Told'
  <2>1. loop'.at = "free"
    BY <1>2, FreeIsStanding
  <2>. QED  BY <1>1, <1>2, <2>1, RulingKeepsTold
<1>3. ASSUME ~Reviewed(c), ~UnderReview(c), claims[c].shape \notin Tabular,
             sessions' = Append(sessions, session),
             loop' = [Free EXCEPT !.at = "marking", !.of = n + 1]
      PROVE  Told'
  <2>1. c \in Nat /\ sessions \in Seq(Session) /\ n \in Nat /\ DOMAIN sessions = 1..n
    BY <1>1, LenProperties DEF TypeOK
  <2>2. /\ session \in Session /\ session.claim = c /\ session.marked = FALSE
        /\ session.task = "none" /\ session.failed = FALSE
        /\ \A r \in Reviewer : session.agents[r] = "idle"
    BY <2>1 DEF Session, Tasks, Agents
  <2> HIDE DEF session
  <2>3. /\ sessions' \in Seq(Session) /\ DOMAIN sessions' = 1..(n + 1)
        /\ \A s \in 1..n : sessions'[s] = sessions[s]
        /\ sessions'[n + 1] = session
    BY <1>3, <2>1, <2>2, AppendProperties, LenProperties
  <2>4. loop'.at = "marking" /\ loop'.of = n + 1
    BY <1>3 DEF Free
  <2>5. \A s \in 1..n : sessions[s].task \notin {"none", "closing"}
    BY <1>1, <2>1 DEF Told, LoopIsThere
  <2>6. \A s \in 1..n : sessions[s].claim = c => sessions[s].task \notin Going
    BY <1>3, <2>1 DEF UnderReview, SessionsOf, Both, ReviewInvariant, GoingIsMarked
  <2> HIDE DEF n, c
  <2>7. \A s \in 1..(n + 1) : s \in 1..n \/ s = n + 1
    BY <2>1
  <2>8. AgentsFit'
    <3>1. ASSUME NEW s \in 1..(n + 1), NEW r \in Reviewer
          PROVE  /\ sessions'[s].task \in {"none", "building"} => sessions'[s].agents[r] = "idle"
                 /\ sessions'[s].task = "raising" => sessions'[s].agents[r] \in {"asked", "answered", "failed"}
                 /\ sessions'[s].task \in {"deduping", "closing", "over"} =>
                      sessions'[s].agents[r] \in {"idle", "booked"}
      <4>1. CASE s \in 1..n
        BY <2>1, <2>3, <4>1 DEF Told, AgentsFit
      <4>2. CASE s = n + 1
        BY <2>2, <2>3, <4>2
      <4>. QED  BY <2>7, <4>1, <4>2
    <3>. QED  BY <2>3, <3>1 DEF AgentsFit
  <2>9. NoneIsTabular'
    BY <1>1, <1>3, <2>1, <2>2, <2>3, <2>7 DEF Told, NoneIsTabular
  <2>10. LoopIsThere'
    BY <2>1, <2>2, <2>3, <2>4, <2>5, <2>7 DEF LoopIsThere
  <2>11. ReviewedIsOver'
    <3>1. \A s \in 1..n : Reviewed(sessions[s].claim) =>
            sessions[s].task \notin {"none", "building", "raising", "deduping"}
      BY <2>1 DEF Told, ReviewedIsOver
    <3>2. ASSUME NEW s \in 1..(n + 1), Reviewed(sessions'[s].claim)
          PROVE  sessions'[s].task \notin {"none", "building", "raising", "deduping"}
      <4>1. s # n + 1
        BY <1>3, <2>2, <2>3, <3>2
      <4>. QED  BY <2>3, <2>7, <3>1, <3>2, <4>1
    <3>. QED  BY <1>1, <2>3, <3>2 DEF ReviewedIsOver, Reviewed
  <2>12. NewestGoes'
    <3>1. \A s, t \in 1..n :
            sessions[s].task \in Going \cup {"none"} /\ sessions[s].claim = sessions[t].claim => t <= s
      BY <2>1 DEF Told, NewestGoes
    <3>2. ASSUME NEW s \in 1..(n + 1), NEW t \in 1..(n + 1),
                 sessions'[s].task \in Going \cup {"none"}, sessions'[s].claim = sessions'[t].claim
          PROVE  t <= s
      <4>1. CASE s \in 1..n
        <5>1. sessions[s].claim # c
          BY <2>3, <2>5, <2>6, <3>2, <4>1
        <5>2. t \in 1..n
          BY <2>2, <2>3, <2>7, <3>2, <4>1, <5>1
        <5>. QED  BY <2>3, <3>1, <3>2, <4>1, <5>2
      <4>2. CASE s = n + 1
        BY <2>1, <4>2
      <4>. QED  BY <2>7, <4>1, <4>2
    <3>. QED  BY <2>3, <3>2 DEF NewestGoes
  <2>13. MarksAreTrue'
    BY <1>1, <2>1, <2>2, <2>3, <2>7 DEF Told, MarksAreTrue
  <2>14. EndsAreTold'
    BY <1>1, <2>1, <2>2, <2>3, <2>7 DEF Told, EndsAreTold, Reviewed
  <2>. QED  BY <2>8, <2>9, <2>10, <2>11, <2>12, <2>13, <2>14 DEF Told
<1>. QED  BY <1>2, <1>3 DEF OpenSession

\* Whether a session's record is that of a review which goes on to a task, or ends.
LEMMA NewlyTasked ==
  ASSUME NEW session \in Session, NEW task \in Tasks
  PROVE  LET after == [session EXCEPT !.task = task] IN
         /\ after \in Session /\ after.claim = session.claim /\ after.marked = session.marked
         /\ after.failed = session.failed /\ after.agents = session.agents /\ after.task = task
BY DEF Session, Tasks

\* A review that fails says so, and keeps its agents.
LEMMA FailedSession ==
  ASSUME NEW session \in Session
  PROVE  /\ Failed(session) \in Session /\ Failed(session).claim = session.claim
         /\ Failed(session).failed = TRUE /\ Failed(session).task = "closing"
         /\ Failed(session).agents = session.agents
BY DEF Failed, Session, Tasks

\* Once its agents are gathered and booked, none of a session's is under way.
LEMMA AllBooked ==
  ASSUME NEW session \in Session,
         \A r \in Reviewer : session.agents[r] \in {"answered", "failed", "idle", "booked"}
  PROVE  /\ Booked(session) \in Session
         /\ Booked(session).claim = session.claim /\ Booked(session).task = session.task
         /\ Booked(session).failed = session.failed
         /\ \A r \in Reviewer : Booked(session).agents[r] \in {"idle", "booked"}
<1>1. Booked(session) \in Session /\ Booked(session).claim = session.claim
  BY BookedSession
<1>2. /\ Booked(session).task = session.task /\ Booked(session).failed = session.failed
      /\ Booked(session).agents =
           [r \in Reviewer |-> IF session.agents[r] \in {"answered", "failed"} THEN "booked"
                               ELSE session.agents[r]]
  BY DEF Booked, Session
<1>. QED  BY <1>1, <1>2

\* The opened session is marked, and goes.
LEMMA MarkSessionIsTold == ASSUME Both, Told, MarkSession  PROVE Told'
<1> DEFINE s == loop.of
           session == [sessions[s] EXCEPT !.marked = TRUE, !.task = "building"]
<1>1. /\ TypeOK /\ loop.at = "marking" /\ s \in DOMAIN sessions
      /\ UNCHANGED <<claims, reviews, restarted>> /\ loop' = Free
      /\ sessions' = [sessions EXCEPT ![s] = session]
      /\ sessions[s].task = "none"
  BY DEF Both, ClaimInvariant, ReviewInvariant, OpenedIsAlone, TypeOK, MarkSession
<1>2. sessions[s] \in Session /\ \A r \in Reviewer : sessions[s].agents[r] = "idle"
  BY <1>1, SessionType DEF Told, AgentsFit
<1>3. /\ session \in Session /\ session.claim = sessions[s].claim /\ session.task = "building"
      /\ session.agents = sessions[s].agents
  BY <1>2 DEF Session, Tasks
<1>4. loop.of = s /\ "building" \in Going
  BY DEF Going
<1> HIDE DEF s, session
<1>. QED  BY <1>1, <1>2, <1>3, <1>4, OneGoesOn

\* A review fails where it stands, its agents at rest.
LEMMA FailureIsTold ==
  ASSUME TypeOK, Told, UNCHANGED <<claims, reviews, restarted>>, loop = Free,
         NEW s \in DOMAIN sessions, sessions[s].task \in Going,
         NEW session \in Session, session.claim = sessions[s].claim,
         \A r \in Reviewer : session.agents[r] \in {"idle", "booked"},
         sessions' = [sessions EXCEPT ![s] = Failed(session)], Closing(s)
  PROVE  Told'
<1> DEFINE failed == Failed(session)
<1>1. /\ failed \in Session /\ failed.claim = session.claim /\ failed.failed = TRUE
      /\ failed.task = "closing" /\ failed.agents = session.agents
  BY FailedSession
<1>2. "closing" \in Going /\ sessions' = [sessions EXCEPT ![s] = failed]
  BY DEF Going
<1> HIDE DEF failed
<1>3. /\ IF failed.task = "closing" THEN Closing(s) ELSE loop' = Free
      /\ failed.task \in Going \cup {"over"} /\ failed.marked => failed.task \in Going
      /\ failed.task \notin {"building", "raising", "deduping"}
      /\ \A r \in Reviewer : failed.agents[r] \in {"idle", "booked"}
  BY <1>1, <1>2
<1>. QED  BY <1>1, <1>2, <1>3, OneGoesOn

\* The reviewers are asked, or one of them is refused before any is.
LEMMA AskIsTold == ASSUME Both, Told, NEW s \in DOMAIN sessions, Ask(s)  PROVE Told'
<1>1. /\ TypeOK /\ UNCHANGED <<claims, reviews, restarted>> /\ loop = Free
      /\ sessions[s].task = "building" /\ "building" \in Going /\ "raising" \in Going
  BY DEF Both, ClaimInvariant, Ask, Fail, Going
<1>2. sessions[s] \in Session /\ \A r \in Reviewer : sessions[s].agents[r] = "idle"
  BY <1>1, SessionType DEF Told, AgentsFit
<1>3. CASE Fail(s)
  BY <1>1, <1>2, <1>3, FailureIsTold DEF Fail
<1>4. ASSUME sessions' = [sessions EXCEPT ![s].task = "raising", ![s].agents = [r \in Reviewer |-> "asked"]],
             UNCHANGED loop
      PROVE  Told'
  <2> DEFINE asked == [r \in Reviewer |-> "asked"]
             session == [sessions[s] EXCEPT !.task = "raising", !.agents = asked]
  <2>1. asked \in [Reviewer -> Agents] /\ \A r \in Reviewer : asked[r] = "asked"
    BY DEF Agents
  <2> HIDE DEF asked
  <2>2. /\ session \in Session /\ session.claim = sessions[s].claim
        /\ session.task = "raising" /\ session.agents = asked
    BY <1>2, <2>1 DEF Session, Tasks
  <2>3. sessions' = [sessions EXCEPT ![s] = session]
    BY <1>4 DEF asked
  <2> HIDE DEF session
  <2>4. /\ IF session.task = "closing" THEN Closing(s) ELSE loop' = Free
        /\ session.task \in Going /\ session.task \notin {"building", "deduping", "closing", "over"}
        /\ \A r \in Reviewer : session.agents[r] = "asked"
        /\ sessions[s].task # "closing"
    BY <1>1, <1>4, <2>1, <2>2
  <2>. QED  BY <1>1, <2>2, <2>3, <2>4, OneGoesOn
<1>. QED  BY <1>3, <1>4 DEF Ask

\* A reviewer's agent ends; the review waits for the others.
LEMMA AnswerIsTold ==
  ASSUME Both, Told, NEW s \in DOMAIN sessions, NEW r \in Reviewer, Answer(s, r)  PROVE Told'
<1>1. /\ TypeOK /\ UNCHANGED <<claims, reviews, loop, restarted>> /\ loop = Free
      /\ sessions[s] \in Session /\ sessions[s].agents \in [Reviewer -> Agents]
      /\ sessions[s].agents[r] = "asked"
  BY SessionType DEF Both, ClaimInvariant, Answer
<1>2. PICK ended \in {"answered", "failed"} : sessions' = [sessions EXCEPT ![s].agents[r] = ended]
  BY DEF Answer
<1> DEFINE agents == [sessions[s].agents EXCEPT ![r] = ended]
           session == [sessions[s] EXCEPT !.agents = agents]
<1>3. /\ agents \in [Reviewer -> Agents]
      /\ \A q \in Reviewer : agents[q] = IF q = r THEN ended ELSE sessions[s].agents[q]
  BY <1>1 DEF Agents
<1>4. sessions' = [sessions EXCEPT ![s] = session]
  BY <1>2
<1> HIDE DEF agents
<1>5. /\ session \in Session /\ session.claim = sessions[s].claim /\ session.agents = agents
      /\ session.marked = sessions[s].marked /\ session.task = sessions[s].task
      /\ session.failed = sessions[s].failed
  BY <1>1, <1>3 DEF Session
<1> HIDE DEF session
<1>6. sessions[s].task \in Tasks
  BY <1>1 DEF Session
<1>7. CASE sessions[s].task = "raising"
  <2>1. \A q \in Reviewer : session.agents[q] \in {"asked", "answered", "failed"}
    BY <1>3, <1>5, <1>7 DEF Told, AgentsFit
  <2>2. "raising" \in Going
    BY DEF Going
  <2>. QED  BY <1>1, <1>4, <1>5, <1>7, <2>1, <2>2, OneGoesOn
<1>8. CASE sessions[s].task \in {"cut", "dead"}
  <2>1. /\ DOMAIN sessions' = DOMAIN sessions /\ sessions'[s] = session
        /\ \A t \in DOMAIN sessions : t # s => sessions'[t] = sessions[t]
    BY <1>1, <1>4, <1>5, GivenAState
  <2>2. \A t \in DOMAIN sessions :
          /\ sessions'[t].claim = sessions[t].claim /\ sessions'[t].task = sessions[t].task
          /\ sessions'[t].marked = sessions[t].marked /\ sessions'[t].failed = sessions[t].failed
          /\ t = s \/ sessions'[t].agents = sessions[t].agents
    BY <1>5, <2>1
  <2>3. AgentsFit'
    BY <1>8, <2>1, <2>2 DEF Told, AgentsFit
  <2>4. NoneIsTabular' /\ LoopIsThere'
    BY <1>1, <2>1, <2>2, FreeIsStanding DEF Told, NoneIsTabular, LoopIsThere
  <2>5. ReviewedIsOver' /\ EndsAreTold'
    BY <1>1, <2>1, <2>2 DEF Told, ReviewedIsOver, EndsAreTold, Reviewed
  <2>6. NewestGoes' /\ MarksAreTrue'
    BY <1>1, <2>1, <2>2 DEF Told, NewestGoes, MarksAreTrue
  <2>. QED  BY <2>3, <2>4, <2>5, <2>6 DEF Told
<1>9. sessions[s].task \notin {"none", "building", "deduping", "closing", "over"}
  BY <1>1 DEF Told, AgentsFit
<1>. QED  BY <1>6, <1>7, <1>8, <1>9 DEF Tasks

\* A review is stored of a claim that had none, or the review says why not.
LEMMA DeliverIsTold ==
  ASSUME Both, Told, NEW s \in DOMAIN sessions, sessions[s].task \in {"raising", "deduping"},
         \A r \in Reviewer : sessions[s].agents[r] \in {"answered", "failed", "idle", "booked"},
         loop = Free, UNCHANGED <<claims, restarted>>, Deliver(s), Closing(s)
  PROVE  Told'
<1> DEFINE booked == Booked(sessions[s])
           ended == [booked EXCEPT !.task = "closing"]
<1>1. TypeOK /\ sessions[s] \in Session /\ sessions[s].task \in Going /\ "closing" \in Going
  BY SessionType DEF Both, ClaimInvariant, Going
<1>2. /\ booked \in Session /\ booked.claim = sessions[s].claim
      /\ \A r \in Reviewer : booked.agents[r] \in {"idle", "booked"}
  BY <1>1, AllBooked
<1>3. ASSUME sessions' = [sessions EXCEPT ![s] = Failed(booked)], UNCHANGED reviews
      PROVE  Told'
  <2> HIDE DEF booked
  <2>. QED  BY <1>1, <1>2, <1>3, FailureIsTold
<1>4. ASSUME reviews' = reviews \cup {[claim |-> sessions[s].claim, session |-> s]},
             sessions' = [sessions EXCEPT ![s] = ended]
      PROVE  Told'
  <2> HIDE DEF booked
  <2>1. /\ ended \in Session /\ ended.claim = booked.claim /\ ended.task = "closing"
        /\ ended.agents = booked.agents
    BY <1>2, NewlyTasked DEF Tasks
  <2> HIDE DEF ended
  <2>2. \E review \in reviews' : review.claim = ended.claim
    <3> DEFINE review == [claim |-> sessions[s].claim, session |-> s]
    <3>1. review \in reviews' /\ review.claim = sessions[s].claim
      BY <1>4
    <3>. QED  BY <1>2, <2>1, <3>1
  <2>3. /\ IF ended.task = "closing" THEN Closing(s) ELSE loop' = Free
        /\ ended.task \in Going /\ ended.task \notin {"building", "raising", "deduping", "over"}
        /\ \A r \in Reviewer : ended.agents[r] \in {"idle", "booked"}
    BY <1>1, <1>2, <2>1
  <2>. QED  BY <1>1, <1>2, <1>4, <2>1, <2>2, <2>3, OneGoesOn
<1>. QED  BY <1>3, <1>4 DEF Deliver

\* Every reviewer has ended: the review fails, is stored, or goes to its deduper.
LEMMA RaiseIsTold == ASSUME Both, Told, NEW s \in DOMAIN sessions, Raise(s)  PROVE Told'
<1> DEFINE booked == Booked(sessions[s])
           deduping == [booked EXCEPT !.task = "deduping"]
<1>1. /\ TypeOK /\ sessions[s] \in Session /\ UNCHANGED <<claims, restarted>> /\ loop = Free
      /\ sessions[s].task = "raising" /\ {"raising", "deduping"} \subseteq Going
  BY SessionType DEF Both, ClaimInvariant, Raise, Going
<1>2. \A r \in Reviewer : sessions[s].agents[r] \in {"answered", "failed", "idle", "booked"}
  BY DEF Raise, Gathered
<1>3. /\ booked \in Session /\ booked.claim = sessions[s].claim
      /\ \A r \in Reviewer : booked.agents[r] \in {"idle", "booked"}
  BY <1>1, <1>2, AllBooked
<1>4. ASSUME sessions' = [sessions EXCEPT ![s] = Failed(booked)], Closing(s), UNCHANGED reviews
      PROVE  Told'
  <2> HIDE DEF booked
  <2>. QED  BY <1>1, <1>3, <1>4, FailureIsTold
<1>5. ASSUME Deliver(s), Closing(s)  PROVE Told'
  BY <1>1, <1>2, <1>5, DeliverIsTold
<1>6. ASSUME sessions' = [sessions EXCEPT ![s] = deduping], UNCHANGED <<reviews, loop>>
      PROVE  Told'
  <2> HIDE DEF booked
  <2>1. /\ deduping \in Session /\ deduping.claim = booked.claim /\ deduping.task = "deduping"
        /\ deduping.agents = booked.agents
    BY <1>3, NewlyTasked DEF Tasks
  <2> HIDE DEF deduping
  <2>2. /\ IF deduping.task = "closing" THEN Closing(s) ELSE loop' = Free
        /\ deduping.task \in Going /\ deduping.task \notin {"building", "raising", "closing", "over"}
        /\ \A r \in Reviewer : deduping.agents[r] \in {"idle", "booked"}
        /\ sessions[s].task # "closing"
    BY <1>1, <1>3, <1>6, <2>1
  <2>. QED  BY <1>1, <1>3, <1>6, <2>1, <2>2, OneGoesOn
<1>. QED  BY <1>4, <1>5, <1>6 DEF Raise

\* The deduper ends, and the review with it.
LEMMA DedupeIsTold == ASSUME Both, Told, NEW s \in DOMAIN sessions, Dedupe(s)  PROVE Told'
<1>1. /\ sessions[s].task = "deduping" /\ loop = Free /\ UNCHANGED <<claims, restarted>>
      /\ Deliver(s) /\ Closing(s)
  BY DEF Dedupe
<1>2. \A r \in Reviewer : sessions[s].agents[r] \in {"idle", "booked"}
  BY <1>1 DEF Told, AgentsFit
<1>. QED  BY <1>1, <1>2, DeliverIsTold

\* The mark is cleared of a review that has left itself or its reason.
LEMMA CloseIsTold == ASSUME Both, Told, Close  PROVE Told'
<1> DEFINE s == loop.of
           session == [sessions[s] EXCEPT !.marked = FALSE, !.task = "over"]
<1>1. /\ TypeOK /\ s \in DOMAIN sessions /\ loop.at = "closing"
      /\ UNCHANGED <<claims, reviews, restarted>> /\ loop' = Free
      /\ sessions' = [sessions EXCEPT ![s] = session]
      /\ sessions[s] \in Session
  BY SessionType DEF Both, ClaimInvariant, TypeOK, Close
<1>2. /\ sessions[s].task = "closing"
      /\ sessions[s].failed \/ Reviewed(sessions[s].claim)
      /\ \A r \in Reviewer : sessions[s].agents[r] \in {"idle", "booked"}
  BY <1>1 DEF Told, LoopIsThere, EndsAreTold, AgentsFit
<1>3. /\ session \in Session /\ session.claim = sessions[s].claim /\ session.task = "over"
      /\ session.marked = FALSE /\ session.failed = sessions[s].failed
      /\ session.agents = sessions[s].agents
  BY <1>1 DEF Session, Tasks
<1>4. loop.of = s /\ "closing" \in Going
  BY DEF Going
<1> HIDE DEF s, session
<1>5. session.failed \/ \E review \in reviews' : review.claim = session.claim
  BY <1>1, <1>2, <1>3 DEF Reviewed
<1>6. /\ IF session.task = "closing" THEN Closing(s) ELSE loop' = Free
      /\ session.task \notin {"building", "raising", "deduping", "closing"}
      /\ session.task \in Going \cup {"over"} /\ session.marked => session.task \in Going
      /\ \A r \in Reviewer : session.agents[r] \in {"idle", "booked"}
  BY <1>1, <1>2, <1>3
<1>. QED  BY <1>1, <1>2, <1>3, <1>4, <1>5, <1>6, OneGoesOn

\* Whatever stops when the process does says that it was cut, or is known to be dead.
LEMMA StopIsTold ==
  ASSUME TypeOK, Told, UNCHANGED <<claims, reviews>>, loop' = Free,
         DOMAIN sessions' = DOMAIN sessions,
         \/ restarted' = TRUE
         \/ /\ restarted' = restarted /\ loop = Free
            /\ \A s \in DOMAIN sessions : sessions'[s].task # "dead" \/ sessions'[s] = sessions[s],
         \A s \in DOMAIN sessions :
           /\ sessions'[s].claim = sessions[s].claim
           /\ \/ sessions'[s] = sessions[s] /\ sessions[s].task \notin Going \cup {"none"}
              \/ sessions'[s].task = "cut" /\ sessions'[s].failed /\ ~sessions'[s].marked
              \/ sessions'[s].task = "dead"
  PROVE  Told'
<1>1. \A s \in DOMAIN sessions :
        /\ sessions'[s].task \notin Going \cup {"none"}
        /\ sessions'[s].task = "over" => sessions'[s] = sessions[s]
  BY DEF Going
<1>2. "closing" \in Going /\ "building" \in Going /\ "raising" \in Going /\ "deduping" \in Going
  BY DEF Going
<1>3. AgentsFit'
  BY <1>1, <1>2 DEF Told, AgentsFit
<1>4. NoneIsTabular'
  BY DEF Told, NoneIsTabular
<1>5. LoopIsThere'
  BY <1>1, <1>2, FreeIsStanding DEF LoopIsThere
<1>6. ReviewedIsOver'
  BY <1>1, <1>2 DEF ReviewedIsOver
<1>7. NewestGoes'
  BY <1>1 DEF NewestGoes
<1>8. MarksAreTrue'
  <2>1. CASE restarted' = TRUE
    BY <2>1 DEF MarksAreTrue
  <2>2. ASSUME restarted' = restarted, ~restarted,
               \A s \in DOMAIN sessions : sessions'[s].task # "dead" \/ sessions'[s] = sessions[s],
               NEW s \in DOMAIN sessions
        PROVE  (sessions'[s].marked => sessions'[s].task \in Going) /\ sessions'[s].task # "dead"
    <3>1. (sessions[s].marked => sessions[s].task \in Going) /\ sessions[s].task # "dead"
      BY <2>2 DEF Told, MarksAreTrue
    <3>. QED  BY <2>2, <3>1
  <2>. QED  BY <2>1, <2>2 DEF MarksAreTrue
<1>9. EndsAreTold'
  BY <1>1, <1>2 DEF Told, EndsAreTold, Reviewed
<1>. QED  BY <1>3, <1>4, <1>5, <1>6, <1>7, <1>8, <1>9 DEF Told

\* A shutdown says of every review under way that it was cut.
LEMMA ShutdownIsTold == ASSUME Both, Told, Shutdown  PROVE Told'
<1>1. /\ TypeOK /\ UNCHANGED <<claims, reviews, restarted>> /\ loop = Free /\ loop' = Free
      /\ sessions' = [s \in DOMAIN sessions |->
                        IF sessions[s].task \notin Going THEN sessions[s]
                        ELSE [sessions[s] EXCEPT !.failed = TRUE, !.marked = FALSE, !.task = "cut",
                                                 !.agents = Stopped(@)]]
  BY DEF Both, ClaimInvariant, Shutdown
<1>2. ASSUME NEW s \in DOMAIN sessions
      PROVE  /\ sessions'[s].claim = sessions[s].claim
             /\ \/ sessions'[s] = sessions[s] /\ sessions[s].task \notin Going \cup {"none"}
                \/ sessions'[s].task = "cut" /\ sessions'[s].failed /\ ~sessions'[s].marked
  <2>1. sessions[s] \in Session /\ sessions[s].task # "none"
    BY <1>1, SessionType, FreeIsStanding DEF Told, LoopIsThere
  <2>2. CASE sessions[s].task \notin Going
    BY <1>1, <2>1, <2>2
  <2>3. CASE sessions[s].task \in Going
    BY <1>1, <2>1, <2>3 DEF Session
  <2>. QED  BY <2>2, <2>3
<1>3. DOMAIN sessions' = DOMAIN sessions
  BY <1>1
<1>4. \A s \in DOMAIN sessions : sessions'[s].task # "dead" \/ sessions'[s] = sessions[s]
  BY <1>2
<1>. QED  BY <1>1, <1>2, <1>3, <1>4, StopIsTold

\* A crash leaves dead what went.
LEMMA CrashIsTold == ASSUME Both, Told, Crash  PROVE Told'
<1>1. /\ TypeOK /\ UNCHANGED <<claims, reviews>> /\ loop' = Free /\ restarted' = TRUE
      /\ sessions' = [s \in DOMAIN sessions |->
                        IF sessions[s].task \notin Going \cup {"none"} THEN sessions[s]
                        ELSE [sessions[s] EXCEPT !.task = "dead", !.agents = Stopped(@)]]
  BY DEF Both, ClaimInvariant, Crash
<1>2. ASSUME NEW s \in DOMAIN sessions
      PROVE  /\ sessions'[s].claim = sessions[s].claim
             /\ \/ sessions'[s] = sessions[s] /\ sessions[s].task \notin Going \cup {"none"}
                \/ sessions'[s].task = "dead"
  <2>1. sessions[s] \in Session
    BY <1>1, SessionType
  <2>. QED  BY <1>1, <2>1 DEF Session
<1>3. DOMAIN sessions' = DOMAIN sessions
  BY <1>1
<1>. QED  BY <1>1, <1>2, <1>3, StopIsTold

\* Every action keeps what is told of the reviews.
LEMMA StepIsTold == Both /\ Told /\ [Next]_vars => Told'
<1>. SUFFICES ASSUME Both, Told, [Next]_vars  PROVE Told'
  OBVIOUS
<1>1. CASE Ruling
  BY <1>1, RulingIsTold
<1>2. CASE Reviewing
  <2>1. ASSUME NEW s \in DOMAIN sessions, GoesOn(s)  PROVE Told'
    BY <2>1, AskIsTold, RaiseIsTold, DedupeIsTold, AnswerIsTold DEF GoesOn
  <2>. QED  BY <1>2, <2>1, OpenSessionIsTold, MarkSessionIsTold, CloseIsTold DEF Reviewing
<1>3. CASE Shutdown
  BY <1>3, ShutdownIsTold
<1>4. CASE Crash
  BY <1>4, CrashIsTold
<1>5. CASE UNCHANGED vars
  <2>1. /\ claims' = claims /\ reviews' = reviews /\ sessions' = sessions
        /\ loop' = loop /\ restarted' = restarted
    BY <1>5 DEF vars
  <2>. QED  BY <2>1 DEF Told, AgentsFit, NoneIsTabular, LoopIsThere, ReviewedIsOver, NewestGoes,
       MarksAreTrue, EndsAreTold, Reviewed
<1>. QED  BY <1>1, <1>2, <1>3, <1>4, <1>5 DEF Next

LEMMA ToldHolds == Spec => [](Both /\ Told)
<1>1. Init => Both /\ Told
  BY InitHolds, InitIsTold DEF Both
<1>2. Both /\ Told /\ [Next]_vars => (Both /\ Told)'
  BY StepHolds, StepIsTold
<1>. QED  BY <1>1, <1>2, PTL DEF Spec

-----------------------------------------------------------------------------
(* What a claim's page says.                                               *)

\* Numbers have a least one among them, and those up to a bound a greatest.
LEMMA LeastNumber ==
  ASSUME NEW T \in SUBSET Nat, T # {}
  PROVE  \E x \in T : \A y \in T : x <= y
<1>1. IsWellFoundedOn(OpToRel(<, Nat), Nat)
  BY NatLessThanWellFounded
<1>2. PICK x \in T : \A y \in T : ~ (<<y, x>> \in OpToRel(<, Nat))
  BY <1>1, WFMin, Zenon
<1>3. \A y \in T : ~ (y < x)
  BY <1>2, Zenon DEF OpToRel
<1>. QED  BY <1>3

LEMMA GreatestNumber ==
  ASSUME NEW n \in Nat, NEW T \in SUBSET (1..n), T # {}
  PROVE  \E x \in T : \A y \in T : y <= x
<1> DEFINE U == {n - y : y \in T}
<1>1. U \in SUBSET Nat
  OBVIOUS
<1>2. U # {}
  <2>1. PICK y \in T : TRUE
    OBVIOUS
  <2>2. n - y \in U
    OBVIOUS
  <2>. QED  BY <2>2
<1>3. PICK u \in U : \A y \in U : u <= y
  BY <1>1, <1>2, LeastNumber
<1>4. PICK x \in T : u = n - x
  OBVIOUS
<1>5. \A y \in T : n - x <= n - y
  BY <1>3, <1>4
<1>. QED  BY <1>5

\* The session a claim's page reads: the newest.
LEMMA NewestSession ==
  ASSUME TypeOK, NEW c, SessionsOf(c) # {}
  PROVE  LET newest == CHOOSE s \in SessionsOf(c) : \A t \in SessionsOf(c) : t <= s IN
         newest \in SessionsOf(c) /\ \A t \in SessionsOf(c) : t <= newest
<1>1. Len(sessions) \in Nat /\ SessionsOf(c) \in SUBSET (1..Len(sessions))
  BY LenProperties DEF TypeOK, SessionsOf
<1>2. \E s \in SessionsOf(c) : \A t \in SessionsOf(c) : t <= s
  BY <1>1, GreatestNumber
<1>. QED  BY <1>2

LEMMA ToldIsTrue == Both /\ Told => ReviewStateIsTrue
<1>. SUFFICES ASSUME Both, Told, loop = Free, ~restarted, NEW c \in DOMAIN claims
              PROVE  /\ ReviewState(c) = "running" <=>
                          \E s \in SessionsOf(c) : sessions[s].task \in Going
                     /\ ReviewState(c) = "none" => SessionsOf(c) = {}
  BY DEF ReviewStateIsTrue
<1> DEFINE newest == CHOOSE s \in SessionsOf(c) : \A t \in SessionsOf(c) : t <= s
<1>1. /\ TypeOK /\ loop.at = "free"
      /\ \A s \in SessionsOf(c) : s \in DOMAIN sessions /\ sessions[s].claim = c /\ s \in Nat
  BY FreeIsStanding, SessionType DEF Both, ClaimInvariant, SessionsOf
<1>2. ReviewState(c) =
        IF Reviewed(c) THEN "done"
        ELSE IF claims[c].shape \in Tabular THEN "refused"
        ELSE IF SessionsOf(c) = {} THEN "none"
        ELSE IF sessions[newest].marked THEN "running"
        ELSE IF sessions[newest].failed THEN "failed"
        ELSE "none"
  BY DEF ReviewState
<1>3. SessionsOf(c) # {} => newest \in SessionsOf(c) /\ \A t \in SessionsOf(c) : t <= newest
  BY <1>1, NewestSession
<1> HIDE DEF newest
<1>4. ASSUME NEW s \in SessionsOf(c), sessions[s].task \in Going  PROVE ReviewState(c) = "running"
  <2>1. sessions[s].task # "closing"
    BY <1>1 DEF Told, LoopIsThere
  <2>2. ~Reviewed(c)
    BY <1>1, <1>4, <2>1 DEF Told, ReviewedIsOver, Going
  <2>3. claims[c].shape \notin Tabular
    BY <1>1 DEF Told, NoneIsTabular
  <2>4. newest = s
    <3>1. newest \in SessionsOf(c) /\ s <= newest
      BY <1>3
    <3>2. newest <= s
      BY <1>1, <1>4, <3>1 DEF Told, NewestGoes
    <3>. QED  BY <1>1, <3>1, <3>2
  <2>5. sessions[s].marked
    BY <1>1, <1>4 DEF Both, ReviewInvariant, GoingIsMarked
  <2>. QED  BY <1>2, <2>2, <2>3, <2>4, <2>5
<1>5. ASSUME ReviewState(c) = "running"
      PROVE  \E s \in SessionsOf(c) : sessions[s].task \in Going
  <2>1. SessionsOf(c) # {} /\ sessions[newest].marked
    BY <1>2, <1>5
  <2>2. newest \in SessionsOf(c) /\ newest \in DOMAIN sessions
    BY <1>1, <1>3, <2>1
  <2>. QED  BY <2>1, <2>2 DEF Told, MarksAreTrue
<1>6. ASSUME ReviewState(c) = "none", SessionsOf(c) # {}  PROVE FALSE
  <2>1. ~Reviewed(c) /\ ~sessions[newest].marked /\ ~sessions[newest].failed
    BY <1>2, <1>6
  <2>2. newest \in DOMAIN sessions /\ sessions[newest].claim = c
    BY <1>1, <1>3, <1>6
  <2>3. sessions[newest].task \notin Going
    BY <2>1, <2>2 DEF Both, ReviewInvariant, GoingIsMarked
  <2>4. sessions[newest].task \notin {"none", "dead"}
    BY <1>1, <2>2 DEF Told, LoopIsThere, MarksAreTrue
  <2>5. sessions[newest].task \notin {"closing", "over", "cut"}
    BY <2>1, <2>2 DEF Told, EndsAreTold
  <2>6. sessions[newest].task \in Tasks
    BY <1>1, <2>2, SessionType DEF Session
  <2>. QED  BY <2>3, <2>4, <2>5, <2>6 DEF Tasks, Going
<1>. QED  BY <1>4, <1>5, <1>6

\* While the process lives a claim's page calls running the reviews that go and no
\* other, and never says of a claim that was sent to review that it was not.
THEOREM ReviewStatesAreTrue == Spec => []ReviewStateIsTrue
BY ToldHolds, ToldIsTrue, PTL

\* Whichever reviewers fall over and whatever order they end in, a review that ended by
\* itself leaves none running and booked what each of them spent.
THEOREM ReviewersAreBooked == Spec => []ReviewersAreAccountedFor
<1>1. Both /\ Told => ReviewersAreAccountedFor
  BY DEF Told, AgentsFit, ReviewersAreAccountedFor
<1>. QED  BY <1>1, ToldHolds, PTL
=============================================================================
