---------------------------- MODULE ClaimReviews ----------------------------
(***************************************************************************)
(* The claims of one project and their reviews: services/claims.py,        *)
(* services/claim_review_run.py, services/claim_review.py, reviewer/run.py *)
(* behind web/routers/claims.py and tools/claims.py.                       *)
(*                                                                         *)
(* Every handler is a coroutine of the event loop and none waits between   *)
(* two of its store calls, so another runs between them only after a crash:*)
(* `loop` is the handler that stands there.  A review's task waits for its *)
(* agents.  Left out: refusals of a sentence or of a context, which write  *)
(* nothing, the session's pending_user, and what a challenge says.         *)
(***************************************************************************)
EXTENDS Naturals, Sequences, FiniteSets

CONSTANTS
  Shape,      \* the project's claim shapes, each published once by each run
  Closed,     \* those that need the whole input
  Tabular,    \* those whose output is a table: a claim cites no cell
  Context,    \* the contexts a claim may sit on
  NoContext,  \* that of a skip
  Run,        \* production runs
  Whole,      \* those that read everything
  Proposal,   \* what may be claimed: a shape, a context and a run that publishes it
  Reviewer,   \* the reviewers of a claim
  MaxClaims,  \* bound: claims written
  MaxReviews  \* bound: review sessions opened

ASSUME ClaimConstants ==
  /\ Closed \subseteq Shape /\ Tabular \subseteq Shape /\ Whole \subseteq Run
  /\ Proposal \subseteq [shape : Shape, context : Context, run : Run]
  /\ Reviewer # {} /\ MaxClaims \in Nat /\ MaxReviews \in Nat

VARIABLES
  claims,    \* the Claim records, oldest first
  reviews,   \* the ClaimReview records
  sessions,  \* the parent sessions with the task of each, oldest first
  loop,      \* the handler on the event loop, between two store calls
  restarted  \* observation: the process died

vars == <<claims, reviews, sessions, loop, restarted>>

Statuses == {"submitted", "approved", "declined", "superseded"}

\* A claim as it is proposed, and a skip: declined, with no sentence and no
\* context.
Proposed(p) ==
  [shape |-> p.shape, context |-> p.context, run |-> p.run, status |-> "submitted", skip |-> FALSE]
Skipped(p) == [Proposed(p) EXCEPT !.context = NoContext, !.status = "declined", !.skip = TRUE]

Claim == [shape : Shape, context : Context \cup {NoContext}, run : Run, status : Statuses, skip : BOOLEAN]

Free == [at |-> "free", left |-> {}, draft |-> <<>>, of |-> 0]

Tasks == {"none", "building", "raising", "deduping", "closing", "over", "cut", "dead"}
Going == {"building", "raising", "deduping", "closing"}

\* A reviewer's agent; what it spent is booked once it has ended.
Agents == {"idle", "asked", "answered", "failed", "booked", "stopped"}

Session == [claim : Nat, marked : BOOLEAN, failed : BOOLEAN, task : Tasks, agents : [Reviewer -> Agents]]

Standing == [at : {"free", "superseding", "opening", "marking", "closing"},
             left : SUBSET Nat, draft : Seq(Claim), of : Nat]

\* Every reference names what it should: a review its claim and its session, a
\* session its claim, and the handler on the loop what it is at.
TypeOK ==
  /\ claims \in Seq(Claim) /\ Len(claims) <= MaxClaims
  /\ sessions \in Seq(Session) /\ \A s \in DOMAIN sessions : sessions[s].claim \in DOMAIN claims
  /\ reviews \subseteq [claim : DOMAIN claims, session : DOMAIN sessions]
  /\ loop \in Standing /\ loop.left \subseteq DOMAIN claims
  /\ loop.at = "superseding" => Len(loop.draft) = 1 /\ Len(claims) < MaxClaims
  /\ loop.at = "opening" => loop.of \in DOMAIN claims
  /\ loop.at \in {"marking", "closing"} => loop.of \in DOMAIN sessions
  /\ restarted \in BOOLEAN

Init ==
  /\ claims = <<>> /\ reviews = {} /\ sessions = <<>>
  /\ loop = Free /\ restarted = FALSE

-----------------------------------------------------------------------------
Stands(claim) == claim.status \in {"submitted", "approved"}

SameFact(one, other) == one.shape = other.shape /\ one.context = other.context

\* find_equivalent_claims
Equivalent(draft) == {c \in DOMAIN claims : Stands(claims[c]) /\ SameFact(claims[c], draft)}

Reviewed(c) == \E review \in reviews : review.claim = c

SessionsOf(c) == {s \in DOMAIN sessions : sessions[s].claim = c}

\* _find_running_reviews
UnderReview(c) == \E s \in SessionsOf(c) : sessions[s].marked

\* read_review_state
ReviewState(c) ==
  IF Reviewed(c) THEN "done"
  ELSE IF claims[c].shape \in Tabular THEN "refused"
  ELSE IF SessionsOf(c) = {} THEN "none"
  ELSE LET newest == CHOOSE s \in SessionsOf(c) : \A t \in SessionsOf(c) : t <= s IN
    IF sessions[newest].marked THEN "running"
    ELSE IF sessions[newest].failed THEN "failed"
    ELSE "none"

-----------------------------------------------------------------------------
(***************************************************************************)
(* Plausible bugs.  No behaviour of the specification uses the operators   *)
(* of this section: each stands in for the definition its name begins      *)
(* with, to show that a property notices the difference.                   *)
(***************************************************************************)

\* What was in the way when the claim was proposed is out of the way for good.
ApproveWithoutAsking(c) ==
  /\ loop = Free /\ ~claims[c].skip
  /\ claims[c].shape \in Closed => claims[c].run \in Whole
  /\ claims' = [claims EXCEPT ![c].status = "approved"]
  /\ UNCHANGED <<reviews, sessions, loop, restarted>>

\* A claim with a review under way may be given another.
OpenSessionBeside ==
  /\ loop.at = "opening"
  /\ IF Reviewed(loop.of) \/ claims[loop.of].status # "submitted"
          \/ claims[loop.of].shape \in Tabular
     THEN loop' = Free /\ UNCHANGED sessions
     ELSE /\ sessions' = Append(sessions,
               [claim |-> loop.of, marked |-> FALSE, failed |-> FALSE, task |-> "none",
                agents |-> [r \in Reviewer |-> "idle"]])
          /\ loop' = [Free EXCEPT !.at = "marking", !.of = Len(sessions) + 1]
  /\ UNCHANGED <<claims, reviews, restarted>>

\* A review that fails is over, and nothing says so.
FailInSilence(session) == [session EXCEPT !.task = "closing"]

\* The first failure is raised out of gather, which leaves the others running.
GatherTheFirst(s) ==
  LET session == sessions[s]
      heard == {r \in Reviewer : session.agents[r] \in {"answered", "failed"}} IN
  heard = Reviewer \/ \E r \in heard : session.agents[r] = "failed"

\* A review waits for five answers.
GatherAnswers(s) == \A r \in Reviewer : sessions[s].agents[r] = "answered"

-----------------------------------------------------------------------------
(* Claims.                                                                 *)

\* submit_claim and _write_the_rewrite, which submits a claim's own output and
\* context again: what the new claim restates is read ...
Submit(p) ==
  LET draft == Proposed(p) IN
  /\ loop = Free /\ Len(claims) < MaxClaims /\ Len(sessions) < MaxReviews
  /\ loop' = [Free EXCEPT !.at = "superseding", !.left = Equivalent(draft), !.draft = <<draft>>]
  /\ UNCHANGED <<claims, reviews, sessions, restarted>>

\* ... superseded, one save each ...
Supersede(c) ==
  /\ loop.at = "superseding" /\ c \in loop.left
  /\ claims' = [claims EXCEPT ![c].status = "superseded"]
  /\ loop' = [loop EXCEPT !.left = @ \ {c}]
  /\ UNCHANGED <<reviews, sessions, restarted>>

\* ... and replaced.  The route and the tool then start the new claim's review.
WriteClaim ==
  /\ loop.at = "superseding" /\ loop.left = {}
  /\ claims' = claims \o loop.draft
  /\ loop' = [Free EXCEPT !.at = "opening", !.of = Len(claims) + 1]
  /\ UNCHANGED <<reviews, sessions, restarted>>

\* approve_claim, whatever the claim's status has become since its page was
\* drawn; a skip's page never offers it.
Approve(c) ==
  /\ loop = Free /\ ~claims[c].skip
  /\ claims[c].shape \in Closed => claims[c].run \in Whole
  /\ Equivalent(claims[c]) \subseteq {c}
  /\ claims' = [claims EXCEPT ![c].status = "approved"]
  /\ UNCHANGED <<reviews, sessions, loop, restarted>>

\* decline_claim and cancel_claim_submission
Decline(c) ==
  /\ loop = Free
  /\ claims' = [claims EXCEPT ![c].status = "declined"]
  /\ UNCHANGED <<reviews, sessions, loop, restarted>>

\* decline_output: a claim proposed and refused in one act, without a sentence.
Skip(p) ==
  /\ loop = Free /\ Len(claims) < MaxClaims
  /\ claims' = Append(claims, Skipped(p))
  /\ UNCHANGED <<reviews, sessions, loop, restarted>>

-----------------------------------------------------------------------------
(* Reviews.                                                                *)

\* review_claim: the button of a claim's page.
AskForReview(c) ==
  /\ loop = Free /\ Len(sessions) < MaxReviews
  /\ loop' = [Free EXCEPT !.at = "opening", !.of = c]
  /\ UNCHANGED <<claims, reviews, sessions, restarted>>

\* start_claim_review, up to the session's creation, or its refusal.
OpenSession ==
  /\ loop.at = "opening"
  /\ IF Reviewed(loop.of) \/ UnderReview(loop.of) \/ claims[loop.of].status # "submitted"
          \/ claims[loop.of].shape \in Tabular
     THEN loop' = Free /\ UNCHANGED sessions
     ELSE /\ sessions' = Append(sessions,
               [claim |-> loop.of, marked |-> FALSE, failed |-> FALSE, task |-> "none",
                agents |-> [r \in Reviewer |-> "idle"]])
          /\ loop' = [Free EXCEPT !.at = "marking", !.of = Len(sessions) + 1]
  /\ UNCHANGED <<claims, reviews, restarted>>

\* set_active_turn and create_task
MarkSession ==
  /\ loop.at = "marking"
  /\ sessions' = [sessions EXCEPT ![loop.of].marked = TRUE, ![loop.of].task = "building"]
  /\ loop' = Free
  /\ UNCHANGED <<claims, reviews, restarted>>

\* persist_generation_failure
Failed(session) == [session EXCEPT !.failed = TRUE, !.task = "closing"]

\* The task's finally clause is next.
Closing(s) == loop' = [Free EXCEPT !.at = "closing", !.of = s]

\* The review fails where it stands.
Fail(s) ==
  /\ sessions' = [sessions EXCEPT ![s] = Failed(@)]
  /\ Closing(s)
  /\ UNCHANGED <<claims, reviews, restarted>>

\* _raise_the_challenges: the agents are built, one of them refused or all asked.
Ask(s) ==
  /\ loop = Free /\ sessions[s].task = "building"
  /\ \/ Fail(s)
     \/ /\ sessions' = [sessions EXCEPT ![s].task = "raising",
                                        ![s].agents = [r \in Reviewer |-> "asked"]]
        /\ UNCHANGED <<claims, reviews, loop, restarted>>

\* A reviewer's agent ends.
Answer(s, r) ==
  /\ loop = Free /\ sessions[s].agents[r] = "asked"
  /\ \E ended \in {"answered", "failed"} :
       sessions' = [sessions EXCEPT ![s].agents[r] = ended]
  /\ UNCHANGED <<claims, reviews, loop, restarted>>

\* asyncio.gather(..., return_exceptions=True) is ready.
Gathered(s) == \A r \in Reviewer : sessions[s].agents[r] \in {"answered", "failed"}

\* record_turn_spend, for every agent that has ended.
Booked(session) ==
  [session EXCEPT !.agents =
     [r \in Reviewer |-> IF @[r] \in {"answered", "failed"} THEN "booked" ELSE @[r]]]

\* on_answer, store_claim_review: one review of a claim, and only one whose
\* citations the run holds.
Deliver(s) ==
  \/ /\ ~Reviewed(sessions[s].claim)
     /\ reviews' = reviews \cup {[claim |-> sessions[s].claim, session |-> s]}
     /\ sessions' = [sessions EXCEPT ![s] = [Booked(@) EXCEPT !.task = "closing"]]
  \/ /\ sessions' = [sessions EXCEPT ![s] = Failed(Booked(@))]
     /\ UNCHANGED reviews

\* Every reviewer has ended and is booked; one failure fails the review, and
\* nothing repeats a single challenge.
Raise(s) ==
  LET fell == \E r \in Reviewer : sessions[s].agents[r] = "failed" IN
  /\ loop = Free /\ sessions[s].task = "raising" /\ Gathered(s)
  /\ \/ /\ fell
        /\ sessions' = [sessions EXCEPT ![s] = Failed(Booked(@))]
        /\ Closing(s) /\ UNCHANGED reviews
     \/ ~fell /\ Deliver(s) /\ Closing(s)
     \/ /\ ~fell
        /\ sessions' = [sessions EXCEPT ![s] = [Booked(@) EXCEPT !.task = "deduping"]]
        /\ UNCHANGED <<reviews, loop>>
  /\ UNCHANGED <<claims, restarted>>

\* _drop_the_repeats: the deduper fails, or what it keeps is delivered.
Dedupe(s) ==
  /\ loop = Free /\ sessions[s].task = "deduping"
  /\ Deliver(s) /\ Closing(s)
  /\ UNCHANGED <<claims, restarted>>

\* The finally clause of _review.
Close ==
  /\ loop.at = "closing"
  /\ sessions' = [sessions EXCEPT ![loop.of].marked = FALSE, ![loop.of].task = "over"]
  /\ loop' = Free
  /\ UNCHANGED <<claims, reviews, restarted>>

-----------------------------------------------------------------------------
(* The process.                                                            *)

\* The agents of a review that is cut end with it.
Stopped(agents) ==
  [r \in Reviewer |-> IF agents[r] \in {"idle", "booked"} THEN agents[r] ELSE "stopped"]

\* The server is asked to stop: the loop cancels every task that has begun, and
\* each records "the review did not finish" on its way out.
Shutdown ==
  /\ loop = Free
  /\ \A s \in DOMAIN sessions : sessions[s].task # "building"
  /\ \E s \in DOMAIN sessions : sessions[s].task \in Going
  /\ sessions' = [s \in DOMAIN sessions |->
                    IF sessions[s].task \notin Going THEN sessions[s]
                    ELSE [sessions[s] EXCEPT !.failed = TRUE, !.marked = FALSE, !.task = "cut",
                                             !.agents = Stopped(@)]]
  /\ UNCHANGED <<claims, reviews, loop, restarted>>

\* The process is killed.
Crash ==
  /\ sessions' = [s \in DOMAIN sessions |->
                    IF sessions[s].task \notin Going \cup {"none"} THEN sessions[s]
                    ELSE [sessions[s] EXCEPT !.task = "dead", !.agents = Stopped(@)]]
  /\ loop' = Free /\ restarted' = TRUE
  /\ UNCHANGED <<claims, reviews>>

-----------------------------------------------------------------------------
Ruling ==
  \/ \E p \in Proposal : Submit(p) \/ Skip(p)
  \/ \E c \in DOMAIN claims : Supersede(c) \/ Approve(c) \/ Decline(c) \/ AskForReview(c)
  \/ WriteClaim

\* The task of a review, or one of its agents, goes on.
GoesOn(s) ==
  s \in DOMAIN sessions /\ (Ask(s) \/ Raise(s) \/ Dedupe(s) \/ \E r \in Reviewer : Answer(s, r))

Reviewing == OpenSession \/ MarkSession \/ Close \/ \E s \in DOMAIN sessions : GoesOn(s)

Next == Ruling \/ Reviewing \/ Shutdown \/ Crash

Spec == Init /\ [][Next]_vars

(* A handler runs to its end, the loop's queue is first in first out, so    *)
(* that every task ready to go on does, and every agent ends: Agent.run has *)
(* no timeout and waits as long as the CLI does.                            *)
Handler == OpenSession \/ MarkSession \/ Close \/ WriteClaim \/ \E c \in DOMAIN claims : Supersede(c)

Fairness == WF_vars(Handler) /\ \A s \in 1..MaxReviews : SF_vars(GoesOn(s))

FairSpec == Spec /\ Fairness

-----------------------------------------------------------------------------
(* Properties.                                                             *)

(* One claim of a fact stands at a time: proposing another supersedes what   *)
(* stood, and a claim that was superseded or declined may be approved on a   *)
(* page drawn before it was only if nothing took its place meanwhile         *)
(* (submit_claim, approve_claim).                                           *)
AtMostOneStands ==
  \A c, d \in DOMAIN claims :
    Stands(claims[c]) /\ Stands(claims[d]) /\ SameFact(claims[c], claims[d]) => c = d

(* A claim is reviewed once: two reviews of it never run at a time, and it    *)
(* never holds two (start_claim_review, store_claim_review).                *)
ReviewedOnce ==
  /\ \A s, t \in DOMAIN sessions :
       /\ sessions[s].task \in Going /\ sessions[t].task \in Going
       /\ sessions[s].claim = sessions[t].claim
       => s = t
  /\ \A one, other \in reviews : one.claim = other.claim => one = other

(* What a claim's page says of its review is so, while the process lives: a  *)
(* review said to be running runs, one that is over left a review or the     *)
(* reason it did not, and no reader reads "finished, no error".             *)
ReviewStateIsTrue ==
  loop = Free /\ ~restarted =>
    \A c \in DOMAIN claims :
      LET going == \E s \in SessionsOf(c) : sessions[s].task \in Going IN
      /\ ReviewState(c) = "running" <=> going
      /\ ReviewState(c) = "none" => SessionsOf(c) = {}

(* A review that ended by itself leaves no reviewer running and booked what  *)
(* each of them spent, those that fell over among them                      *)
(* (_raise_the_challenges).                                                 *)
ReviewersAreAccountedFor ==
  \A s \in DOMAIN sessions :
    sessions[s].task \in {"closing", "over"} =>
      \A r \in Reviewer : sessions[s].agents[r] \in {"idle", "booked"}

(* Every review ends, whatever its reviewers do and whatever is decided of   *)
(* the claim meanwhile.                                                     *)
EveryReviewEnds ==
  \A s \in 1..MaxReviews :
    s \in DOMAIN sessions /\ sessions[s].task \in Going
      ~> s \in DOMAIN sessions /\ sessions[s].task \notin Going

=============================================================================
