----------------------------- MODULE ResponsesAPI -----------------------------
(***************************************************************************)
(* The Responses ingress (internal/server/responsesapi): POST              *)
(* /v1/responses.  Unlike the others it checks permissions before the      *)
(* tier, writes its audit records per attempt, rechecks the cost ceiling   *)
(* and the governor before each attempt, never retries for a cancelled     *)
(* client, and commits a stream with its first rendered event.             *)
(***************************************************************************)
EXTENDS Handlers

ResponsesArrive(r) ==
    \E body \in Arrivals(r, "responses") : Arrive(r, body, ResolveModel(Topology, body.asks), "allow")

ResponsesAllow(r) == At(r, "allow", "responses") /\ CheckAllowed(r, "tier")

ResponsesTier(r) ==
    At(r, "tier", "responses") /\ Move(r, [req[r] EXCEPT !.model = Substituted(r), !.pc = "chain"])

ResponsesChain(r) == At(r, "chain", "responses") /\ Resolve(r)

ResponsesNarrow(r) == At(r, "filter", "responses") /\ Narrow(r, Permitted(r))

ResponsesRoute(r) == At(r, "route", "responses") /\ Route(r, Refused(req[r]), "admit")

\* Masking, the final check of every target, window, prices, PreCheck.
ResponsesAdmit(r) ==
    LET q == req[r]
        carries == \A i \in DOMAIN q.chain : CompatibleTarget(State(r), q.chain[i], q.body)
    IN  At(r, "admit", "responses") /\ Admit(r, MaskBody(r) /\ carries, q.masked \/ Key.masked, 0)

\* BudgetTargetAllowed, read anew.
CeilingStands(r) ==
    BudgetTargetAllowed(State(r), Tier.ceilings, Canonical(State(r), req[r].requested), Target(r).model)

\* The attempt starts; the ceiling has moved; PreCheck denies a later attempt;
\* there is no escrow.
ResponsesAttempt(r) ==
    /\ At(r, "attempt", "responses")
    /\ \/ CeilingStands(r) /\ Attempt(r, req[r].started + 1)
       \/ (~CeilingStands(r) \/ req[r].at > 1) /\ Move(r, Refused(req[r]))
       \/ Unreserved(r)

\* attempt.finish: the outcome of one attempt is recorded, retried or not.
Completed(r) == req[r].outcomes + 1

\* attempt.complete: what cannot be rendered ("garbled") is not retried.
ResponsesComplete(r) ==
    /\ At(r, "call", "responses") /\ ~req[r].body.stream
    /\ \E answer \in Answers \cup {"garbled", "unsent"}, exact \in Exact :
        IF ~IsLast(r) /\ (answer = "busy" \/ (answer = "error" /\ ~req[r].cancelled))
        THEN Retry(r, Completed(r))
        ELSE End(r, answer = "ok" /\ exact, 1, answer \in {"ok", "unsent"}, answer = "ok")

\* Mutant: the failed attempt leaves its record open.
ResponsesOpenUnrecorded(r) ==
    /\ At(r, "call", "responses") /\ req[r].body.stream
    /\ \/ Move(r, [req[r] EXCEPT !.pc = "stream"])
       \/ ~IsLast(r) /\ ~req[r].cancelled /\ Retry(r, req[r].outcomes)
       \/ End(r, FALSE, 1, FALSE, FALSE)

\* attempt.stream until Stream returns.
ResponsesOpen(r) ==
    /\ At(r, "call", "responses") /\ req[r].body.stream
    /\ \/ Move(r, [req[r] EXCEPT !.pc = "stream"])
       \/ ~IsLast(r) /\ ~req[r].cancelled /\ Retry(r, Completed(r))
       \/ End(r, FALSE, 1, FALSE, FALSE)

\* The first rendered event commits the reply.
ResponsesCommit(r) ==
    /\ At(r, "stream", "responses") /\ req[r].replies = 0
    /\ Move(r, [req[r] EXCEPT !.replies = 1])

\* The terminal event with usage; or a failure, retried only before the commit.
ResponsesStream(r) ==
    /\ At(r, "stream", "responses")
    /\ \/ req[r].replies = 1 /\ \E exact \in Exact : End(r, exact, 0, TRUE, TRUE)
       \/ req[r].replies = 0 /\ ~IsLast(r) /\ ~req[r].cancelled /\ Retry(r, Completed(r))
       \/ End(r, FALSE, 1 - req[r].replies, FALSE, FALSE)

ResponsesNext(r) ==
    \/ ResponsesArrive(r) \/ ResponsesAllow(r) \/ ResponsesTier(r) \/ ResponsesChain(r)
    \/ ResponsesNarrow(r) \/ ResponsesRoute(r) \/ ResponsesAdmit(r) \/ ResponsesAttempt(r)
    \/ ResponsesComplete(r) \/ ResponsesOpen(r) \/ ResponsesCommit(r) \/ ResponsesStream(r)
=============================================================================
