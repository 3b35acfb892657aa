------------------------------- MODULE ChatAPI -------------------------------
(***************************************************************************)
(* The OpenAI ingress (internal/server/openaiapi, ChatHandler):            *)
(* POST /v1/chat/completions.                                              *)
(***************************************************************************)
EXTENDS Handlers

\* ServeHTTP: read, convert to the canonical request, ResolveModel.
ChatArrive(r) ==
    \E body \in Arrivals(r, "openai") : Arrive(r, body, ResolveModel(Topology, body.asks), "tier")

ChatTier(r) ==
    At(r, "tier", "openai") /\ Move(r, [req[r] EXCEPT !.model = Substituted(r), !.pc = "allow"])

ChatAllow(r) == At(r, "allow", "openai") /\ CheckAllowed(r, "chain")

ChatChain(r) == At(r, "chain", "openai") /\ Resolve(r)

ChatNarrow(r) == At(r, "filter", "openai") /\ Narrow(r, Permitted(r))

ChatRoute(r) == At(r, "route", "openai") /\ Route(r, Refused(req[r]), "admit")

\* This ingress has no masking of its own: a masked team's request is refused
\* unless a policy has masked it.
ChatAdmit(r) == At(r, "admit", "openai") /\ Admit(r, Key.masked => req[r].masked, req[r].masked, 1)

ChatAttempt(r) ==
    /\ At(r, "attempt", "openai")
    /\ Attempt(r, 1) \/ Unreserved(r)

ChatRetriable(r, answer) ==
    /\ ~IsLast(r)
    /\ answer \in {"error", "rejected", "busy"} \/ (answer = "notfound" /\ CrossModelNext(r))

\* serveComplete: circuit and pin are told before the reply is converted and
\* written.
ChatComplete(r) ==
    /\ At(r, "call", "openai") /\ ~req[r].body.stream
    /\ \E answer \in Answers, exact \in Exact :
        IF ChatRetriable(r, answer) THEN Retry(r, req[r].outcomes)
        ELSE End(r, answer = "ok" /\ exact, 1, answer \in {"ok", "silent"}, answer = "ok")

ChatOpen(r) ==
    /\ At(r, "call", "openai") /\ req[r].body.stream
    /\ \/ Commit(r)
       \/ IF IsLast(r) THEN End(r, FALSE, 1, FALSE, FALSE) ELSE Retry(r, req[r].outcomes)

ChatStream(r) ==
    /\ At(r, "stream", "openai")
    /\ \/ \E exact \in Exact : End(r, exact, 0, FALSE, TRUE)
       \/ End(r, FALSE, 0, FALSE, FALSE)

ChatNext(r) ==
    \/ ChatArrive(r) \/ ChatTier(r) \/ ChatAllow(r) \/ ChatChain(r) \/ ChatNarrow(r)
    \/ ChatRoute(r) \/ ChatAdmit(r) \/ ChatAttempt(r)
    \/ ChatComplete(r) \/ ChatOpen(r) \/ ChatStream(r)
=============================================================================
