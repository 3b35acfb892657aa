----------------------------- MODULE MessagesAPI -----------------------------
(***************************************************************************)
(* The Anthropic ingress (internal/server/anthropicapi): POST /v1/messages *)
(* (MessagesHandler) and POST /v1/messages/count_tokens                    *)
(* (CountTokensHandler).                                                   *)
(***************************************************************************)
EXTENDS Handlers

\* ServeHTTP: read, parse, ResolveModel; a count needs neither tier nor record.
MessagesArrive(r) ==
    \E body \in Arrivals(r, "anthropic") :
        Arrive(r, body, ResolveModel(Topology, body.asks), IF body.count THEN "allow" ELSE "tier")

MessagesTier(r) ==
    At(r, "tier", "anthropic") /\ Move(r, [req[r] EXCEPT !.model = Substituted(r), !.pc = "allow"])

MessagesAllow(r) == At(r, "allow", "anthropic") /\ CheckAllowed(r, "chain")

MessagesChain(r) == At(r, "chain", "anthropic") /\ Resolve(r)

MessagesNarrow(r) == At(r, "filter", "anthropic") /\ Narrow(r, Permitted(r))

MessagesRoute(r) ==
    /\ At(r, "route", "anthropic") /\ ~req[r].body.count
    /\ Route(r, Refused(req[r]), "admit")

\* Masking (which must succeed for a masked team), window, prices, PreCheck.
MessagesAdmit(r) ==
    /\ At(r, "admit", "anthropic")
    /\ Admit(r, MaskBody(r), req[r].masked \/ Key.masked, 1)

MessagesAttempt(r) ==
    /\ At(r, "attempt", "anthropic")
    /\ Attempt(r, 1) \/ Unreserved(r)

\* A transport error, 5xx or 429 is retried; a model that is not found only
\* where the next target serves another model.
MessagesRetriable(r, answer) ==
    /\ ~IsLast(r)
    /\ answer \in {"error", "rejected", "busy"} \/ (answer = "notfound" /\ CrossModelNext(r))

\* serveComplete: the reply is written, the circuit and the pin are told, then
\* usage and permit are settled.
MessagesComplete(r) ==
    /\ At(r, "call", "anthropic") /\ ~req[r].body.stream
    /\ \E answer \in Answers, exact \in Exact :
        IF MessagesRetriable(r, answer) THEN Retry(r, req[r].outcomes)
        ELSE End(r, answer = "ok" /\ exact, 1, answer \in {"ok", "silent"}, answer = "ok")

\* serveStream until Stream returns: any error before it is retried.
MessagesOpen(r) ==
    /\ At(r, "call", "anthropic") /\ req[r].body.stream
    /\ \/ Commit(r)
       \/ IF IsLast(r) THEN End(r, FALSE, 1, FALSE, FALSE) ELSE Retry(r, req[r].outcomes)

\* The events: the stream ends with message_stop and usage; or it breaks,
\* carries an error or ends early, and is settled as partial.
MessagesStream(r) ==
    /\ At(r, "stream", "anthropic")
    /\ \/ \E exact \in Exact : End(r, exact, 0, FALSE, TRUE)
       \/ End(r, FALSE, 0, FALSE, FALSE)

\* CountTokensHandler.count after its checks: a routing refusal is an estimate.
MessagesCountRoute(r) ==
    /\ At(r, "route", "anthropic") /\ req[r].body.count
    /\ Route(r, [Estimated(req[r]) EXCEPT !.started = 1, !.outcomes = 1], "count")

\* The anthropic provider is the only one that counts tokens.
MessagesCount(r) ==
    /\ At(r, "count", "anthropic")
    /\ CountUpstream(r, Provider(State(r), Target(r)).kind = "anthropic")

MessagesNext(r) ==
    \/ MessagesArrive(r) \/ MessagesTier(r) \/ MessagesAllow(r) \/ MessagesChain(r)
    \/ MessagesNarrow(r) \/ MessagesRoute(r) \/ MessagesAdmit(r) \/ MessagesAttempt(r)
    \/ MessagesComplete(r) \/ MessagesOpen(r) \/ MessagesStream(r)
    \/ MessagesCountRoute(r) \/ MessagesCount(r)
=============================================================================
