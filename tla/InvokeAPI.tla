------------------------------ MODULE InvokeAPI ------------------------------
(***************************************************************************)
(* The Bedrock ingress (internal/server/bedrockapi): the two invoke        *)
(* endpoints (InvokeHandler) and count-tokens (CountTokensHandler).  It    *)
(* resolves names by itself and serves only some kinds of provider.        *)
(***************************************************************************)
EXTENDS Handlers

ServesBedrock(st, t) == Provider(st, t).kind \in {"bedrock", "openai_compatible"}

\* resolveModel: a model, its fallback, or the model whose upstream has the
\* name asked for.
ResolveBedrock(st, asked) ==
    LET c == Canonical(st, asked)
        fb == FallbackFor(st, c)
        offers(m) == \E i \in DOMAIN Targets(st, m) :
                        /\ Targets(st, m)[i].upstream = asked
                        /\ ServesBedrock(st, Targets(st, m)[i])
        by == SelectSeq(Order, offers)
    IN  IF ResolveChain(st, {}, c) # <<>> THEN c
        ELSE IF Routed(st, fb) THEN fb
        ELSE IF by # <<>> THEN Head(by) ELSE None

InvokeArrive(r) ==
    \E body \in Arrivals(r, "bedrock") :
        Arrive(r, body, ResolveBedrock(Topology, body.asks), IF body.count THEN "allow" ELSE "tier")

\* servableOnBedrockIngress, for the chain of the tier's model.
ServableOnBedrockIngress(st, chain) == \E i \in DOMAIN chain : ServesBedrock(st, chain[i])

\* A tier's model that no provider of this ingress serves is ignored.
InvokeTier(r) ==
    LET served == Substituted(r)
    IN  /\ At(r, "tier", "bedrock")
        /\ Move(r, [req[r] EXCEPT !.pc = "allow",
                        !.model = IF ServableOnBedrockIngress(Topology, ResolveChain(Topology, OpenCircuits, served))
                                  THEN served ELSE @])

InvokeAllow(r) == At(r, "allow", "bedrock") /\ CheckAllowed(r, "chain")

InvokeChain(r) == At(r, "chain", "bedrock") /\ Resolve(r)

InvokeNarrow(r) ==
    /\ At(r, "filter", "bedrock")
    /\ Narrow(r, SelectSeq(Permitted(r), LAMBDA t : ServesBedrock(State(r), t)))

InvokeRoute(r) ==
    /\ At(r, "route", "bedrock") /\ ~req[r].body.count
    /\ Route(r, Refused(req[r]), "admit")

InvokeAdmit(r) ==
    /\ At(r, "admit", "bedrock")
    /\ Admit(r, MaskBody(r), req[r].masked \/ Key.masked, 1)

InvokeAttempt(r) ==
    /\ At(r, "attempt", "bedrock")
    /\ Attempt(r, 1) \/ Unreserved(r)

InvokeRetriable(r, answer) ==
    /\ ~IsLast(r)
    /\ answer \in {"error", "rejected", "busy"} \/ (answer = "notfound" /\ CrossModelNext(r))

\* serveComplete: usage and permit are settled before the reply is written.
InvokeComplete(r) ==
    /\ At(r, "call", "bedrock") /\ ~req[r].body.stream
    /\ \E answer \in Answers, exact \in Exact :
        IF InvokeRetriable(r, answer) THEN Retry(r, req[r].outcomes)
        ELSE End(r, answer = "ok" /\ exact, 1, answer \in {"ok", "silent"}, answer = "ok")

InvokeOpen(r) ==
    /\ At(r, "call", "bedrock") /\ req[r].body.stream
    /\ \/ Commit(r)
       \/ IF IsLast(r) THEN End(r, FALSE, 1, FALSE, FALSE) ELSE Retry(r, req[r].outcomes)

\* The events, and partialFinish.
InvokeStream(r) ==
    /\ At(r, "stream", "bedrock")
    /\ \/ \E exact \in Exact : End(r, exact, 0, FALSE, TRUE)
       \/ End(r, FALSE, 0, FALSE, FALSE)

InvokeCountRoute(r) ==
    /\ At(r, "route", "bedrock") /\ req[r].body.count
    /\ Route(r, [Estimated(req[r]) EXCEPT !.started = 1, !.outcomes = 1], "count")

\* No provider of this ingress counts tokens: the estimate.
InvokeCount(r) ==
    At(r, "count", "bedrock") /\ Move(r, [Estimated(req[r]) EXCEPT !.started = 1, !.outcomes = 1])

InvokeNext(r) ==
    \/ InvokeArrive(r) \/ InvokeTier(r) \/ InvokeAllow(r) \/ InvokeChain(r) \/ InvokeNarrow(r)
    \/ InvokeRoute(r) \/ InvokeAdmit(r) \/ InvokeAttempt(r)
    \/ InvokeComplete(r) \/ InvokeOpen(r) \/ InvokeStream(r)
    \/ InvokeCountRoute(r) \/ InvokeCount(r)
=============================================================================
