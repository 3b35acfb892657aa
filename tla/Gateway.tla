------------------------------- MODULE Gateway -------------------------------
(***************************************************************************)
(* One mayu gateway: the four ingresses over the circuit breakers and      *)
(* session pins they share, and what changes under them: topology reloads  *)
(* (cmd/mayu), policies, budget tiers, time, clients that go away and      *)
(* providers that panic.                                                   *)
(***************************************************************************)
EXTENDS MessagesAPI, ChatAPI, InvokeAPI, ResponsesAPI

Running(r) == req[r].pc \notin {"idle", "done", "panicked"}

\* The client goes away.
Cancel(r) ==
    /\ world.cancels
    /\ Running(r)
    /\ ~req[r].cancelled
    /\ Become(r, [req[r] EXCEPT !.cancelled = TRUE])
    /\ UNCHANGED <<world, env, shared, wins>>

\* A provider panics: only the deferred calls run.
Panic(r) ==
    /\ world.panics
    /\ req[r].pc \in {"call", "stream"}
    /\ Become(r, [Unwound(req[r]) EXCEPT !.pc = "panicked"])
    /\ UNCHANGED <<world, env, shared, wins>>

-----------------------------------------------------------------------------
(* The environment                                                         *)

\* reloadLocked and writeMutation publish the next topology, then prune the
\* breakers; reloadMu keeps two reloads apart.
Publish ==
    /\ pruned
    /\ gen < Len(world.topologies)
    /\ gen' = gen + 1
    /\ pruned' = FALSE
    /\ UNCHANGED <<world, pol, tier, clock, shared, req, wins>>

RetainBreakers ==
    /\ ~pruned
    /\ pruned' = TRUE
    /\ breaker' = Retained({Topology.providers[n].identity : n \in DOMAIN Topology.providers})
    /\ UNCHANGED <<world, gen, pol, tier, clock, pins, revision, req, wins>>

ChangePolicy ==
    /\ pol < Len(world.policies)
    /\ pol' = pol + 1
    /\ UNCHANGED <<world, gen, pruned, tier, clock, shared, req, wins>>

ChangeTier ==
    /\ tier < Len(world.tiers)
    /\ tier' = tier + 1
    /\ UNCHANGED <<world, gen, pruned, pol, clock, shared, req, wins>>

Tick ==
    /\ clock < world.end
    /\ clock' = clock + 1
    /\ UNCHANGED <<world, gen, pruned, pol, tier, shared, req, wins>>

Init ==
    /\ world \in Worlds
    /\ gen = 1 /\ pruned = TRUE /\ pol = 1 /\ tier = 1 /\ clock = 0
    /\ breaker = <<>>
    /\ pins = <<>>
    /\ revision = 0
    /\ req = [r \in Requests |-> Idle]
    /\ wins = {}

Handle(r) ==
    \/ MessagesNext(r) \/ ChatNext(r) \/ InvokeNext(r) \/ ResponsesNext(r)
    \/ LookupRules(r) \/ Unpin(r) \/ Cancel(r) \/ Panic(r)

Next ==
    \/ \E r \in Requests : Handle(r)
    \/ Publish \/ RetainBreakers \/ ChangePolicy \/ ChangeTier \/ Tick

Spec == Init /\ [][Next]_vars

-----------------------------------------------------------------------------
(* Properties                                                              *)

\* Whatever path chose a target (the requested chain, a fallback, internal
\* recovery, a context rule, a cost ceiling or a session pin), and whatever was
\* reloaded meanwhile, a provider is only called if, under the policies at the
\* routing decision and the request's own topology, the key and every policy
\* permit its model, its region is one of the team's, no privacy rule blocks
\* the request, and an InternalOnly rule that applies is respected.  A cost
\* ceiling in force at that decision names the only model attempted, pinned or
\* not; the Responses ingress also respects the one in force at each attempt.
\* And a body in which personal data was found reaches a provider masked
\* whenever the team's masking or a Mask rule asks for it, on every attempt.
AttemptsPermitted ==
    \A r \in Requests : \A i \in DOMAIN req[r].tries :
        LET q == req[r]
            st == State(r)
            t == q.tries[i].target
            named(n) == BudgetTargets(st, world.tiers[n].ceilings, Canonical(st, q.requested))
            times == {q.routed.tier} \cup (IF Ingress(r) = "responses" THEN {q.tries[i].tier} ELSE {})
            mask == Key.masked \/ \E x \in q.rules : x.kind = "privacy" /\ x.onDetected = "Mask"
        IN  /\ mask => q.tries[i].clean
            /\ \A n \in times : named(n) # {} => named(n) = {t.model}
            /\ Allows(Key, world.policies[q.routed.pol], st, t.model)
            /\ Key.regions # {} => st.providers[t.provider].region \in Key.regions
            /\ \A rule \in {x \in q.rules : x.kind = "privacy"} :
                 LET asked == (IF q.body.detected THEN {rule.onDetected} ELSE {})
                                \cup (IF q.body.complete THEN {} ELSE {rule.onUninspectable})
                 IN  /\ "Block" \notin asked
                     /\ "InternalOnly" \in asked =>
                            /\ ~q.body.remote
                            /\ st.providers[t.provider].boundary = "internal"
                            /\ t.model \in {Canonical(st, n) : n \in rule.internal}

\* Every attempt's escrow permit is finished exactly once, however many of
\* SettleBudget, the loop and the deferred calls reach it; before the next
\* attempt starts; and a refund is only proved by the last attempt's answer.
PermitsFinishOnce ==
    \A r \in Requests : \A i \in DOMAIN req[r].tries :
        LET t == req[r].tries[i]
            over == i < req[r].at \/ ~Running(r)
        IN  /\ t.finishes = IF t.held /\ over THEN 1 ELSE 0
            /\ t.proved => i = req[r].at /\ req[r].pc = "done" /\ ~req[r].refused

\* The client gets exactly one reply: a retry never follows a committed
\* response, and no path ends without one (but a panic).  And
\* the audit chain accounts for every request that could be read: one record
\* with an outcome for each request (for each attempt on the Responses ingress,
\* and for the refusal, if any), unless a provider panicked.  A token count is
\* never refused and leaves a pair of records once it has been routed.
AnsweredAndAudited ==
    \A r \in Requests :
        LET q == req[r]
        IN  /\ q.replies <= 1 /\ (q.pc = "done" => q.replies = 1)
            /\ q.pc \in {"attempt", "call"} => q.replies = 0
            /\ q.pc = "done" /\ q.body.readable =>
                CASE q.body.count -> ~q.refused /\ q.started = q.outcomes /\ Len(q.tries) <= q.started
                  [] Ingress(r) = "responses" ->
                        /\ q.started = Len(q.tries)
                        /\ q.outcomes = Len(q.tries) + (IF q.refused THEN 1 ELSE 0)
                  [] OTHER -> q.outcomes = 1 /\ (q.tries # <<>> => q.started = 1)

\* A request that was routed before a session's live pin was last written never
\* overwrites that pin: a late success of an old request moves no session back.
StaleNeverOverwrites ==
    [][\A w \in wins' \ wins :
        w.key \in DOMAIN pins /\ clock < pins[w.key].expires
            => pins[w.key].revision <= req[w.by].routed.rev]_vars

=============================================================================
