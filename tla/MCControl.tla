----------------------------- MODULE MCControl -----------------------------
(***************************************************************************)
(* Small instances of the control side, one part per behaviour: policy     *)
(* files of a single gateway (LocalPolicies), policies that come from a    *)
(* control plane (PolicyChannel) and budget leases (LeaseLedger).          *)
(***************************************************************************)
EXTENDS LocalPolicies

VARIABLES part,
          channel, table, seeded, wireFiles, replica, writer, net, plane, heard, past, gone,
          scene, rules, now, window, book, seen, latch, gw, lapsed, forgot

localVars   == <<world, files, mtime, reading, snap, raced>>
channelVars == <<channel, table, seeded, wireFiles, replica, writer, net, plane, heard, past, gone>>
leaseVars   == <<scene, rules, now, window, book, seen, latch, gw, lapsed, forgot>>
allVars     == <<part, localVars, channelVars, leaseVars>>

-----------------------------------------------------------------------------
(* Documents. *)

Doc(name, team, user, list) ==
    [api |-> "v1alpha1", kind |-> "GovernancePolicy", name |-> name, team |-> team,
     user |-> user, rules |-> list]
Rule(name, fail, kind, body) == [name |-> name, fail |-> fail, body |-> (kind :> body)]

Money(name, limit, hard, period) ==
    Rule(name, "FailClosed", "budget",
         [unlimited |-> FALSE, limit |-> limit, hard |-> hard, grant |-> 0, renew |-> {},
          period |-> period])
Private(model) ==
    Rule("s", "FailClosed", "sensitiveData",
         [detected |-> "InternalOnly", uninspectable |-> "Block", internal |-> {model}])
Context(model, hold, ttl) ==
    Rule("c", "FailOpen", "routing",
         [affinity |-> "", tiers |-> {},
          context |-> {[mode |-> "Enforce", from |-> {"m1"}, simple |-> model,
                        complex |-> "m1", normal |-> "", maxSimple |-> 1, maxNormal |-> 0,
                        stability |-> {[hold |-> {hold}, requests |-> 0, ttl |-> ttl]},
                        keywords |-> {}]}])
Ladder(ref, strict, tiers) ==
    Rule("t", "FailOpen", "routing",
         [affinity |-> "", context |-> {},
          tiers |-> {[ref |-> ref, strict |-> strict, tiers |-> tiers]}])
Step(at, sub) == [at |-> at, sub |-> sub]
RateOf(rpm) == Rule("r", "FailOpen", "rate", [unlimited |-> rpm = 0, rpm |-> rpm, tpm |-> 0])
Quota(n) == Rule("q", "FailClosed", "tokenQuota", [limit |-> n, period |-> "day"])

\* Files an operator may save: documents of one rule over the edges of its
\* fields, ladders, and pairs of documents whose limits are merged.
LocalWorlds ==
    LET Budgets == {[Money("b", limit, hard, "") EXCEPT !.fail = fail, !.body["budget"].grant = grant]
                    : limit \in {-1, 0, 1, 5, 999, 1000}, hard \in BOOLEAN,
                      fail \in {"FailOpen", "FailClosed"}, grant \in {0, 2}}
        Ladders == {Ladder("b", strict, <<Step(50, sub), Step(at, sub)>>)
                    : strict \in BOOLEAN, at \in {40, 50, 99, 100},
                      sub \in {"m1" :> "m2", "m1" :> "m1", ("m1" :> "m2") @@ ("m2" :> "m1")}}
        Contexts == {Context("m2", hold, ttl) : hold \in {0, 5, 31}, ttl \in {{}, {5}}}
        Others == {Private("m1"), Private("*"), Quota(5), RateOf(0), RateOf(7)}
        Singles == {<<Doc("a", "t1", "", <<r>>)>> : r \in Budgets \cup Contexts \cup Others}
                   \cup {<<Doc("a", "t1", "", <<Money("b", 5, FALSE, "day"), t>>)>> : t \in Ladders}
        Pairs == {<<Doc("a", s, "", <<Money("b", x, h, d), Money("c", 7, FALSE, "day")>>),
                    Doc(n, "t1", u, <<Money("b", y, ~h, "month"), Money("c", 3, h, "day")>>)>>
                  : s \in {"t1"}, x \in {4, 5}, y \in {4, 6}, h \in BOOLEAN,
                    d \in {"day", "month"}, n \in {"a", "b"}, u \in {"", "u1"}}
        Persons == {<<Doc("a", t, "u1", <<Money("b", x, h, d)>>), Doc("b", "", "u1", <<Money("b", 5, ~h, e)>>)>>
                    : t \in {"t1", ""}, x \in {4, 5}, h \in BOOLEAN, d, e \in {"day", "month"}}
        W(edits, saves) ==
           [first |-> <<Doc("a", "t1", "", <<RateOf(3)>>)>>, edits |-> edits, saves |-> saves,
            routed |-> {"m1", "m2"}]
        Bad == Doc("", "t1", "", <<RateOf(3)>>)
    IN  {W(Singles \cup Pairs \cup Persons, 1),
         W({<<Doc("a", "t1", "", <<Quota(5)>>)>>, <<Doc("a", "t1", "", <<RateOf(4)>>)>>,
            <<Doc("a", "t1", "", <<RateOf(4)>>), Bad>>, << >>}, 3)}

LocalBases ==
    {[rpm |-> 0, tpm |-> 0, month |-> m, day |-> d]
     : m, d \in {[limit |-> 0, block |-> FALSE], [limit |-> 4500, block |-> TRUE],
                 [limit |-> 9000, block |-> FALSE]}}
LocalLeases ==
    {{}} \cup {{[allowance |-> a, hard |-> h]} : a \in {0, 4500, 9000}, h \in BOOLEAN}

\* The gateways of the channel route m1 and not m2.
ChannelWorlds ==
    LET A1 == Doc("a", "t1", "", <<Private("m1")>>)
        A2 == Doc("a", "t1", "", <<Private("m2")>>)
        A3 == Doc("a", "t1", "", <<Context("m2", 0, {})>>)
        B  == Doc("b", "t1", "u1", <<Quota(5)>>)
        W(st, auth, first, ws, ds, ps, rs, ops) ==
           [store |-> st, authority |-> auth, shared |-> auth, files |-> first, writes |-> ws,
            deletes |-> ds, routed |-> {"m1"}, planes |-> ps, replicas |-> rs, writers |-> ops]
    IN  {W(TRUE, FALSE, <<A1>>, {A2, A3}, {"a"}, {"p"}, {"r1"}, {"w1", "w2"}),
         W(TRUE, TRUE, <<A2>>, {A1, B}, {"a", "b"}, {"p"}, {"r1"}, {"w1", "w2"}),
         W(TRUE, FALSE, <<B>>, {A1}, {"b"}, {}, {"r1", "r2"}, {"w1", "w2", "w3"}),
         W(FALSE, FALSE, <<A1>>, {A2, A3}, {"a"}, {"p"}, {"r1"}, {})}

\* Rules: a hard cap, an edit of it, a ladder made shorter, two strict
\* ladders that disagree.
LeaseScenes ==
    LET B(l, g, hard, period, only, ladder, strict) ==
           [limit |-> l, grant |-> g, hard |-> hard, period |-> period, routingOnly |-> only,
            ladder |-> ladder, strict |-> strict]
        Hard(l)   == B(l, 1, TRUE, "month", FALSE, << >>, FALSE)
        T(at, m)  == Step(at, "big" :> m)
        Tiered(s) == B(2, 1, TRUE, "month", FALSE, s, FALSE)
        Strict(m, period) == B(2, 1, FALSE, period, TRUE, <<T(50, m)>>, TRUE)
    IN  {[rules |-> <<Hard(2)>>, edits |-> {}, ids |-> {"p", "q"}, roll |-> {}, time |-> 3],
         [rules |-> <<Hard(1)>>, edits |-> {<<Hard(2)>>}, ids |-> {"p", "q"}, roll |-> {{"day"}},
          time |-> 0],
         [rules |-> <<Tiered(<<T(50, "mid"), T(90, "low")>>)>>,
          edits |-> {<<Tiered(<<T(50, "mid")>>)>>}, ids |-> {"p"},
          roll |-> {{"day", "month"}}, time |-> 2],
         [rules |-> <<Strict("mid", "day"), Strict("low", "month")>>, edits |-> {},
          ids |-> {"p"}, roll |-> {{"day"}}, time |-> 0]}

Channel == INSTANCE PolicyChannel WITH Worlds <- ChannelWorlds, MaxNet <- 2,
              NameOrder <- <<"a", "b">>, world <- channel, files <- wireFiles
Lease == INSTANCE LeaseLedger WITH Scenes <- LeaseScenes, Lasts <- 1, PruneAfter <- 2, MaxSpend <- 3

-----------------------------------------------------------------------------
LocalOff ==
    /\ world = [first |-> << >>, edits |-> {}, saves |-> 0, routed |-> {}]
    /\ files = << >> /\ mtime = 0 /\ reading = {} /\ raced = FALSE
    /\ snap = [policies |-> << >>, mtime |-> 0]
ChannelOff ==
    /\ channel = [planes |-> {}, replicas |-> {}, writers |-> {}, store |-> FALSE, authority |-> FALSE]
    /\ table = << >> /\ seeded = FALSE /\ wireFiles = << >> /\ replica = << >> /\ writer = << >>
    /\ net = {} /\ plane = << >> /\ heard = << >> /\ past = {} /\ gone = {}
LeaseOff ==
    /\ scene = [ids |-> {}, time |-> 0, edits |-> {}, rules |-> << >>]
    /\ rules = << >> /\ now = 0 /\ window = << >> /\ book = << >> /\ seen = << >> /\ latch = << >>
    /\ gw = << >> /\ lapsed = {} /\ forgot = {}

MCInit ==
    \/ part = "local" /\ Init /\ ChannelOff /\ LeaseOff
    \/ part = "channel" /\ LocalOff /\ Channel!Init /\ LeaseOff
    \/ part = "lease" /\ LocalOff /\ ChannelOff /\ Lease!Init

MCNext ==
    \/ part = "local" /\ Next /\ UNCHANGED <<part, channelVars, leaseVars>>
    \/ part = "channel" /\ Channel!Next /\ UNCHANGED <<part, localVars, leaseVars>>
    \/ part = "lease" /\ Lease!Next /\ UNCHANGED <<part, localVars, channelVars>>

MCSpec == MCInit /\ [][MCNext]_allVars /\ Channel!Fairness

-----------------------------------------------------------------------------
(* Properties of the instances. *)

\* A gateway enforces the set it says it applied, or denies (ApplyWire).
AppliedIsEnforced == Channel!AppliedIsEnforced

\* Replicas serve committed documents; deleted ones stay deleted (Seed).
StoreHonoured == Channel!StoreHonoured

\* Gateways come to apply the set in the table (Run, syncOnce).
Converges == Channel!Converges

\* The set of a successful answer is in force afterwards (SyncResponse).
HeartbeatInstalls == Channel!HeartbeatInstalls

\* A hard limit is kept up to grants of lapsed gateways (handleSync).
HardLimitKept == Lease!HardLimitKept

\* Tiers that exist only rise within a window (Latch.Evaluate).
TierMonotone == Lease!TierMonotone
=============================================================================
