---------------------------- MODULE PolicyRules ----------------------------
(***************************************************************************)
(* GovernancePolicy documents (internal/policy): which ones a build takes, *)
(* what it turns them into, and how the limits of several documents that   *)
(* match one request are merged.                                           *)
(*                                                                         *)
(* A document is [api, kind, name, team, user, rules]; a rule is           *)
(* [name, fail, body], and body is a function from the rule kinds that are *)
(* set to their details.  Names are strings, "" is the empty one.  Money   *)
(* is in milliUSD on the wire and in microUSD inside; MaxInt64 stands for  *)
(* the largest int64.  An optional detail is a set of at most one member.  *)
(* A rule's reasons for rejection and contact hints are left out.          *)
(***************************************************************************)
EXTENDS Integers, FiniteSets, Sequences, SequencesExt, FiniteSetsExt, TLC

CONSTANTS MaxInt64,      \* the largest amount an int64 holds
          MaxRules       \* maxPolicyRules

ASSUME PolicyAssumption == MaxInt64 \in Nat /\ MaxRules \in Nat

MicroPerMilli   == 1000
MaxWireMilliUSD == MaxInt64 \div MicroPerMilli
LeaseGrantBP    == 10          \* basis points of the limit
DefaultRenew    == 10          \* seconds
MinRenew        == 1

\* Names that explicitModel refuses: blank ones and ones with a wildcard.
explicitModel(m) == m \notin {"", " ", "*", "a*"}

Has(r, kind) == kind \in DOMAIN r.body

-----------------------------------------------------------------------------
(* Budgets. *)

\* budgetFromV1Alpha1, the rejections.  renew is a duration in seconds when it
\* is given; text that is no duration is negative.
ValidBudget(r) ==
    LET b == r.body["budget"] IN
    IF b.unlimited
    THEN b.limit = 0 /\ ~b.hard /\ b.grant = 0 /\ b.renew = {} /\ b.period = ""
    ELSE /\ b.limit \in 1..MaxWireMilliUSD
         /\ b.hard => r.fail = "FailClosed"
         /\ b.period \in {"day", "month", ""}
         /\ b.grant \in 0..MaxWireMilliUSD
         /\ \A n \in b.renew : n >= MinRenew

\* budgetFromV1Alpha1, the conversion.
Budget(b) ==
    IF b.unlimited
    THEN [unlimited |-> TRUE, limit |-> 0, hard |-> FALSE, grant |-> 0, renew |-> 0,
          period |-> "month"]
    ELSE LET default == (b.limit * LeaseGrantBP) \div 10000
             grant   == IF b.grant = 0 THEN Max({default, 1}) ELSE b.grant
         IN  [unlimited |-> FALSE, limit |-> b.limit * MicroPerMilli, hard |-> b.hard,
              grant |-> grant * MicroPerMilli,
              renew |-> IF b.renew = {} THEN DefaultRenew ELSE Max(b.renew),
              period |-> IF b.period = "" THEN "month" ELSE b.period]

-----------------------------------------------------------------------------
(* Routing: cache affinity, a budget tier ladder, or a context rule. *)

\* A substitution map without empty names, self-maps and chains.
ValidSubstitution(sub) ==
    /\ sub # << >>
    /\ \A k \in DOMAIN sub : k # "" /\ sub[k] # "" /\ k # sub[k]
    /\ DOMAIN sub \cap Range(sub) = {}

\* The rule that budgetRef finds: the first of that name.
RefRule(doc, ref) ==
    LET at == {i \in DOMAIN doc.rules : doc.rules[i].name = ref}
    IN  {doc.rules[i] : i \in {j \in at : \A k \in at : j <= k}}

\* routingFromV1Alpha1, a ladder of budget tiers.
ValidTiers(doc, t) ==
    /\ t.strict => doc.team # "" /\ doc.user = ""
    /\ \E r \in RefRule(doc, t.ref) : Has(r, "budget") /\ ~r.body["budget"].unlimited
    /\ t.tiers # << >>
    /\ \A i \in DOMAIN t.tiers :
          /\ t.tiers[i].at \in 1..(IF t.strict THEN 100 ELSE 99)
          /\ i > 1 => t.tiers[i].at > t.tiers[i - 1].at
          /\ ValidSubstitution(t.tiers[i].sub)

\* contextFromV1Alpha1; times are in minutes.
Stability(s) ==
    [hold |-> IF s.hold = {} THEN 5 ELSE Max(s.hold),
     requests |-> IF s.requests = 0 THEN 3 ELSE s.requests,
     ttl |-> IF s.ttl = {} THEN 30 ELSE Max(s.ttl)]

ValidContext(r) ==
    \A c \in r.body["routing"].context :
       /\ r.fail = "FailOpen" /\ c.mode \in {"", "Shadow", "Enforce"}
       /\ c.from # {} /\ \A m \in c.from \cup {c.simple, c.complex} : explicitModel(m)
       /\ c.maxSimple > 0
       /\ IF c.normal = "" THEN c.maxNormal = 0
          ELSE explicitModel(c.normal) /\ c.maxNormal > c.maxSimple
       /\ \A s \in c.stability :
             LET t == Stability(s) IN
             t.hold \in 0..t.ttl /\ t.ttl \in 1..1440 /\ t.requests \in 1..10000
       /\ " " \notin c.keywords /\ "" \notin c.keywords

\* routingFromV1Alpha1: exactly one of three shapes.
ValidRouting(doc, r) ==
    LET t == r.body["routing"] IN
    /\ Cardinality({i \in 1..3 : <<t.affinity # "", t.tiers # {}, t.context # {}>>[i]}) = 1
    /\ t.affinity \in {"", "PreferAffinity", "PreferFallback"}
    /\ \A ladder \in t.tiers : ValidTiers(doc, ladder)
    /\ ValidContext(r)

-----------------------------------------------------------------------------
(* The other kinds and the document. *)

ValidSensitive(r) ==
    LET s == r.body["sensitiveData"] IN
    /\ r.fail = "FailClosed"
    /\ s.detected \in {"InternalOnly", "Block", "Mask"}
    /\ s.uninspectable \in {"InternalOnly", "Block"}
    /\ "InternalOnly" \in {s.detected, s.uninspectable} => s.internal # {}
    /\ \A m \in s.internal : explicitModel(m)

ValidRate(b) ==
    /\ b.rpm >= 0 /\ b.tpm >= 0
    /\ b.unlimited <=> (b.rpm = 0 /\ b.tpm = 0)

ValidQuota(r) ==
    LET q == r.body["tokenQuota"] IN
    q.limit > 0 /\ q.period \in {"day", "month"} /\ r.fail = "FailClosed"

ValidRule(doc, r) ==
    /\ r.name # "" /\ r.fail \in {"FailOpen", "FailClosed"}
    /\ Cardinality(DOMAIN r.body) = 1
    /\ Has(r, "budget") => ValidBudget(r)
    /\ Has(r, "routing") => ValidRouting(doc, r)
    /\ Has(r, "modelAccess") => r.body["modelAccess"] # {} /\ "" \notin r.body["modelAccess"]
    /\ Has(r, "rate") => ValidRate(r.body["rate"])
    /\ Has(r, "sensitiveData") => ValidSensitive(r)
    /\ Has(r, "tokenQuota") => ValidQuota(r)

Supports(api) == api = "v1alpha1"

\* FromV1Alpha1, the rejections.
ValidDoc(doc) ==
    /\ Supports(doc.api) /\ doc.kind = "GovernancePolicy"
    /\ doc.team # "" \/ doc.user # ""
    /\ Len(doc.rules) \in 1..MaxRules
    /\ \A i, j \in DOMAIN doc.rules : doc.rules[i].name = doc.rules[j].name => i = j
    /\ \A i \in DOMAIN doc.rules : ValidRule(doc, doc.rules[i])

\* FromV1Alpha1, the conversion: only budgets change.
FromV1Alpha1(doc) ==
    [doc EXCEPT !.rules =
       [i \in DOMAIN @ |->
          IF Has(@[i], "budget")
          THEN [@[i] EXCEPT !.body = "budget" :> Budget(@["budget"])]
          ELSE @[i]]]

TeamOnly(p) == p.team # "" /\ p.user = ""

StrictTiers(r) == Has(r, "routing") /\ \E t \in r.body["routing"].tiers : t.strict

\* What a document asks to be routed to.
Targets(r) ==
    IF Has(r, "sensitiveData") THEN r.body["sensitiveData"].internal
    ELSE IF Has(r, "routing")
    THEN UNION {{c.simple, c.complex, c.normal} \ {""} : c \in r.body["routing"].context}
         \cup UNION {UNION {Range(t.tiers[i].sub) : i \in DOMAIN t.tiers}
                     : t \in r.body["routing"].tiers}
    ELSE {}

\* checkEnforceable: what this data plane can do about the rules of a policy.
\* routed is the set of models with a route and a price, shared whether there
\* is a shared authority.
checkEnforceable(p, routed, shared) ==
    \A i \in DOMAIN p.rules :
       LET r == p.rules[i] IN
       /\ Has(r, "tokenQuota") => shared
       /\ Targets(r) \subseteq routed
       /\ Has(r, "routing") => r.body["routing"].affinity = ""
       /\ (StrictTiers(r) \/ Has(r, "rate")) => TeamOnly(p) \/ shared

\* hasMandatoryRouting: rules whose loss must deny, not allow.
hasMandatoryRouting(p) ==
    \E i \in DOMAIN p.rules :
       \/ Has(p.rules[i], "tokenQuota") \/ Has(p.rules[i], "sensitiveData")
       \/ StrictTiers(p.rules[i])

\* IsRoutingOnlyBudget: a soft limit that only switches strict tiers.
IsRoutingOnlyBudget(p, name) ==
    /\ name # "" /\ TeamOnly(p)
    /\ \E r \in RefRule(p, name) :
          Has(r, "budget") /\ ~r.body["budget"].hard /\ r.body["budget"].limit > 0
    /\ \E i \in DOMAIN p.rules :
          StrictTiers(p.rules[i]) /\ \E t \in p.rules[i].body["routing"].tiers : t.ref = name

\* Subject.matches.
Matches(sub, team, user) ==
    sub.team \in {"", team} /\ (sub.user = "" \/ (user # "" /\ sub.user = user))

-----------------------------------------------------------------------------
(* Merging.  A window is [limit, hard], where limit 0 is no limit. *)

NoWindow == [limit |-> 0, hard |-> FALSE]

\* narrow, for one window.
Narrow(u, o) ==
    CASE o.limit = 0 -> u
      [] u.limit = 0 \/ o.limit < u.limit -> o
      [] o.limit = u.limit /\ o.hard -> [u EXCEPT !.hard = TRUE]
      [] OTHER -> u

minNonZero(a, b) == IF a = 0 THEN b ELSE IF b = 0 THEN a ELSE Min({a, b})

BudgetIn(b, period) ==
    IF b.period = period THEN [limit |-> b.limit, hard |-> b.hard] ELSE NoWindow

NoTeamLimits ==
    [rpm |-> 0, tpm |-> 0, month |-> NoWindow, day |-> NoWindow,
     routeMonth |-> 0, routeDay |-> 0]

\* Mutant: a limit that only switches tiers caps the team too.
CapRule(tl, p, r) ==
    IF Has(r, "rate")
    THEN [tl EXCEPT !.rpm = minNonZero(@, r.body["rate"].rpm),
                    !.tpm = minNonZero(@, r.body["rate"].tpm)]
    ELSE IF ~Has(r, "budget") THEN tl
    ELSE [tl EXCEPT !.month = Narrow(@, BudgetIn(r.body["budget"], "month")),
                    !.day   = Narrow(@, BudgetIn(r.body["budget"], "day"))]

\* mergeTeamLimits, one rule.
FoldRule(tl, p, r) ==
    IF Has(r, "rate")
    THEN [tl EXCEPT !.rpm = minNonZero(@, r.body["rate"].rpm),
                    !.tpm = minNonZero(@, r.body["rate"].tpm)]
    ELSE IF ~Has(r, "budget") THEN tl
    ELSE LET b == r.body["budget"] IN
         IF IsRoutingOnlyBudget(p, r.name)
         THEN IF b.period = "day"
              THEN [tl EXCEPT !.routeDay = minNonZero(@, b.limit)]
              ELSE [tl EXCEPT !.routeMonth = minNonZero(@, b.limit)]
         ELSE [tl EXCEPT !.month = Narrow(@, BudgetIn(b, "month")),
                         !.day   = Narrow(@, BudgetIn(b, "day"))]

\* The rules of some policies, each with its policy, in order.
RulesOf(policies) ==
    FlattenSeq([i \in DOMAIN policies |->
                  [j \in DOMAIN policies[i].rules |-> <<policies[i], policies[i].rules[j]>>]])

\* mergeTeamLimits and TeamLimits: one entry if some rule contributes.
TeamLimits(policies, team) ==
    LET rules == RulesOf(SelectSeq(policies, LAMBDA p : p.team = team /\ TeamOnly(p)))
    IN  IF \E i \in DOMAIN rules : Has(rules[i][2], "rate") \/ Has(rules[i][2], "budget")
        THEN {FoldLeft(LAMBDA tl, x : FoldRule(tl, x[1], x[2]), NoTeamLimits, rules)}
        ELSE {}

\* mergeUserLimits, one subject.
UserEntry(policies, team, user) ==
    LET rules == SelectSeq(RulesOf(SelectSeq(policies,
                              LAMBDA p : p.team = team /\ p.user = user)),
                           LAMBDA x : Has(x[2], "budget"))
        In(period) == FoldLeft(LAMBDA w, x : Narrow(w, BudgetIn(x[2].body["budget"], period)),
                               NoWindow, rules)
    IN  IF rules = << >> THEN {} ELSE {[month |-> In("month"), day |-> In("day")]}

\* UserLimits: the entry of the user in this team and the one in any team.
UserLimits(policies, team, user) ==
    IF user = "" THEN {}
    ELSE LET scoped == UserEntry(policies, team, user)
             global == UserEntry(policies, "", user)
         IN  IF scoped # {} /\ global # {}
             THEN {[month |-> Narrow(s.month, g.month), day |-> Narrow(s.day, g.day)]
                   : s \in scoped, g \in global}
             ELSE scoped \cup global
=============================================================================
