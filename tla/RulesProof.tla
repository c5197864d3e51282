----------------------------- MODULE RulesProof -----------------------------
(* What the algorithms of Policy, Requests and Statistics that need no      *)
(* induction compute for every input, and the invariants of MCRules that    *)
(* follow, from FiguresProof too.                                           *)
EXTENDS MCRules, FiguresProof

-----------------------------------------------------------------------------
(* Policy: settings.                                                        *)

\* What is_in_limit looks at.
LimitedBy == [meetings : Nat, attendees : Nat, meetingLimit : Nat, attendeeLimit : Nat]

(***************************************************************************)
(* Whatever the limits and the counts are, a meeting is created only if it *)
(* exceeds no limit of the secret and, where the secret has none, none of  *)
(* the tenant; and it is created if it exceeds none (api.py:446-473).      *)
(***************************************************************************)
THEOREM LimitsAlwaysBind ==
    ASSUME NEW t \in LimitedBy, NEW s \in LimitedBy, NEW own \in BOOLEAN
    PROVE  LimitsBind(t, s, own)
BY DEF LimitsBind, LimitHit, Hit, LimitedBy, Room, MeetingRoom, AttendeeRoom

(***************************************************************************)
(* Whatever the hold times are, a recording goes when the first of the two *)
(* that are set is over (models.py:231-236).                               *)
(***************************************************************************)
THEOREM HoldTimesAlwaysHold ==
    ASSUME NEW age \in Nat, NEW s \in Nat, NEW t \in Nat
    PROVE  HoldTimesHold(age, s, t)
<1>1. HoldTime(s, t) = IF 0 \in {s, t} THEN (IF s >= t THEN s ELSE t)
                       ELSE (IF s <= t THEN s ELSE t)
  BY MinOfTwo, MaxOfTwo DEF HoldTime
<1>2. QED
  BY <1>1 DEF HoldTimesHold, Expired

(***************************************************************************)
(* addsecrets gives every sub id of the range a secret, whichever way      *)
(* round it is written, and changes none that is there, however many there *)
(* are (addsecrets.py:32-69).                                              *)
(***************************************************************************)
THEOREM SecretsAreAlwaysKept ==
    ASSUME NEW secrets, NEW n \in Nat, NEW m \in Nat,
           secrets = [i \in DOMAIN secrets |-> secrets[i]]
    PROVE  SecretsAreKept(secrets, n, m)
<1> DEFINE InRange == {i \in 0 .. MaxSubId : (n <= i /\ i <= m) \/ (m <= i /\ i <= n)}
           once == AddSecrets(secrets, n, m, "new")
<1>1. SubIds(n, m) = InRange
  <2> DEFINE lo == IF n <= m THEN n ELSE m
             hi == IF n >= m THEN n ELSE m
  <2>1. Min({n, m}) = lo /\ Max({n, m}) = hi
    BY MinOfTwo, MaxOfTwo
  <2>2. Min({hi, MaxSubId}) = IF hi <= MaxSubId THEN hi ELSE MaxSubId
    BY MinOfTwo, MaxSubIdAssumption
  <2>3. SubIds(n, m) = IF lo > MaxSubId THEN {}
                       ELSE lo .. (IF hi <= MaxSubId THEN hi ELSE MaxSubId)
    BY <2>1, <2>2, MaxSubIdAssumption DEF SubIds
  <2>4. QED
    BY <2>3, MaxSubIdAssumption
<1>2. SubIds(m, n) = InRange
  <2>1. {m, n} = {n, m}
    OBVIOUS
  <2>2. QED
    BY <1>1, <2>1 DEF SubIds
<1> HIDE DEF InRange
<1>3. /\ DOMAIN once = DOMAIN secrets \cup InRange
      /\ \A i \in DOMAIN secrets : once[i] = secrets[i]
  BY <1>1 DEF AddSecrets
<1>4. AddSecrets(once, m, n, "newer") = once
  <2>1. once = [i \in DOMAIN once |-> once[i]]
    BY DEF AddSecrets
  <2>2. DOMAIN once \cup SubIds(m, n) = DOMAIN once
    BY <1>2, <1>3
  <2> HIDE DEF once
  <2>3. QED
    BY <2>1, <2>2 DEF AddSecrets
<1>5. QED
  BY <1>3, <1>4 DEF SecretsAreKept, InRange

-----------------------------------------------------------------------------
(* Policy: parameters.                                                      *)

\* The parameters of a call, and the Parameter rows of a tenant: "client" and
\* "tenant" stand for the values they give.
CallOf(params) == [endpoint : {"create", "join"}, params : {params}, created : BOOLEAN]

Modes == {"BLOCK", "SET", "OVERRIDE"}

TenantWith(rules) == [rules : {rules}, css : BOOLEAN, logo : BOOLEAN, record : BOOLEAN]

\* The parameters of f that have the value v.
Having(v, f) == {p \in DOMAIN f : f[p] = v}

\* The tenant decides the parameters T, the client those in C.
Decided(f, T, C) == Having("tenant", f) = T /\ Having("client", f) = C

LEMMA WithHas ==
    ASSUME NEW p, NEW v, NEW f, NEW T, NEW C, Decided(f, T, C),
           v \notin {"tenant", "client"}
    PROVE  /\ Decided(With(p, v, f), T \ {p}, C \ {p})
           /\ DOMAIN With(p, v, f) = DOMAIN f \cup {p}
           /\ With(p, v, f)[p] = v
BY DEF With, Having, Decided

LEMMA DefaultHas ==
    ASSUME NEW p, NEW v, NEW f, NEW T, NEW C, Decided(f, T, C),
           v \notin {"tenant", "client"}
    PROVE  /\ Decided(Default(p, v, f), T, C)
           /\ DOMAIN Default(p, v, f) = DOMAIN f \cup {p}
<1>1. CASE p \in DOMAIN f
  BY <1>1 DEF Default
<1>2. CASE p \notin DOMAIN f
  <2>1. T \ {p} = T /\ C \ {p} = C
    BY <1>2 DEF Decided, Having
  <2>2. Default(p, v, f) = With(p, v, f)
    BY <1>2 DEF Default
  <2>3. /\ Decided(With(p, v, f), T \ {p}, C \ {p})
        /\ DOMAIN With(p, v, f) = DOMAIN f \cup {p}
    BY WithHas
  <2>4. QED
    BY <2>1, <2>2, <2>3
<1>3. QED
  BY <1>1, <1>2

LEMMA WithoutHas ==
    ASSUME NEW p, NEW f, NEW T, NEW C, Decided(f, T, C)
    PROVE  /\ Decided(Without(p, f), T \ {p}, C \ {p})
           /\ DOMAIN Without(p, f) = DOMAIN f \ {p}
BY DEF Without, Having, Decided

\* The loop over the tenant's rows.
Forced(call, rules) ==
    {p \in Ruled(call, rules) :
        \/ rules[p].mode = "OVERRIDE"
        \/ rules[p].mode = "SET" /\ p \notin DOMAIN call.params}

Kept(call, rules) ==
    {p \in DOMAIN call.params : p \in Ruled(call, rules) => rules[p].mode = "SET"}

LEMMA RulesHave ==
    ASSUME NEW P, NEW params \in [P -> {"client"}], NEW call \in CallOf(params),
           NEW R, NEW rules \in [R -> [mode : Modes, value : {"tenant"}]]
    PROVE  Decided(RulesApplied(call, rules), Forced(call, rules), Kept(call, rules))
<1> DEFINE ruled == Ruled(call, rules)
           blocked == {p \in ruled : rules[p].mode = "BLOCK"}
           forced == {p \in ruled : rules[p].mode = "OVERRIDE"}
                     \cup {p \in ruled \ P : rules[p].mode = "SET"}
           kept == {p \in P : p \in ruled => rules[p].mode = "SET"}
           after == RulesApplied(call, rules)
<1>1. call.params = params /\ DOMAIN params = P /\ DOMAIN rules = R /\ ruled \subseteq R
  BY DEF CallOf, Ruled
<1>2. after = [p \in (P \ blocked) \cup forced |->
                 IF p \in forced THEN rules[p].value ELSE params[p]]
  BY <1>1 DEF RulesApplied
<1>3. (P \ blocked) \cup forced = forced \cup kept /\ forced \cap kept = {}
  BY <1>1 DEF Modes
<1>4. \A p \in forced : rules[p].value = "tenant"
  BY <1>1
<1>5. \A p \in P : params[p] = "client"
  OBVIOUS
<1>6. forced = Forced(call, rules) /\ kept = Kept(call, rules)
  BY <1>1 DEF Forced, Kept
<1>7. kept \subseteq P
  OBVIOUS
<1> HIDE DEF ruled, blocked, forced, kept, after
<1>8. Decided(after, forced, kept)
  BY <1>2, <1>3, <1>4, <1>5, <1>7 DEF Having, Decided
<1>9. QED
  BY <1>6, <1>8 DEF after

(***************************************************************************)
(* Whatever a client sends and whatever rules, assets and recording        *)
(* settings a tenant has: B3LB decides what it needs itself, then the      *)
(* tenant's rule, then the client, then the asset (api.py:384-434).        *)
(***************************************************************************)
THEOREM ParametersAlwaysDecided ==
    ASSUME NEW P, NEW params \in [P -> {"client"}], NEW call \in CallOf(params),
           NEW R, NEW rules \in [R -> [mode : Modes, value : {"tenant"}]],
           NEW t \in TenantWith(rules)
    PROVE  ParametersDecided(call, t)
<1> DEFINE ruled == Ruled(call, rules)
           forced == Forced(call, rules)
           kept == Kept(call, rules)
           applied == RulesApplied(call, rules)
           final == CheckParameters(call, t)
           create == call.endpoint = "create"
           own == IF ~create THEN {}
                  ELSE {"endCallback", "dialNumber"}
                       \cup (IF ~t.record THEN {"record"} ELSE {})
                       \cup (IF t.record /\ call.created
                             THEN {"meta_tag", "readyUrl"} ELSE {})
           asset == IF create THEN (IF t.logo THEN {"logo"} ELSE {})
                    ELSE IF t.css THEN {"style"} ELSE {}
<1>0. /\ call.endpoint \in {"create", "join"} /\ call.created \in BOOLEAN
      /\ t.css \in BOOLEAN /\ t.logo \in BOOLEAN /\ t.record \in BOOLEAN
      /\ t.rules = rules /\ call.params = params /\ DOMAIN params = P
      /\ DOMAIN rules = R /\ ruled \subseteq R
  BY DEF CallOf, TenantWith, Ruled
<1>1. Decided(applied, forced, kept)
  BY RulesHave
<1>2. /\ Decided(final, forced \ own, kept \ own)
      /\ asset \subseteq DOMAIN final
      /\ create => /\ "endCallback" \in DOMAIN final
                   /\ final["endCallback"] = "b3lb"
                   /\ ~t.record => final["record"] = "false"
  <2>1. CASE ~create
    <3>1. final = IF t.css THEN Default("style", "asset", applied) ELSE applied
      BY <1>0, <2>1 DEF CheckParameters
    <3>2. own = {} /\ asset = IF t.css THEN {"style"} ELSE {}
      BY <2>1
    <3> HIDE DEF applied, forced, kept, own, asset, final
    <3>3. /\ Decided(Default("style", "asset", applied), forced, kept)
          /\ DOMAIN Default("style", "asset", applied) = DOMAIN applied \cup {"style"}
      BY <1>1, DefaultHas
    <3>4. forced \ own = forced /\ kept \ own = kept
      BY <3>2
    <3>5. QED
      BY <1>1, <2>1, <3>1, <3>2, <3>3, <3>4
  <2>2. CASE create
    <3> DEFINE undialled == Without("dialNumber", applied)
               branded == IF t.logo THEN Default("logo", "asset", undialled)
                          ELSE undialled
               recorded == Recorded(call, t, branded)
               quiet == Without("readyUrl", branded)
               F == forced \ {"dialNumber"}
               K == kept \ {"dialNumber"}
    <3>1. final = With("endCallback", "b3lb", recorded)
      BY <1>0, <2>2 DEF CheckParameters
    <3> HIDE DEF applied, forced, kept
    <3>2. Decided(undialled, F, K)
      BY <1>1, WithoutHas
    <3> HIDE DEF undialled, F, K, final
    <3>3. Decided(branded, F, K) /\ (t.logo => "logo" \in DOMAIN branded)
      <4>1. /\ Decided(Default("logo", "asset", undialled), F, K)
            /\ DOMAIN Default("logo", "asset", undialled)
                 = DOMAIN undialled \cup {"logo"}
        BY <3>2, DefaultHas
      <4>2. QED
        BY <3>2, <4>1
    <3> HIDE DEF branded
    <3>4. recorded = IF ~t.record THEN With("record", "false", branded)
                     ELSE IF call.created THEN With("meta_tag", "b3lb", quiet)
                     ELSE branded
      BY DEF Recorded
    <3>5. /\ Decided(quiet, F \ {"readyUrl"}, K \ {"readyUrl"})
          /\ DOMAIN quiet = DOMAIN branded \ {"readyUrl"}
      BY <3>3, WithoutHas
    <3> HIDE DEF quiet, recorded
    <3> DEFINE gone == (IF ~t.record THEN {"record"} ELSE {})
                       \cup (IF t.record /\ call.created
                             THEN {"meta_tag", "readyUrl"} ELSE {})
    <3>6. /\ Decided(recorded, F \ gone, K \ gone)
          /\ t.logo => "logo" \in DOMAIN recorded
          /\ ~t.record => "record" \in DOMAIN recorded /\ recorded["record"] = "false"
      <4>1. CASE ~t.record
        <5>1. /\ Decided(With("record", "false", branded), F \ {"record"}, K \ {"record"})
              /\ DOMAIN With("record", "false", branded) = DOMAIN branded \cup {"record"}
              /\ With("record", "false", branded)["record"] = "false"
          BY <3>3, WithHas
        <5>2. gone = {"record"} /\ recorded = With("record", "false", branded)
          BY <3>4, <4>1
        <5> HIDE DEF gone
        <5>3. QED
          BY <3>3, <4>1, <5>1, <5>2
      <4>2. CASE t.record /\ call.created
        <5>1. /\ Decided(With("meta_tag", "b3lb", quiet),
                         (F \ {"readyUrl"}) \ {"meta_tag"},
                         (K \ {"readyUrl"}) \ {"meta_tag"})
              /\ DOMAIN With("meta_tag", "b3lb", quiet) = DOMAIN quiet \cup {"meta_tag"}
          BY <3>5, WithHas
        <5>2. gone = {"meta_tag", "readyUrl"} /\ recorded = With("meta_tag", "b3lb", quiet)
          BY <3>4, <4>2
        <5> HIDE DEF gone
        <5>3. /\ (F \ {"readyUrl"}) \ {"meta_tag"} = F \ gone
              /\ (K \ {"readyUrl"}) \ {"meta_tag"} = K \ gone
          BY <5>2
        <5>4. QED
          BY <3>3, <3>5, <4>2, <5>1, <5>2, <5>3
      <4>3. CASE t.record /\ ~call.created
        <5>1. F \ gone = F /\ K \ gone = K /\ recorded = branded
          BY <3>4, <4>3
        <5> HIDE DEF gone
        <5>2. QED
          BY <3>3, <4>3, <5>1
      <4>4. QED
        BY <1>0, <4>1, <4>2, <4>3
    <3> HIDE DEF gone
    <3>7. /\ Decided(final, (F \ gone) \ {"endCallback"}, (K \ gone) \ {"endCallback"})
          /\ DOMAIN final = DOMAIN recorded \cup {"endCallback"}
          /\ final["endCallback"] = "b3lb"
      BY <3>1, <3>6, WithHas
    <3>8. ~t.record => final["record"] = "false"
      BY <3>1, <3>6 DEF With
    <3>9. own = {"endCallback", "dialNumber"} \cup gone
      BY <2>2 DEF gone
    <3>10. /\ (F \ gone) \ {"endCallback"} = forced \ own
           /\ (K \ gone) \ {"endCallback"} = kept \ own
      <4> HIDE DEF own
      <4>1. QED
        BY <3>9 DEF F, K
    <3>11. asset \subseteq DOMAIN final
      BY <2>2, <3>6, <3>7
    <3> HIDE DEF own, asset
    <3>12. QED
      BY <2>2, <3>7, <3>8, <3>10, <3>11
  <2>3. QED
    BY <2>1, <2>2
<1>3. {p \in DOMAIN final : final[p] = "tenant"} = forced \ own
  BY <1>2 DEF Having, Decided
<1>4. {p \in DOMAIN final : final[p] = "client"} = kept \ own
  BY <1>2 DEF Having, Decided
<1> DEFINE mode(p) == IF p \in ruled \ own THEN rules[p].mode ELSE "none"
<1> HIDE DEF own
<1>5. forced \ own = {p \in ruled \ own :
                        mode(p) = "OVERRIDE" \/ (mode(p) = "SET" /\ p \notin P \ own)}
  BY <1>0 DEF Forced
<1>6. kept \ own = {p \in P \ own : mode(p) \in {"none", "SET"}}
  BY <1>0 DEF Kept, Modes
<1>7. QED
  <2>1. ParametersDecided(call, t) <=>
          /\ {p \in DOMAIN final : final[p] = "tenant"}
                = {p \in ruled \ own :
                     mode(p) = "OVERRIDE" \/ (mode(p) = "SET" /\ p \notin P \ own)}
          /\ {p \in DOMAIN final : final[p] = "client"}
                = {p \in P \ own : mode(p) \in {"none", "SET"}}
          /\ \A p \in asset : p \in DOMAIN final
          /\ create => /\ final["endCallback"] = "b3lb"
                       /\ ~t.record => final["record"] = "false"
    BY <1>0 DEF ParametersDecided, own
  <2> HIDE DEF final, forced, kept, mode, asset, ruled
  <2>2. QED
    BY <1>2, <1>3, <1>4, <1>5, <1>6, <2>1

-----------------------------------------------------------------------------
(* The choice of a node.                                                    *)

LEMMA LeastExists ==
    ASSUME NEW S, S # {}, NEW f, \A n \in S : f[n] \in Nat
    PROVE  \E n \in S : \A m \in S : f[n] <= f[m]
<1> DEFINE V == {f[n] : n \in S}
<1>1. V \subseteq Nat /\ V # {}
  OBVIOUS
<1>2. PICK v \in V : \A w \in V : v <= w
  BY <1>1, LeastNatural
<1>3. QED
  BY <1>2

\* The usable nodes of a cluster under a bound, and the least loaded ones.
Usable(loads, bound) == {n \in DOMAIN loads : 0 <= loads[n] /\ loads[n] <= bound}

Least(loads, nodes) == {n \in nodes : \A m \in nodes : loads[n] <= loads[m]}

\* The loop over one more cluster, said without its CHOOSE.
LEMMA LookedAtHas ==
    ASSUME NEW T, NEW more \in [T -> Int], NEW B, NEW q \in [lowest : Int, best : SUBSET B],
           Usable(more, q.lowest) # {}
    PROVE  \E low \in Nat :
             /\ low <= q.lowest
             /\ \A m \in Usable(more, q.lowest) : low <= more[m]
             /\ Least(more, Usable(more, q.lowest)) # {}
             /\ \A n \in Usable(more, q.lowest) :
                   n \in Least(more, Usable(more, q.lowest)) <=> more[n] = low
             /\ LookedAt(q, more) =
                  [lowest |-> low,
                   best |-> IF low = q.lowest THEN q.best \cup Least(more, Usable(more, q.lowest))
                            ELSE Least(more, Usable(more, q.lowest))]
<1> DEFINE U == Usable(more, q.lowest)
           L == Least(more, U)
           low == more[CHOOSE n \in L : TRUE]
<1>1. U \subseteq T /\ \A n \in U : more[n] \in Nat /\ more[n] <= q.lowest
  BY DEF Usable
<1>2. L # {}
  BY <1>1, LeastExists DEF Least
<1>3. (CHOOSE n \in L : TRUE) \in L
  BY <1>2
<1>4. LookedAt(q, more) = [lowest |-> low, best |-> IF low = q.lowest THEN q.best \cup L ELSE L]
  BY DEF LookedAt, Usable, Least
<1>5. L \subseteq U
  BY DEF Least
<1> HIDE DEF U
<1>6. /\ low \in Nat /\ low <= q.lowest /\ \A m \in U : low <= more[m]
      /\ \A n \in U : n \in L <=> more[n] = low
  BY <1>1, <1>3, <1>5 DEF Least
<1> HIDE DEF L, low
<1>7. QED
  BY <1>2, <1>4, <1>6 DEF U, L

(***************************************************************************)
(* However many nodes the clusters have and whatever their loads, after    *)
(* each cluster the choice is among the nodes of least load of all those   *)
(* seen so far (api.py:553-564).                                           *)
(***************************************************************************)
THEOREM ChoiceAlwaysGoesOn ==
    ASSUME NEW S, NEW T, S \cap T = {}, NEW loads \in [S -> Int], NEW more \in [T -> Int],
           NEW B, NEW q \in [lowest : Int, best : SUBSET B]
    PROVE  ChoiceGoesOn(q, loads, more)
<1> DEFINE all == [n \in DOMAIN loads \cup DOMAIN more |-> IF n \in DOMAIN more THEN more[n] ELSE loads[n]]
           U == Usable(loads, LoadCap)
           V == Usable(more, q.lowest)
           W == Usable(all, LoadCap)
           after == LookedAt(q, more)
<1>0. LoadCap \in Nat
  BY LoadCapAssumption DEF LoadCapAssumption
<1>1. SUFFICES ASSUME IsChoice(q, loads) PROVE IsChoice(after, all)
  BY DEF ChoiceGoesOn
<1>2. /\ q.best = Least(loads, U)
      /\ U = {} => q.lowest = LoadCap
      /\ U # {} => \A n \in q.best : loads[n] = q.lowest
  BY <1>1 DEF IsChoice, Usable, Least
<1>3. /\ \A n \in S : all[n] = loads[n]
      /\ \A n \in T : all[n] = more[n]
      /\ \A n \in S \cup T : all[n] \in Int
      /\ DOMAIN all = S \cup T
  OBVIOUS
<1>4. /\ U \subseteq S /\ \A n \in U : loads[n] \in Nat
      /\ \A n \in S : n \in U <=> 0 <= loads[n] /\ loads[n] <= LoadCap
      /\ \A n \in T : n \in V <=> 0 <= more[n] /\ more[n] <= q.lowest
      /\ W \subseteq S \cup T
      /\ \A n \in S : n \in W <=> n \in U
      /\ \A n \in T : n \in W <=> 0 <= more[n] /\ more[n] <= LoadCap
      /\ V \subseteq T
  BY <1>0, <1>3 DEF Usable
<1>5. q.lowest \in Nat /\ q.lowest <= LoadCap /\ \A n \in U : q.lowest <= loads[n]
  <2>1. CASE U = {}
    BY <1>0, <1>2, <2>1
  <2>2. CASE U # {}
    <3>1. PICK n \in U : \A m \in U : loads[n] <= loads[m]
      BY <1>4, <2>2, LeastExists
    <3>2. n \in q.best /\ q.lowest = loads[n]
      BY <1>2, <2>2, <3>1 DEF Least
    <3>3. QED
      BY <1>0, <1>4, <3>1, <3>2
  <2>3. QED
    BY <2>1, <2>2
<1>6. U # {} => \E n \in U : n \in q.best /\ loads[n] = q.lowest
  BY <1>2, <1>4, LeastExists DEF Least
<1>7. \A n \in U : n \in q.best <=> loads[n] = q.lowest
  BY <1>2, <1>4, <1>5, <1>6 DEF Least
<1>8. IsChoice(after, all) <=>
        /\ after.best = Least(all, W)
        /\ IF W = {} THEN after.lowest = LoadCap ELSE \A n \in after.best : all[n] = after.lowest
  BY DEF IsChoice, Usable, Least
<1>9. q.best \subseteq U
  BY <1>2 DEF Least
<1>10. CASE V = {}
  <2>1. after = q
    BY <1>10 DEF LookedAt, Usable
  <2>2. \A n \in T : 0 <= more[n] => q.lowest < more[n]
    BY <1>4, <1>5, <1>10
  <2> HIDE DEF all, U, V, W, after
  <2>3. CASE U = {}
    <3>1. W = {} /\ q.best = {} /\ q.lowest = LoadCap
      BY <1>2, <1>4, <1>9, <2>2, <2>3
    <3>2. QED
      BY <1>8, <2>1, <3>1 DEF Least
  <2>4. CASE U # {}
    <3>1. PICK l \in U : l \in q.best /\ loads[l] = q.lowest
      BY <1>6, <2>4
    <3>2. l \in W /\ all[l] = q.lowest
      BY <1>3, <1>4, <3>1
    <3>3. \A n \in W : q.lowest <= all[n] /\ (all[n] = q.lowest <=> n \in q.best)
      BY <1>3, <1>4, <1>5, <1>7, <1>9, <2>2
    <3>4. Least(all, W) = q.best
      BY <1>3, <1>4, <1>5, <1>9, <3>2, <3>3 DEF Least
    <3>5. \A n \in q.best : all[n] = q.lowest
      BY <1>3, <1>4, <1>7, <1>9
    <3>6. QED
      BY <1>8, <2>1, <3>2, <3>4, <3>5
  <2>5. QED
    BY <2>3, <2>4
<1>11. CASE V # {}
  <2>1. PICK low \in Nat :
          /\ low <= q.lowest
          /\ \A m \in V : low <= more[m]
          /\ Least(more, V) # {}
          /\ \A n \in V : n \in Least(more, V) <=> more[n] = low
          /\ after = [lowest |-> low,
                      best |-> IF low = q.lowest THEN q.best \cup Least(more, V) ELSE Least(more, V)]
    BY <1>11, LookedAtHas
  <2>2. Least(more, V) \subseteq V
    BY DEF Least
  <2> HIDE DEF all, U, V, W, after
  <2>3. \A n \in W : low <= all[n] /\ (all[n] = low <=> n \in after.best)
    <3>1. ASSUME NEW n \in W, n \in S
          PROVE  low <= all[n] /\ (all[n] = low <=> n \in after.best)
      <4>1. n \in U /\ all[n] = loads[n] /\ loads[n] \in Nat /\ n \notin V
        BY <1>3, <1>4, <3>1
      <4>2. q.lowest <= loads[n] /\ (n \in q.best <=> loads[n] = q.lowest)
        BY <1>5, <1>7, <4>1
      <4>3. n \in after.best <=> low = q.lowest /\ n \in q.best
        BY <2>1, <2>2, <4>1
      <4>4. QED
        BY <1>5, <2>1, <4>1, <4>2, <4>3
    <3>2. ASSUME NEW n \in W, n \in T
          PROVE  low <= all[n] /\ (all[n] = low <=> n \in after.best)
      <4>1. n \notin U /\ all[n] = more[n] /\ more[n] \in Int /\ 0 <= more[n]
        BY <1>3, <1>4, <3>2
      <4>2. n \notin q.best
        BY <1>9, <4>1
      <4>3. n \in after.best <=> n \in Least(more, V)
        BY <2>1, <4>2
      <4>4. n \in V <=> more[n] <= q.lowest
        BY <1>4, <3>2, <4>1
      <4>5. CASE n \in V
        BY <2>1, <4>1, <4>3, <4>5
      <4>6. CASE n \notin V
        BY <1>5, <2>1, <2>2, <4>1, <4>3, <4>4, <4>6
      <4>7. QED
        BY <4>5, <4>6
    <3>3. QED
      BY <1>4, <3>1, <3>2
  <2>4. after.best \subseteq W /\ after.lowest = low
    <3>1. V \subseteq W /\ U \subseteq W
      BY <1>0, <1>4, <1>5
    <3>2. QED
      BY <1>9, <2>1, <2>2, <3>1
  <2>5. PICK l \in after.best : TRUE
    BY <2>1
  <2>6. all[l] = low /\ l \in W
    BY <2>3, <2>4, <2>5
  <2>7. \A n \in W : all[n] \in Int
    BY <1>3, <1>4
  <2>8. Least(all, W) = after.best
    BY <2>3, <2>4, <2>6, <2>7 DEF Least
  <2>9. QED
    BY <1>8, <2>3, <2>4, <2>6, <2>8
<1>12. QED
  BY <1>10, <1>11

(***************************************************************************)
(* From an empty list on: whatever the loads, after one cluster and after  *)
(* a second one the list has the nodes of least load (api.py:553-564).     *)
(***************************************************************************)
THEOREM ChoiceIsAlwaysLowest ==
    ASSUME NEW S, NEW T, S \cap T = {}, NEW loads \in [S -> Int], NEW more \in [T -> Int]
    PROVE  ChoiceIsLowest(loads, more)
<1> DEFINE none == [n \in {} |-> 0]
           first == LookedAt(NoChoice, loads)
<1>1. none \in [{} -> Int] /\ NoChoice \in [lowest : Int, best : SUBSET S]
  BY LoadCapAssumption DEF NoChoice
<1>2. IsChoice(NoChoice, none)
  BY DEF IsChoice, NoChoice
<1>3. ChoiceGoesOn(NoChoice, none, loads)
  BY <1>1, ChoiceAlwaysGoesOn
<1>4. [n \in DOMAIN none \cup DOMAIN loads |-> IF n \in DOMAIN loads THEN loads[n] ELSE none[n]] = loads
  OBVIOUS
<1>5. IsChoice(first, loads)
  BY <1>2, <1>3, <1>4 DEF ChoiceGoesOn
<1>6. first \in [lowest : Int, best : SUBSET S]
  <2>1. CASE Usable(loads, NoChoice.lowest) = {}
    BY <1>1, <2>1 DEF LookedAt, Usable
  <2>2. CASE Usable(loads, NoChoice.lowest) # {}
    <3>1. Least(loads, Usable(loads, NoChoice.lowest)) \subseteq S
      BY DEF Least, Usable
    <3>2. QED
      BY <1>1, <2>2, <3>1, LookedAtHas
  <2>3. QED
    BY <2>1, <2>2
<1> HIDE DEF first
<1>7. ChoiceGoesOn(first, loads, more)
  BY <1>6, ChoiceAlwaysGoesOn
<1>8. QED
  BY <1>5, <1>7 DEF ChoiceIsLowest, first

-----------------------------------------------------------------------------
(* Requests and lists of meetings.                                          *)

\* A slide, -1 being the size of a file that is gone.
Slide == [field : BOOLEAN, size : Nat \cup {-1}]

(***************************************************************************)
(* A tenant's slide reaches the node whatever its size: in a body that     *)
(* BigBlueButton takes or at an address that answers (api.py:414-422,      *)
(* storage.py:28-60).  base64 fills groups of four characters, so that the *)
(* limits on bytes and on characters agree only if four divides the latter.*)
(***************************************************************************)
THEOREM SlidesAlwaysArrive ==
    ASSUME NEW method \in {"GET", "POST"}, NEW asset \in Slide \cup {None}
    PROVE  SlideIsDelivered(method, asset)
<1> DEFINE k == MaxBase64Slide \div 4
<1>0. k \in Nat /\ MaxBase64Slide = 4 * k /\ None \notin Slide
  BY RequestConstantsOK DEF Slide
<1>1. SUFFICES ASSUME method = "GET", asset \in Slide, asset.field, asset.size >= 0
               PROVE  SlideIsDelivered(method, asset)
  BY DEF SlideIsDelivered
<1> HIDE DEF k
<1>2. asset # None /\ asset.size \in Nat /\ MaxSlideSize = 3 * k
  BY <1>0, <1>1 DEF Slide, MaxSlideSize
<1>3. CASE asset.size \in 1 .. MaxSlideSize
  <2>1. 4 * ((asset.size + 2) \div 3) \in 1 .. MaxBase64Slide
    BY <1>0, <1>2, <1>3
  <2>2. Base64(asset) \in 1 .. MaxBase64Slide
    BY <1>2, <1>3, <2>1 DEF Base64
  <2>3. SlideSent(method, asset) = "embedded"
    BY <1>1, <1>2, <2>2 DEF SlideSent
  <2>4. QED
    BY <1>3, <2>2, <2>3 DEF SlideIsDelivered
<1>4. CASE asset.size \notin 1 .. MaxSlideSize
  <2>1. Base64(asset) = 0
    BY <1>2, <1>4 DEF Base64
  <2>2. SlideSent(method, asset) = "url" /\ AssetAnswer(asset) = "200"
    BY <1>1, <1>2, <2>1 DEF SlideSent, AssetAnswer
  <2>3. QED
    BY <1>4, <2>2 DEF SlideIsDelivered
<1>5. QED
  BY <1>3, <1>4

(***************************************************************************)
(* Whatever is in the table and whatever the nodes answer, getMeetings of  *)
(* a secret lists its running meetings and, for the tenant's own secret,   *)
(* the tenant's; and a meeting of another one only under the same id       *)
(* (core.py:172-226).                                                      *)
(***************************************************************************)
THEOREM ListsAlwaysHaveTheirMeetings ==
    ASSUME NEW secrets, NEW rows, NEW answers, \A r \in rows : r.secret \in secrets
    PROVE  ListsHaveTheirMeetings(secrets, rows, answers)
<1>1. SUFFICES
        ASSUME NEW s \in secrets, NEW n \in DOMAIN answers, NEW m \in answers[n]
        PROVE  LET of == {x \in secrets : x = s \/ (s.sub = 0 /\ x.tenant = s.tenant)}
                   known(x) == \E r \in rows : r.id = m.id /\ r.secret = x
               IN  /\ known(m.of) /\ m.of \in of => <<n, m>> \in MeetingList(s, rows, answers)
                   /\ <<n, m>> \in MeetingList(s, rows, answers) =>
                          m.of \in of \/ \E x \in of : x # m.of /\ known(x)
  BY DEF ListsHaveTheirMeetings
<1>2. <<n, m>> \in MeetingList(s, rows, answers) <=> m.id \in IdsListed(s, rows)
  <2>1. <<n, m>> \in UNION {{k} \X answers[k] : k \in DOMAIN answers}
    OBVIOUS
  <2>2. <<n, m>>[2] = m
    OBVIOUS
  <2>3. QED
    BY <2>1, <2>2 DEF MeetingList
<1>3. m.id \in IdsListed(s, rows) <=>
        \E r \in rows : /\ r.id = m.id
                        /\ r.secret = s \/ (s.sub = 0 /\ r.secret.tenant = s.tenant)
  BY DEF IdsListed
<1>4. QED
  BY <1>2, <1>3

\* The secret that a call names.
Asked(r) == IF r.path = None THEN r.host ELSE r.path

\* Tables that go with each other: a meeting has an id and is one of a secret.
TablesOK(db) ==
    /\ None \notin db.secrets /\ None \notin db.healthy
    /\ \A m \in db.meetings : m.id # "" /\ m.secret \in db.secrets

(***************************************************************************)
(* A call about a meeting is answered by the node of this very meeting of  *)
(* this very secret or by none, for any tables (api.py:267-294, 543-551).  *)
(***************************************************************************)
THEOREM CallsAlwaysReachTheirMeeting ==
    ASSUME NEW r, NEW db, TablesOK(db)
    PROVE  CallsReachTheirMeeting(r, db)
<1> DEFINE rows == {m \in db.meetings : m.id = r.meeting /\ m.secret = Asked(r)}
           about == r.endpoint \in PassThrough \cup {"join", "isMeetingRunning"}
           taken == Answer(r, db).status \notin {"401", "405"}
<1>1. SUFFICES ASSUME r.view = "bbb"
      PROVE  /\ Answer(r, db).by # None => \E m \in rows : m.node = Answer(r, db).by
             /\ (about /\ taken) => (Answer(r, db).by # None <=> \E m \in rows : m.node \in db.healthy)
  BY DEF CallsReachTheirMeeting, Asked
<1>2. \A status : B3lb(status).by = None /\ B3lb(status).status = status
  BY DEF B3lb
<1>3. CASE r.method \notin AllowedMethods(r) \/ ~Authorized(r, db)
  <2>1. Answer(r, db) = B3lb("405") \/ Answer(r, db) = B3lb("401")
    BY <1>1, <1>3 DEF Answer
  <2>2. QED
    BY <1>2, <2>1
<1>4. CASE r.method \in AllowedMethods(r) /\ Authorized(r, db)
  <2>1. Answer(r, db) = Delegated(r, db) /\ Endpoint(r) = r.endpoint
    BY <1>1, <1>4 DEF Answer, Endpoint
  <2>2. SecretOf(r, db) = Asked(r)
    BY <1>4 DEF Authorized, SecretOf, Asked
  <2> DEFINE own == {m \in rows : m.node \in db.healthy}
  <2>3. IF own = {} THEN NodeOf(r, db) = None
        ELSE \E m \in own : NodeOf(r, db) = m.node
    <3>1. own = {m \in db.meetings : m.id = r.meeting /\ m.secret = SecretOf(r, db)
                                     /\ m.node \in db.healthy}
      BY <2>2
    <3> HIDE DEF own
    <3>2. CASE own = {}
      BY <3>1, <3>2 DEF NodeOf
    <3>3. CASE own # {}
      BY <3>1, <3>3 DEF NodeOf
    <3>4. QED
      BY <3>2, <3>3
  <2>4. /\ NodeOf(r, db) # None => r.meeting # "" /\ \E m \in rows : m.node = NodeOf(r, db)
        /\ NodeOf(r, db) # None <=> \E m \in rows : m.node \in db.healthy
    BY <2>3 DEF TablesOK
  <2> HIDE DEF rows
  <2>5. /\ PassedThrough(r, db).by = NodeOf(r, db) /\ Join(r, db).by = NodeOf(r, db)
        /\ IsMeetingRunning(r, db).by = NodeOf(r, db)
    BY <1>2, <2>4 DEF PassedThrough, Join, IsMeetingRunning
  <2>6. CASE about
    <3>1. CASE r.endpoint = "join"
      BY <2>1, <2>4, <2>5, <3>1 DEF Delegated, PassThrough, OfRecordings,
         Hardcoded
    <3>2. CASE r.endpoint \in PassThrough
      <4>1. Delegated(r, db) = PassedThrough(r, db)
        BY <2>1, <3>2 DEF Delegated, PassThrough, OfRecordings, Hardcoded
      <4>2. QED
        BY <2>1, <2>4, <2>5, <4>1
    <3>3. CASE r.endpoint = "isMeetingRunning"
      <4>1. Delegated(r, db) = IsMeetingRunning(r, db)
        BY <2>1, <3>3 DEF Delegated, PassThrough, OfRecordings, Hardcoded
      <4>2. QED
        BY <2>1, <2>4, <2>5, <4>1
    <3>4. QED
      BY <2>6, <3>1, <3>2, <3>3
  <2>7. CASE ~about
    <3>1. Delegated(r, db).by = None
      BY <1>2, <2>1, <2>7 DEF Delegated, GetMeetings, GetRecordingsAnswer,
         OfRecordingsAnswer, MetricsAnswer, StatsAnswer, PassThrough, OfRecordings
    <3>2. QED
      BY <2>1, <2>7, <3>1
  <2>8. QED
    BY <2>6, <2>7
<1>5. QED
  BY <1>3, <1>4

-----------------------------------------------------------------------------
(* Recordings.                                                              *)

\* The recordings table: a row is one of a secret, a uuid names one row.
RecordRows(Names, secrets) ==
    [uuid : Names, meeting : Names, secret : secrets, published : BOOLEAN,
     size : Nat, name : Names, listed : BOOLEAN, timed : BOOLEAN]

RecordTablesOK(db) ==
    /\ None \notin db.secrets /\ db.recording \subseteq db.secrets
    /\ \E Names : db.records \subseteq RecordRows(Names, db.secrets)
    /\ \A x, y \in db.records : x.uuid = y.uuid => x = y

\* What a filter selects: recordings of the secret that the call asks for.
Selected(r, db, state, id, meeting) ==
    {x \in db.records : /\ x.secret = Asked(r)
                        /\ state \in {"", Shown(x).state}
                        /\ id \in {"", x.uuid} /\ meeting \in {"", x.meeting}}

\* With these tables the lookup of the secret only finds the one that is asked for.
LEMMA OwnRecords ==
    ASSUME NEW r, NEW db, RecordTablesOK(db), NEW state, NEW id, NEW meeting
    PROVE  /\ \A x \in db.records : x.secret = SecretOf(r, db) <=> x.secret = Asked(r)
           /\ SecretOf(r, db) \in db.recording <=> Asked(r) \in db.recording
           /\ FilterRecordings(r, db, state, id, meeting) = Selected(r, db, state, id, meeting)
<1>1. /\ \A x \in db.records : x.secret \in db.secrets /\ x.published \in BOOLEAN
      /\ None \notin db.secrets /\ db.recording \subseteq db.secrets
  BY DEF RecordTablesOK, RecordRows
<1>2. SecretOf(r, db) = IF Asked(r) \in db.secrets THEN Asked(r) ELSE None
  BY DEF SecretOf, Asked
<1>3. /\ \A x \in db.records : x.secret = SecretOf(r, db) <=> x.secret = Asked(r)
      /\ SecretOf(r, db) \in db.recording <=> Asked(r) \in db.recording
  BY <1>1, <1>2
<1>4. \A x \in db.records :
        Shown(x).state = IF x.published THEN "published" ELSE "unpublished"
  BY DEF Shown
<1>5. ASSUME state \in {"", "published", "unpublished"}
      PROVE  FilterRecordings(r, db, state, id, meeting) = Selected(r, db, state, id, meeting)
  <2>1. \A x \in db.records :
          state \in {"", Shown(x).state} <=>
            (state = "" \/ x.published = (state = "published"))
    BY <1>1, <1>4, <1>5
  <2>2. QED
    BY <1>3, <1>5, <2>1 DEF FilterRecordings, Selected
<1>6. ASSUME state \notin {"", "published", "unpublished"}
      PROVE  FilterRecordings(r, db, state, id, meeting) = Selected(r, db, state, id, meeting)
  <2>1. Selected(r, db, state, id, meeting) = {}
    BY <1>4, <1>6 DEF Selected
  <2>2. QED
    BY <1>6, <2>1 DEF FilterRecordings
<1>7. FilterRecordings(r, db, state, id, meeting) = Selected(r, db, state, id, meeting)
  BY <1>5, <1>6
<1>8. QED
  BY <1>3, <1>7

LEMMA ListOfOne == \A e : DOMAIN <<e>> = {1} /\ <<e>>[1] = e
  OBVIOUS

\* Each place of the answer holds recordings of the table that have a video.
LEMMA ListedAreThere ==
    ASSUME NEW r, NEW db
    PROVE  \A i \in DOMAIN GetRecordings(r, db) :
             /\ GetRecordings(r, db)[i] \subseteq db.records
             /\ \A x \in GetRecordings(r, db)[i] : x.size > 0
<1> DEFINE Filled(id, meeting) ==
             {x \in FilterRecordings(r, db, r.state, id, meeting) : x.size > 0}
           list == GetRecordings(r, db)
<1>1. \A id, meeting : /\ Filled(id, meeting) \subseteq db.records
                      /\ \A x \in Filled(id, meeting) : x.size > 0
  BY DEF FilterRecordings
<1>2. list = IF SecretOf(r, db) \notin db.recording THEN <<>>
             ELSE IF r.ids # <<>> THEN [i \in DOMAIN r.ids |-> Filled(r.ids[i], "")]
             ELSE IF r.meetings # <<>>
             THEN [i \in DOMAIN r.meetings |-> Filled("", r.meetings[i])]
             ELSE <<Filled("", "")>>
  BY DEF GetRecordings
<1> HIDE DEF Filled, list
<1>3. \A i \in DOMAIN list : \E id, meeting : list[i] = Filled(id, meeting)
  <2>1. CASE SecretOf(r, db) \notin db.recording
    BY <1>2, <2>1
  <2>2. CASE SecretOf(r, db) \in db.recording /\ r.ids # <<>>
    BY <1>2, <2>2
  <2>3. CASE SecretOf(r, db) \in db.recording /\ r.ids = <<>> /\ r.meetings # <<>>
    BY <1>2, <2>3
  <2>4. CASE SecretOf(r, db) \in db.recording /\ r.ids = <<>> /\ r.meetings = <<>>
    <3>1. list = <<Filled("", "")>>
      BY <1>2, <2>4
    <3>2. QED
      BY <3>1, ListOfOne
  <2>5. QED
    BY <2>1, <2>2, <2>3, <2>4
<1>4. \A i \in DOMAIN list : list[i] \subseteq db.records /\ \A x \in list[i] : x.size > 0
  BY <1>1, <1>3
<1>5. QED
  BY <1>4 DEF list

\* The recordings a call wants, and the places of the answer they are in.
Wanted(x, r, db) ==
    /\ x.secret = Asked(r) /\ x.secret \in db.recording /\ x.size > 0
    /\ r.state \in {"", Shown(x).state}

Places(x, r) ==
    LET keys == IF r.ids # <<>> THEN r.ids ELSE r.meetings
        key == IF r.ids # <<>> THEN x.uuid ELSE x.meeting
    IN  IF keys = <<>> THEN {1} ELSE {i \in DOMAIN keys : keys[i] \in {"", key}}

LEMMA ListedWhereNamed ==
    ASSUME NEW r, NEW db, RecordTablesOK(db), NEW x \in db.records,
           NEW Ids, r.ids \in Seq(Ids), r.meetings \in Seq(Ids)
    PROVE  {i \in DOMAIN GetRecordings(r, db) : x \in GetRecordings(r, db)[i]}
             = IF Wanted(x, r, db) THEN Places(x, r) ELSE {}
<1> DEFINE list == GetRecordings(r, db)
           filled(found) == {y \in found : y.size > 0}
           F(id, meeting) == filled(FilterRecordings(r, db, r.state, id, meeting))
<1>1. ASSUME Asked(r) \in db.recording, NEW id, NEW meeting
      PROVE  x \in F(id, meeting) <=>
               Wanted(x, r, db) /\ id \in {"", x.uuid} /\ meeting \in {"", x.meeting}
  <2>1. FilterRecordings(r, db, r.state, id, meeting) = Selected(r, db, r.state, id, meeting)
    BY OwnRecords
  <2>2. x \in F(id, meeting) <=>
          x \in Selected(r, db, r.state, id, meeting) /\ x.size > 0
    BY <2>1
  <2>3. QED
    BY <1>1, <2>2 DEF Selected, Wanted
<1>2. CASE Asked(r) \notin db.recording
  <2>1. list = <<>> /\ ~Wanted(x, r, db)
    BY <1>2, OwnRecords DEF GetRecordings, Wanted
  <2>2. QED
    BY <2>1
<1>3. CASE Asked(r) \in db.recording /\ r.ids # <<>>
  <2>1. list = [i \in DOMAIN r.ids |-> F(r.ids[i], "")]
    BY <1>3, OwnRecords DEF GetRecordings
  <2>2. \A i \in DOMAIN r.ids : x \in F(r.ids[i], "") <=>
           Wanted(x, r, db) /\ r.ids[i] \in {"", x.uuid}
    BY <1>1, <1>3
  <2>3. Places(x, r) = {i \in DOMAIN r.ids : r.ids[i] \in {"", x.uuid}}
    BY <1>3 DEF Places
  <2> HIDE DEF list, F
  <2>4. {i \in DOMAIN list : x \in list[i]} = IF Wanted(x, r, db) THEN Places(x, r) ELSE {}
    BY <2>1, <2>2, <2>3
  <2>5. QED
    BY <2>4 DEF list
<1>4. CASE Asked(r) \in db.recording /\ r.ids = <<>> /\ r.meetings # <<>>
  <2>1. list = [i \in DOMAIN r.meetings |-> F("", r.meetings[i])]
    BY <1>4, OwnRecords DEF GetRecordings
  <2>2. \A i \in DOMAIN r.meetings : x \in F("", r.meetings[i]) <=>
           Wanted(x, r, db) /\ r.meetings[i] \in {"", x.meeting}
    BY <1>1, <1>4
  <2>3. Places(x, r) = {i \in DOMAIN r.meetings : r.meetings[i] \in {"", x.meeting}}
    BY <1>4 DEF Places
  <2> HIDE DEF list, F
  <2>4. {i \in DOMAIN list : x \in list[i]} = IF Wanted(x, r, db) THEN Places(x, r) ELSE {}
    BY <2>1, <2>2, <2>3
  <2>5. QED
    BY <2>4 DEF list
<1>5. CASE Asked(r) \in db.recording /\ r.ids = <<>> /\ r.meetings = <<>>
  <2>1. list = <<F("", "")>>
    BY <1>5, OwnRecords DEF GetRecordings
  <2>2. x \in F("", "") <=> Wanted(x, r, db)
    BY <1>1, <1>5
  <2>3. Places(x, r) = {1}
    BY <1>5 DEF Places
  <2> HIDE DEF list, F
  <2>4. DOMAIN list = {1} /\ list[1] = F("", "")
    BY <2>1, ListOfOne
  <2>5. {i \in DOMAIN list : x \in list[i]} = IF Wanted(x, r, db) THEN Places(x, r) ELSE {}
    BY <2>2, <2>3, <2>4
  <2>6. QED
    BY <2>5 DEF list
<1>6. QED
  BY <1>2, <1>3, <1>4, <1>5

(***************************************************************************)
(* Whatever the ids, meetings and states that are asked for, getRecordings *)
(* lists the secret's recordings that they name, each as often as it is    *)
(* named, and no other secret's; it fails only because of one of these, as *)
(* long as no id is empty                                                  *)
(* (api.py:164-257, 338-362, models.py:466-500).                           *)
(***************************************************************************)
THEOREM RecordingsAlwaysListed ==
    ASSUME NEW r, NEW db, RecordTablesOK(db),
           NEW Ids, r.ids \in Seq(Ids), r.meetings \in Seq(Ids)
    PROVE  RecordingsListed(r, db)
<1> DEFINE list == GetRecordings(r, db)
           keys == IF r.ids # <<>> THEN r.ids ELSE r.meetings
           key(x) == IF r.ids # <<>> THEN x.uuid ELSE x.meeting
           times(x) == IF keys = <<>> THEN 1
                       ELSE Cardinality({i \in DOMAIN keys : keys[i] = key(x)})
           In(x) == {i \in DOMAIN list : x \in list[i]}
           NoneIsEmpty == "" \notin ToSet(keys)
<1>1. \A x \in db.records : In(x) = IF Wanted(x, r, db) THEN Places(x, r) ELSE {}
  BY ListedWhereNamed
<1>2. NoneIsEmpty => \A x \in db.records : times(x) = Cardinality(Places(x, r)) /\ IsFiniteSet(Places(x, r))
  <2>1. SUFFICES ASSUME NoneIsEmpty, NEW x \in db.records
                 PROVE  times(x) = Cardinality(Places(x, r)) /\ IsFiniteSet(Places(x, r))
    OBVIOUS
  <2>2. CASE keys = <<>>
    <3>1. Places(x, r) = {1}
      BY <2>2 DEF Places
    <3>2. QED
      BY <2>2, <3>1, FS_Singleton
  <2>3. CASE keys # <<>>
    <3>1. Places(x, r) = {i \in DOMAIN keys : keys[i] = key(x)}
      <4>1. Places(x, r) = {i \in DOMAIN keys : keys[i] \in {"", key(x)}}
        BY <2>3 DEF Places
      <4>2. \A i \in DOMAIN keys : keys[i] # ""
        BY <2>1 DEF ToSet
      <4> HIDE DEF keys, key
      <4>3. QED
        BY <4>1, <4>2
    <3>2. keys \in Seq(Ids)
      OBVIOUS
    <3> HIDE DEF keys
    <3>3. DOMAIN keys = 1 .. Len(keys) /\ Len(keys) \in Nat
      BY <3>2
    <3>4. IsFiniteSet(DOMAIN keys)
      BY <3>3, FS_Interval
    <3>5. IsFiniteSet(Places(x, r))
      BY <3>1, <3>4, FS_Subset
    <3>6. QED
      BY <2>3, <3>1, <3>5
  <2>4. QED
    BY <2>2, <2>3
<1>3. \A i \in DOMAIN list : list[i] \subseteq db.records /\ \A x \in list[i] : x.size > 0
  BY ListedAreThere
<1> HIDE DEF list, keys, key, times, NoneIsEmpty
<1>4. NoneIsEmpty => \A x \in db.records : Cardinality(In(x)) = IF Wanted(x, r, db) THEN times(x) ELSE 0
  BY <1>1, <1>2, FS_EmptySet
<1>5. NoneIsEmpty => \A x \in db.records : In(x) # {} <=> Wanted(x, r, db) /\ times(x) > 0
  <2>1. NoneIsEmpty => \A x \in db.records : Places(x, r) # {} <=> times(x) > 0
    BY <1>2, FS_EmptySet, FS_CardinalityType
  <2>2. QED
    BY <1>1, <2>1
<1>6. NoneIsEmpty => ((GetRecordingsAnswer(r, db) = B3lb("error")) <=>
                   \E x \in db.records : Wanted(x, r, db) /\ times(x) > 0 /\ ~x.timed)
  <2>1. (GetRecordingsAnswer(r, db) = B3lb("error")) <=>
          \E i \in DOMAIN list : \E x \in list[i] : ~x.timed
    BY DEF GetRecordingsAnswer, list, B3lb
  <2>2. (\E i \in DOMAIN list : \E x \in list[i] : ~x.timed) <=>
          \E x \in db.records : In(x) # {} /\ ~x.timed
    BY <1>3
  <2>3. QED
    BY <1>5, <2>1, <2>2
<1>7. \A x \in UNION ToSet(list) : RecordingAnswer(Shown(x).url, db) = "video"
  <2>1. \A x \in UNION ToSet(list) : x \in db.records /\ x.size > 0
    BY <1>3 DEF ToSet
  <2>2. \A x : Shown(x).url = x.uuid
    BY DEF Shown
  <2>3. QED
    BY <2>1, <2>2 DEF RecordingAnswer
<1>8. QED
  BY <1>4, <1>6, <1>7 DEF RecordingsListed, Wanted, Asked, list, keys, key, times, NoneIsEmpty

\* What the ids of a call name: recordings of the secret it asks for.
OfTheseIds(r, db) ==
    {x \in db.records : x.secret = Asked(r) /\ {"", x.uuid} \cap ToSet(r.ids) # {}}

LEMMA NamedAreTheirs ==
    ASSUME NEW r, NEW db, RecordTablesOK(db), NEW Ids, r.ids \in Seq(Ids)
    PROVE  Named(r, db) = OfTheseIds(r, db)
<1> DEFINE F(i) == FilterRecordings(r, db, "", r.ids[i], "")
<1>1. \A i \in DOMAIN r.ids : F(i) = Selected(r, db, "", r.ids[i], "")
  BY OwnRecords
<1>2. \A i \in DOMAIN r.ids : \A x :
        x \in F(i) <=> x \in db.records /\ x.secret = Asked(r) /\ r.ids[i] \in {"", x.uuid}
  BY <1>1 DEF Selected
<1>3. \A x : x \in Named(r, db) <=> \E i \in DOMAIN r.ids : x \in F(i)
  BY DEF Named
<1> HIDE DEF F
<1>4. \A x : x \in Named(r, db) <=>
        x \in db.records /\ x.secret = Asked(r) /\ \E i \in DOMAIN r.ids : r.ids[i] \in {"", x.uuid}
  BY <1>2, <1>3
<1>5. \A e : e \in ToSet(r.ids) <=> \E i \in DOMAIN r.ids : r.ids[i] = e
  BY DEF ToSet
<1>6. \A x : (\E i \in DOMAIN r.ids : r.ids[i] \in {"", x.uuid}) <=> {"", x.uuid} \cap ToSet(r.ids) # {}
  BY <1>5
<1>7. \A x : x \in Named(r, db) <=> x \in OfTheseIds(r, db)
  BY <1>4, <1>6 DEF OfTheseIds
<1>8. QED
  BY <1>7

\* What publish_ and update_recordings are to make of a row.
Published(r, x) == [x EXCEPT !.published = (r.publish = "true")]

Updated(r, x) ==
    [x EXCEPT !.name = IF r.name = "" THEN x.name ELSE r.name,
              !.listed = r.listed = "true" \/ (x.listed /\ r.listed # "false")]

\* A call makes at most one row of a row, with the same uuid.
LEMMA EditsKeepTheUuid ==
    ASSUME NEW r, NEW Names, NEW secrets, NEW x \in RecordRows(Names, secrets)
    PROVE  /\ \A y \in Edited(r, x) : y.uuid = x.uuid
           /\ r.endpoint = "publishRecordings" => Edited(r, x) = {Published(r, x)}
           /\ r.endpoint = "updateRecordings" => Edited(r, x) = {Updated(r, x)}
           /\ r.endpoint = "deleteRecordings" => Edited(r, x) = {}
<1>1. x.listed \in BOOLEAN
  BY DEF RecordRows
<1>2. (IF r.listed \in {"true", "false"} THEN r.listed = "true" ELSE x.listed)
        = (r.listed = "true" \/ (x.listed /\ r.listed # "false"))
  BY <1>1
<1>3. CASE r.endpoint = "publishRecordings"
  <2>1. Edited(r, x) = {Published(r, x)}
    BY <1>3 DEF Edited, Published
  <2>2. Published(r, x).uuid = x.uuid
    BY DEF RecordRows, Published
  <2>3. QED
    BY <1>3, <2>1, <2>2
<1>4. CASE r.endpoint = "updateRecordings"
  <2>1. Edited(r, x) = {Updated(r, x)}
    BY <1>2, <1>4 DEF Edited, Updated
  <2>2. Updated(r, x).uuid = x.uuid
    BY DEF RecordRows, Updated
  <2>3. QED
    BY <1>4, <2>1, <2>2
<1>5. CASE r.endpoint \notin {"publishRecordings", "updateRecordings"}
  BY <1>5 DEF Edited
<1>6. QED
  BY <1>3, <1>4, <1>5

(***************************************************************************)
(* Whatever the ids and the other parameters are, a call on recordings     *)
(* changes the named recordings of its secret as asked, and leaves every   *)
(* other as it is (api.py:189-257).                                        *)
(***************************************************************************)
THEOREM NamedAreAlwaysEdited ==
    ASSUME NEW r, NEW db, RecordTablesOK(db), NEW Ids, r.ids \in Seq(Ids)
    PROVE  NamedAreEdited(r, db)
<1> DEFINE Acts == r.endpoint \in OfRecordings /\ OfRecordingsAnswer(r) = B3lb("done")
           N == OfTheseIds(r, db)
           After(x) == {y \in RecordsAfter(r, db) : y.uuid = x.uuid}
<1>1. RecordsAfter(r, db) = IF Acts THEN (db.records \ N) \cup UNION {Edited(r, x) : x \in N}
                            ELSE db.records
  BY NamedAreTheirs DEF RecordsAfter
<1>2. /\ \A x, y \in db.records : x.uuid = y.uuid => x = y
      /\ \A x \in db.records : \E Names : x \in RecordRows(Names, db.secrets)
      /\ N \subseteq db.records
  BY DEF RecordTablesOK, OfTheseIds
<1>3. Acts <=> /\ r.endpoint \in OfRecordings /\ r.ids # <<>>
               /\ r.endpoint = "publishRecordings" => r.publish \in {"true", "false", "TRUE"}
  BY DEF OfRecordingsAnswer, B3lb
<1>4. N # {} => r.ids # <<>>
  <2>1. ASSUME r.ids = <<>> PROVE ToSet(r.ids) = {}
    BY <2>1 DEF ToSet
  <2>2. QED
    BY <2>1 DEF OfTheseIds
<1> HIDE DEF Acts, N
<1>5. \A x \in db.records : \A y \in Edited(r, x) : y.uuid = x.uuid
  BY <1>2, EditsKeepTheUuid
<1>6. \A x \in db.records : After(x) = IF Acts /\ x \in N THEN Edited(r, x) ELSE {x}
  <2>1. CASE ~Acts
    <3>1. RecordsAfter(r, db) = db.records
      BY <1>1, <2>1
    <3>2. QED
      BY <1>2, <2>1, <3>1
  <2>2. CASE Acts
    <3>1. RecordsAfter(r, db) = (db.records \ N) \cup UNION {Edited(r, x) : x \in N}
      BY <1>1, <2>2
    <3>2. \A y : y \in RecordsAfter(r, db) <=>
            (y \in db.records /\ y \notin N) \/ \E z \in N : y \in Edited(r, z)
      BY <3>1
    <3>3. ASSUME NEW x \in db.records, NEW y
          PROVE  y \in After(x) <=> y \in (IF x \in N THEN Edited(r, x) ELSE {x})
      BY <1>2, <1>5, <3>2
    <3>4. \A x \in db.records : After(x) = IF x \in N THEN Edited(r, x) ELSE {x}
      BY <3>3
    <3>5. QED
      BY <2>2, <3>4
  <2>3. QED
    BY <2>1, <2>2
<1> HIDE DEF After
<1>7. \A x \in db.records :
        /\ r.endpoint = "publishRecordings" => Edited(r, x) = {Published(r, x)}
        /\ r.endpoint = "updateRecordings" => Edited(r, x) = {Updated(r, x)}
        /\ r.endpoint = "deleteRecordings" => Edited(r, x) = {}
  BY <1>2, EditsKeepTheUuid
<1> DEFINE named == {x \in db.records : x.secret = Asked(r) /\ x.uuid \in ToSet(r.ids)}
           edited == IF r.endpoint = "publishRecordings" /\ r.publish = "" THEN {} ELSE named
           lists == GetRecordings([r EXCEPT !.ids = <<>>, !.meetings = <<>>, !.state = ""],
                                  [db EXCEPT !.records = RecordsAfter(r, db)])
           Open == "" \notin ToSet(r.ids) /\ r.endpoint \in OfRecordings
<1>8. Open => N = named
  BY DEF OfTheseIds, N
<1> HIDE DEF named
<1>9. Open => \A x \in db.records \ edited : After(x) = {x}
  BY <1>3, <1>6, <1>8
<1>10. ASSUME Open, NEW x \in edited
       PROVE  /\ r.endpoint = "deleteRecordings" => After(x) \cap UNION ToSet(lists) = {}
              /\ (r.endpoint = "publishRecordings" /\ r.publish \in {"true", "false"}) =>
                     After(x) = {Published(r, x)}
              /\ r.endpoint = "updateRecordings" => After(x) = {Updated(r, x)}
  <2>1. x \in N /\ x \in db.records
    BY <1>2, <1>8, <1>10
  <2>2. CASE ~Acts
    <3>1. r.endpoint = "publishRecordings" /\ r.publish \notin {"true", "false", "TRUE"}
      BY <1>3, <1>4, <1>10, <2>1, <2>2
    <3>2. QED
      BY <3>1
  <2>3. CASE Acts
    <3>1. After(x) = Edited(r, x)
      BY <1>6, <2>1, <2>3
    <3> HIDE DEF lists
    <3>2. QED
      BY <1>7, <2>1, <3>1
  <2>4. QED
    BY <2>2, <2>3
<1> HIDE DEF edited, lists, Open
<1>11. Open => \A x \in edited :
         /\ r.endpoint = "deleteRecordings" => After(x) \cap UNION ToSet(lists) = {}
         /\ (r.endpoint = "publishRecordings" /\ r.publish \in {"true", "false"}) =>
                After(x) = {Published(r, x)}
         /\ r.endpoint = "updateRecordings" => After(x) = {Updated(r, x)}
  BY <1>10
<1>12. QED
  BY <1>9, <1>11 DEF NamedAreEdited, Asked, named, edited, lists, Open, After, Published, Updated

-----------------------------------------------------------------------------
(* The invariants of MCRules.  An input is chosen once, and the invariants  *)
(* say of it what the theorems above say of any.                            *)

LEMMA StepsChoose ==
    ASSUME Next
    PROVE  \/ UNCHANGED input
           \/ ChooseSamples \/ ChooseLoad \/ ChooseClusters \/ ChooseGroup
           \/ ChooseCall \/ ChooseLimits \/ ChooseHoldTime \/ ChooseSecrets
           \/ ChooseRequest \/ ChooseRecordings \/ ChooseDescribed \/ ChooseSlide
           \/ ChooseStatistics \/ ChooseOverviews \/ ChooseLists \/ ChooseGauges \/ ChooseMeetingLists
           \/ ChooseBoxes \/ ChooseRecording
<1>1. CASE input = NoInput /\ MetricsNext /\ UNCHANGED input
  BY <1>1
<1>2. QED
  BY <1>1 DEF Next

\* What a counter has grown by so far.
LEMMA SumsGrow ==
    ASSUME NEW n \in Nat, NEW g \in [1 .. n -> Nat], NEW i \in 1 .. n
    PROVE  /\ SumFunctionOnSet(g, 1 .. i) \in Nat
           /\ SumFunctionOnSet(g, 1 .. i) = SumFunctionOnSet(g, 1 .. i - 1) + g[i]
           /\ i = 1 => SumFunctionOnSet(g, 1 .. i - 1) = 0
<1> DEFINE V == 1 .. n
           S == 1 .. i - 1
<1>1. IsFiniteSet(V)
  BY FS_Interval
<1>2. /\ g \in [V -> Int] /\ i \in V /\ i \notin S /\ 1 .. i = S \cup {i} /\ (i = 1 => S = {})
      /\ 1 .. i \in SUBSET V /\ S \in SUBSET V /\ \A x \in V : g[x] \in Nat
  OBVIOUS
<1> HIDE DEF V, S
<1>3. SumFunctionOnSet(g, S \cup {i}) = g[i] + SumFunctionOnSet(g, S)
  BY <1>1, <1>2, SumAdd
<1>4. SumFunctionOnSet(g, 1 .. i) = SumFunctionOnSet(g, S \cup {i})
  BY ONLY <1>2
<1>5. SumFunctionOnSet(g, 1 .. i) \in Nat /\ SumFunctionOnSet(g, S) \in Nat
  <2>1. \A U \in SUBSET V : SumFunctionOnSet(g, U) \in Nat
    <3>1. SUFFICES ASSUME NEW U \in SUBSET V PROVE SumFunctionOnSet(g, U) \in Nat
      OBVIOUS
    <3>2. \A x \in U : g[x] \in Nat
      BY <1>2
    <3>3. QED
      BY <1>1, <1>2, <3>2, SumOfNaturals
  <2>2. QED
    BY <1>2, <2>1
<1>6. SumFunctionOnSet(g, {}) = 0
  BY <1>1, <1>2, SumFacts
<1>7. i = 1 => SumFunctionOnSet(g, S) = 0
  BY <1>2, <1>6
<1>8. g[i] \in Nat
  BY <1>2
<1>9. /\ SumFunctionOnSet(g, 1 .. i) \in Nat
      /\ SumFunctionOnSet(g, 1 .. i) = SumFunctionOnSet(g, S) + g[i]
      /\ i = 1 => SumFunctionOnSet(g, S) = 0
  BY <1>3, <1>4, <1>5, <1>7, <1>8
<1>10. QED
  BY <1>9 DEF S

LEMMA AgentInput ==
    ASSUME ChooseSamples
    PROVE  input'.alg = "agent" /\ LoadIsMeasured(input'.samples)
<1> DEFINE Steps == {<<0, 1>>, <<1, 1>>, <<0, 2>>, <<1, 2>>, <<2, 2>>}
           idle(n, f) == [j \in 1 .. n |-> f[j][1]]
           total(n, f) == [j \in 1 .. n |-> f[j][2]]
           counters(n, f) == [i \in 1 .. n |-> [idle |-> SumFunctionOnSet(idle(n, f), 1 .. i),
                                               total |-> SumFunctionOnSet(total(n, f), 1 .. i)]]
<1>1. input'.alg = "agent" /\ input'.samples \in Samples
  BY DEF ChooseSamples, Choose
<1>2. PICK n \in 1 .. 5 : \E f \in [1 .. n -> Steps] : input'.samples = counters(n, f)
  <2>1. Samples = UNION {{counters(n, f) : f \in [1 .. n -> Steps]} : n \in 1 .. 5}
    BY DEF Samples
  <2> HIDE DEF counters, Steps
  <2>2. input'.samples \in UNION {{counters(n, f) : f \in [1 .. n -> Steps]} : n \in 1 .. 5}
    BY <1>1, <2>1
  <2>3. QED
    BY <2>2
<1>0. PICK f \in [1 .. n -> Steps] : input'.samples = counters(n, f)
  BY <1>2
<1> DEFINE s == counters(n, f)
           gi == idle(n, f)
           gt == total(n, f)
<1>3. \A p \in Steps : p[1] \in Nat /\ p[2] \in Nat /\ p[1] <= p[2] /\ 0 < p[2]
  OBVIOUS
<1>4. /\ n \in Nat /\ gi \in [1 .. n -> Nat] /\ gt \in [1 .. n -> Nat]
      /\ \A i \in 1 .. n : gi[i] <= gt[i] /\ 0 < gt[i]
  <2>1. \A i \in 1 .. n : f[i] \in Steps
    OBVIOUS
  <2> HIDE DEF Steps
  <2>2. QED
    BY <1>3, <2>1
<1>5. s = [i \in 1 .. n |-> [idle |-> SumFunctionOnSet(gi, 1 .. i), total |-> SumFunctionOnSet(gt, 1 .. i)]]
  OBVIOUS
<1> HIDE DEF s, gi, gt
<1>6. \A i \in 1 .. n :
        /\ SumFunctionOnSet(gi, 1 .. i) \in Nat /\ SumFunctionOnSet(gt, 1 .. i) \in Nat
        /\ SumFunctionOnSet(gi, 1 .. i) = SumFunctionOnSet(gi, 1 .. i - 1) + gi[i]
        /\ SumFunctionOnSet(gt, 1 .. i) = SumFunctionOnSet(gt, 1 .. i - 1) + gt[i]
        /\ i = 1 => SumFunctionOnSet(gi, 1 .. i - 1) = 0 /\ SumFunctionOnSet(gt, 1 .. i - 1) = 0
  BY <1>4, SumsGrow
<1>7. s \in Seq([idle : Nat, total : Nat]) /\ Len(s) = n
  <2> DEFINE R == [idle : Nat, total : Nat]
  <2>1. \A i \in 1 .. n : [idle |-> SumFunctionOnSet(gi, 1 .. i), total |-> SumFunctionOnSet(gt, 1 .. i)] \in R
    BY <1>6
  <2> HIDE DEF R
  <2>2. s \in [1 .. n -> R]
    BY <1>5, <2>1
  <2>3. s \in Seq(R) /\ Len(s) = n
    BY <1>4, <2>2
  <2>4. QED
    BY <2>3 DEF R
<1>8. \A i \in 0 .. n : /\ IdleOf(s)[i] = IF i = 0 THEN 0 ELSE SumFunctionOnSet(gi, 1 .. i)
                        /\ TotalOf(s)[i] = IF i = 0 THEN 0 ELSE SumFunctionOnSet(gt, 1 .. i)
  <2>1. \A i \in 1 .. n : s[i].idle = SumFunctionOnSet(gi, 1 .. i) /\ s[i].total = SumFunctionOnSet(gt, 1 .. i)
    BY <1>5
  <2>2. \A i \in 0 .. n : i \in Nat /\ (i = 0 <=> i \notin 1 .. n)
    BY <1>4
  <2>3. QED
    BY <1>7, <2>1, <2>2 DEF IdleOf, TotalOf
<1>9. ASSUME NEW i \in 1 .. n
      PROVE  /\ IdleOf(s)[i - 1] <= IdleOf(s)[i]
             /\ TotalOf(s)[i - 1] < TotalOf(s)[i]
             /\ IdleOf(s)[i] - IdleOf(s)[i - 1] <= TotalOf(s)[i] - TotalOf(s)[i - 1]
  <2> DEFINE a == SumFunctionOnSet(gi, 1 .. i - 1)
             b == SumFunctionOnSet(gt, 1 .. i - 1)
             c == SumFunctionOnSet(gi, 1 .. i)
             d == SumFunctionOnSet(gt, 1 .. i)
             h == i - 1
  <2>1. i \in 0 .. n /\ h \in 0 .. n /\ i # 0 /\ (h = 0 <=> i = 1) /\ (h # 0 => h \in 1 .. n)
    BY <1>4
  <2>2. c = a + gi[i] /\ d = b + gt[i] /\ (i = 1 => a = 0 /\ b = 0)
    BY <1>6
  <2>3. a \in Nat /\ b \in Nat /\ IdleOf(s)[h] = a /\ TotalOf(s)[h] = b
    <3>1. CASE h = 0
      BY <1>8, <2>1, <2>2, <3>1
    <3>2. CASE h # 0
      BY <1>6, <1>8, <2>1, <3>2
    <3>3. QED
      BY <3>1, <3>2
  <2>4. IdleOf(s)[i] = c /\ TotalOf(s)[i] = d
    BY <1>8, <2>1
  <2>5. gi[i] \in Nat /\ gt[i] \in Nat /\ gi[i] <= gt[i] /\ 0 < gt[i]
    BY <1>4
  <2> HIDE DEF a, b, c, d, h
  <2>6. /\ IdleOf(s)[h] <= IdleOf(s)[i] /\ TotalOf(s)[h] < TotalOf(s)[i]
        /\ IdleOf(s)[i] - IdleOf(s)[h] <= TotalOf(s)[i] - TotalOf(s)[h]
    BY <2>2, <2>3, <2>4, <2>5
  <2>7. QED
    BY <2>6 DEF h
<1>10. Sampling(s)
  BY <1>7, <1>9 DEF Sampling
<1>11. input'.samples = s
  BY <1>0 DEF s
<1>12. QED
  BY <1>1, <1>10, <1>11, LoadIsAlwaysMeasured

LEMMA LoadInput ==
    ASSUME ChooseLoad
    PROVE  /\ input'.alg = "load"
           /\ LoadIsOrdered(input'.n, input'.o, input'.c)
           /\ AvailableIsPickable({input'.n, input'.o}, input'.c)
<1>1. /\ input'.alg = "load" /\ input'.n \in NodeRows /\ input'.o \in NodeRows /\ input'.c \in ClusterRows
  BY DEF ChooseLoad, Choose
<1>2. NodeRows \subseteq NodeRecord
  BY InputsOK, CpuAssumption DEF NodeRows, NodeRecord
<1>3. ClusterRows \subseteq ClusterRecord
  BY DEF ClusterRows, ClusterRecord
<1>4. \A n \in NodeRecord : IsNode(n)
  BY DEF NodeRecord, IsNode
<1> DEFINE two == {input'.n, input'.o}
<1>5. IsFiniteSet(two) /\ \A n \in two : IsNode(n)
  <2>1. IsFiniteSet({input'.n}) /\ IsFiniteSet({input'.o}) /\ two = {input'.n} \cup {input'.o}
    BY FS_Singleton
  <2>2. IsFiniteSet({input'.n} \cup {input'.o})
    BY <2>1, FS_Union
  <2>3. QED
    BY <1>1, <1>2, <1>4, <2>1, <2>2
<1> HIDE DEF two
<1>6. AvailableIsPickable(two, input'.c)
  BY <1>1, <1>3, <1>5, AvailableIsAlwaysPickable
<1>7. QED
  BY <1>1, <1>2, <1>3, <1>6, LoadIsAlwaysOrdered DEF two

LEMMA ClustersInput ==
    ASSUME ChooseClusters
    PROVE  input'.alg = "clusters" /\ ChoiceIsLowest(input'.loads, input'.more)
<1>1. /\ input'.alg = "clusters"
      /\ input'.loads \in Loads({"n1", "n2"}) /\ input'.more \in Loads({"n3", "n4"})
  BY DEF ChooseClusters, Choose
<1>2. PICK S \in SUBSET {"n1", "n2"} : input'.loads \in [S -> -2 .. LoadCap + 1]
  BY <1>1 DEF Loads
<1>3. PICK T \in SUBSET {"n3", "n4"} : input'.more \in [T -> -2 .. LoadCap + 1]
  BY <1>1 DEF Loads
<1>4. -2 .. LoadCap + 1 \subseteq Int
  BY LoadCapAssumption
<1>5. S \cap T = {} /\ input'.loads \in [S -> Int] /\ input'.more \in [T -> Int]
  <2> HIDE DEF Loads
  <2>1. S \cap T = {}
    OBVIOUS
  <2>2. QED
    BY <1>2, <1>3, <1>4, <2>1
<1>6. QED
  BY <1>1, <1>5, ChoiceIsAlwaysLowest

LEMMA GroupInput ==
    ASSUME ChooseGroup
    PROVE  input'.alg = "group" /\ GroupsShowTheirNodes(input'.relations, input'.nodes, input'.c)
<1> DEFINE Rows == [cluster : {"k1", "k2"}, attendees : {2}, meetings : {1}, cpu : {3},
                    err : BOOLEAN, maint : BOOLEAN]
<1>1. /\ input'.alg = "group" /\ input'.nodes \in SUBSET Rows /\ input'.c \in ClusterRows
      /\ input'.relations \in {<<>>, <<"k1">>, <<"k2", "k1">>, <<"k1", "k2", "k1">>}
  BY DEF ChooseGroup, Choose
<1>2. input'.relations \in Seq({"k1", "k2"})
  <2> DEFINE Two == {"k1", "k2"}
  <2>1. \A a, b, c \in Two : /\ <<>> \in Seq(Two) /\ <<a>> \in Seq(Two)
                            /\ <<a, b>> \in Seq(Two) /\ <<a, b, c>> \in Seq(Two)
    <3> HIDE DEF Two
    <3>1. QED
      OBVIOUS
  <2>2. "k1" \in Two /\ "k2" \in Two
    OBVIOUS
  <2> HIDE DEF Two
  <2>3. input'.relations \in Seq(Two)
    BY <1>1, <2>1, <2>2
  <2>4. QED
    BY <2>3 DEF Two
<1>3. ClusterRows \subseteq ClusterRecord
  BY DEF ClusterRows, ClusterRecord
<1>4. \A n \in Rows : IsNode(n)
  <2>1. ASSUME NEW n \in Rows PROVE IsNode(n)
    <3>1. n.attendees = 2 /\ n.meetings = 1 /\ n.cpu = 3 /\ n.err \in BOOLEAN /\ n.maint \in BOOLEAN
      OBVIOUS
    <3> HIDE DEF Rows
    <3>2. QED
      BY <3>1, InputsOK, CpuAssumption DEF IsNode
  <2>2. QED
    BY <2>1
<1>5. IsFiniteSet(Rows)
  <2> DEFINE Fields == {"k1", "k2"} \X (BOOLEAN \X BOOLEAN)
             row == [f \in Fields |-> [cluster |-> f[1], attendees |-> 2, meetings |-> 1, cpu |-> 3,
                                       err |-> f[2][1], maint |-> f[2][2]]]
  <2>1. IsFiniteSet(Fields)
    <3>1. IsFiniteSet({"k1", "k2"}) /\ IsFiniteSet(BOOLEAN)
      <4>1. {"k1", "k2"} = {"k1"} \cup {"k2"} /\ BOOLEAN = {TRUE} \cup {FALSE}
        OBVIOUS
      <4>2. IsFiniteSet({"k1"} \cup {"k2"}) /\ IsFiniteSet({TRUE} \cup {FALSE})
        BY FS_Singleton, FS_Union
      <4>3. QED
        BY <4>1, <4>2
    <3>2. QED
      BY <3>1, FS_Product
  <2>2. ASSUME NEW r \in Rows PROVE \E f \in Fields : row[f] = r
    <3>1. <<r.cluster, <<r.err, r.maint>>>> \in Fields
      BY <2>2
    <3>2. r = [cluster |-> r.cluster, attendees |-> 2, meetings |-> 1, cpu |-> 3, err |-> r.err, maint |-> r.maint]
      BY <2>2
    <3>3. QED
      BY <3>1, <3>2
  <2>3. row \in [Fields -> Rows]
    OBVIOUS
  <2> HIDE DEF Fields, row, Rows
  <2>4. row \in Surjection(Fields, Rows)
    BY <2>2, <2>3 DEF Surjection
  <2>5. QED
    BY <2>1, <2>4, FS_Surjection
<1> HIDE DEF Rows
<1>6. IsFiniteSet(input'.nodes) /\ \A n \in input'.nodes : IsNode(n)
  BY <1>1, <1>4, <1>5, FS_Subset
<1>7. QED
  BY <1>1, <1>2, <1>3, <1>6, GroupsAlwaysShowTheirNodes

LEMMA LimitsInput ==
    ASSUME ChooseLimits
    PROVE  input'.alg = "limits" /\ LimitsBind(input'.t, input'.s, input'.own)
<1>1. /\ input'.alg = "limits"
      /\ input'.t \in Limited /\ input'.s \in Limited /\ input'.own \in BOOLEAN
  BY DEF ChooseLimits, Choose
<1>2. Limited \subseteq LimitedBy
  BY DEF Limited, LimitedBy
<1>3. QED
  BY <1>1, <1>2, LimitsAlwaysBind

LEMMA HoldTimeInput ==
    ASSUME ChooseHoldTime
    PROVE  input'.alg = "hold" /\ HoldTimesHold(input'.age, input'.s, input'.t)
<1>1. input'.alg = "hold" /\ input'.age \in Nat /\ input'.s \in Nat /\ input'.t \in Nat
  BY DEF ChooseHoldTime, Choose
<1>2. QED
  BY <1>1, HoldTimesAlwaysHold

LEMMA SecretsInput ==
    ASSUME ChooseSecrets
    PROVE  input'.alg = "secrets" /\ SecretsAreKept(input'.secrets, input'.n, input'.m)
<1>1. /\ input'.alg = "secrets" /\ input'.n \in Nat /\ input'.m \in Nat
      /\ input'.secrets \in Functions(0 .. 3, {"used"})
  BY DEF ChooseSecrets, Choose
<1>2. input'.secrets = [i \in DOMAIN input'.secrets |-> input'.secrets[i]]
  BY <1>1 DEF Functions
<1>3. QED
  BY <1>1, <1>2, SecretsAreAlwaysKept

LEMMA CallInput ==
    ASSUME ChooseCall
    PROVE  input'.alg = "call" /\ ParametersDecided(input'.call, input'.t)
<1>1. PICK names, in : /\ input'.alg = "call" /\ input'.call.endpoint \in {"create", "join"}
                       /\ input' \in [alg : {"call"}, call : [endpoint : {"create", "join"}, created : BOOLEAN,
                                                  params : Functions(names, {"client"})],
                             t : [rules : Rules(in), css : BOOLEAN, logo : BOOLEAN, record : BOOLEAN]]
  BY DEF ChooseCall, Choose
<1>2. PICK P : input'.call.params \in [P -> {"client"}]
  BY <1>1 DEF Functions
<1>3. PICK R : input'.t.rules \in [R -> [mode : Modes, value : {"tenant"}]]
  BY <1>1 DEF Rules, Modes
<1>4. input'.call \in CallOf(input'.call.params) /\ input'.t \in TenantWith(input'.t.rules)
  BY <1>1 DEF CallOf, TenantWith
<1>5. QED
  BY <1>1, <1>2, <1>3, <1>4, ParametersAlwaysDecided

LEMMA DescribedInput == ChooseDescribed => input'.alg = "described"
  BY DEF ChooseDescribed, Choose

LEMMA SlideInput ==
    ASSUME ChooseSlide
    PROVE  input'.alg = "slide" /\ SlideIsDelivered(input'.method, input'.asset)
<1>1. MaxSlideSize \in Nat
  BY RequestConstantsOK DEF MaxSlideSize
<1>2. /\ input'.alg = "slide" /\ input'.method \in {"GET", "POST"}
      /\ input'.asset \in Slide \cup {None}
  BY <1>1 DEF ChooseSlide, Choose, Slide
<1>3. QED
  BY <1>2, SlidesAlwaysArrive

LEMMA ListsInput ==
    ASSUME ChooseMeetingLists
    PROVE  input'.alg = "meeting lists" /\ ListsHaveTheirMeetings(Three, input'.rows, input'.answers)
<1>1. PICK p \in Placed, in \in SUBSET Three : input' = MeetingLists(p, in)
  BY DEF ChooseMeetingLists, Choose
<1>2. input'.alg = "meeting lists" /\ input'.rows = {r \in RowsOf(p) : r.secret \in in}
  BY <1>1 DEF MeetingLists
<1>3. \A r \in input'.rows : r.secret \in Three
  BY <1>2
<1>4. QED
  BY <1>2, <1>3, ListsAlwaysHaveTheirMeetings

LEMMA RequestInput ==
    ASSUME ChooseRequest
    PROVE  input'.alg = "request" /\ CallsReachTheirMeeting(input'.r, input'.db)
<1>1. /\ input'.alg = "request" /\ input'.db.secrets = {"s1", "s2"}
      /\ input'.db.healthy \subseteq {"n1", "n2"} /\ input'.db.meetings \in MeetingTables
  BY DEF ChooseRequest, Choose
<1>2. \A m \in input'.db.meetings : m.id = "m1" /\ m.secret \in {"s1", "s2"}
  BY <1>1 DEF MeetingTables
<1>3. TablesOK(input'.db)
  BY <1>1, <1>2, InputsOK DEF TablesOK
<1>4. QED
  BY <1>1, <1>3, CallsAlwaysReachTheirMeeting

LEMMA RecordingsInput ==
    ASSUME ChooseRecordings
    PROVE  /\ input'.alg = "recordings"
           /\ RecordingsListed(input'.r, input'.db) /\ NamedAreEdited(input'.r, input'.db)
<1>1. /\ input'.alg = "recordings" /\ input'.r \in OnRecordings
      /\ input'.db.secrets = {"s1", "s2"} /\ input'.db.recording \subseteq {"s1", "s2"}
      /\ input'.db.records \in RecordTables
  BY DEF ChooseRecordings, Choose, ListOrEditCalls
<1> DEFINE Ids == {"", "u1", "u2", "u3", "x", "m1", "m2"}
<1>2. input'.r.ids \in Seq(Ids) /\ input'.r.meetings \in Seq(Ids)
  <2>1. \A a, b, c \in Ids : /\ <<>> \in Seq(Ids) /\ <<a>> \in Seq(Ids)
                            /\ <<a, b>> \in Seq(Ids) /\ <<a, b, c>> \in Seq(Ids)
    <3> HIDE DEF Ids
    <3>1. QED
      OBVIOUS
  <2>2. /\ input'.r.ids \in {<<>>, <<"u1">>, <<"u1", "">>, <<"u1", "u3">>, <<"u2", "u1">>, <<"u1", "x", "u1">>}
        /\ input'.r.meetings \in {<<>>, <<"m1">>, <<"m2", "m1">>}
    BY <1>1 DEF OnRecordings
  <2>3. {"", "u1", "u2", "u3", "x", "m1", "m2"} \subseteq Ids
    OBVIOUS
  <2> HIDE DEF Ids
  <2>4. QED
    BY <2>1, <2>2, <2>3
<1>3. PICK p \in [{"u1", "u2", "u3"} -> BOOLEAN], size \in 0 .. 1,
           timed \in {{"u1", "u2", "u3"}, {"u1", "u2"}, {"u2", "u3"}} :
        input'.db.records = {RecordRow(u, p, size, timed) : u \in {"u1", "u2", "u3"}}
  BY <1>1 DEF RecordTables
<1> DEFINE Names == {"u1", "u2", "u3", "m1", "m2", "old"}
<1>4. \A u \in {"u1", "u2", "u3"} :
        /\ RecordRow(u, p, size, timed) \in RecordRows(Names, {"s1", "s2"})
        /\ RecordRow(u, p, size, timed).uuid = u
  BY DEF RecordRow, RecordRows
<1>5. RecordTablesOK(input'.db)
  <2>1. \E X : input'.db.records \subseteq RecordRows(X, {"s1", "s2"})
    <3> HIDE DEF Names
    <3>1. input'.db.records \subseteq RecordRows(Names, {"s1", "s2"})
      BY <1>3, <1>4
    <3>2. QED
      BY <3>1
  <2>2. \A x, y \in input'.db.records : x.uuid = y.uuid => x = y
    BY <1>3, <1>4
  <2>3. QED
    BY <1>1, <2>1, <2>2, InputsOK DEF RecordTablesOK
<1> HIDE DEF Ids
<1>6. QED
  BY <1>1, <1>2, <1>5, RecordingsAlwaysListed, NamedAreAlwaysEdited

LEMMA StatisticsInput ==
    ASSUME ChooseStatistics
    PROVE  input'.alg = "statistics" /\ OriginsAreSummed(input'.rows, input'.meetings)
<1> DEFINE texts == {"gl", "moodle", "host"}
           R == StatsRecord(texts)
           gl == StatsRow("gl")
           moodle == StatsRow("moodle")
<1>1. input'.alg = "statistics" /\ input'.rows \in StatsRows
  BY DEF ChooseStatistics, Choose
<1>2. gl \in R /\ moodle \in R /\ Origin(gl) # Origin(moodle)
  BY DEF StatsRow, StatsRecord, Origin
<1> HIDE DEF R, gl, moodle
<1>3. input'.rows \in {<<>>, <<gl>>, <<gl, moodle>>, <<moodle, gl>>}
  BY <1>1 DEF StatsRows, gl, moodle
<1>4. ASSUME NEW rows \in {<<>>, <<gl>>, <<gl, moodle>>, <<moodle, gl>>}
      PROVE  rows \in Seq(R) /\ \A i, j \in DOMAIN rows : i # j => Origin(rows[i]) # Origin(rows[j])
  <2>1. CASE rows = <<>>
    BY <2>1
  <2>2. CASE rows = <<gl>>
    BY <1>2, <2>2
  <2>3. CASE rows = <<gl, moodle>>
    BY <1>2, <2>3
  <2>4. CASE rows = <<moodle, gl>>
    BY <1>2, <2>4
  <2>5. QED
    BY <1>4, <2>1, <2>2, <2>3, <2>4
<1>5. StatsOf(input'.rows, texts)
  BY <1>3, <1>4 DEF StatsOf, R
<1>6. QED
  BY <1>1, <1>5, OriginsAreAlwaysSummed

LEMMA OverviewsInput ==
    ASSUME ChooseOverviews
    PROVE  input'.alg = "overviews" /\ OverviewsAgree({"t1", "t2", "t3"}, input'.meetings)
<1> DEFINE K == Tenants1 \cup {[tenant |-> t, sub |-> 0] : t \in {"t2", "t3"}}
           S == [K -> {-1, 0, 1, 2}]
<1>1. input' \in {[alg |-> "overviews", meetings |-> MeetingsOn(on)] : on \in S}
  BY Zenon DEF ChooseOverviews, Choose
<1>2. \A x \in K : x.tenant \in {"t1", "t2", "t3"}
  BY DEF Tenants1
<1>3. IsFiniteSet(K)
  <2>1. IsFiniteSet(Tenants1)
    <3>1. Tenants1 = {[tenant |-> "t1", sub |-> 0]} \cup {[tenant |-> "t1", sub |-> 1]}
      BY DEF Tenants1
    <3>2. IsFiniteSet({[tenant |-> "t1", sub |-> 0]} \cup {[tenant |-> "t1", sub |-> 1]})
      BY FS_Singleton, FS_Union
    <3>3. QED
      BY ONLY <3>1, <3>2
  <2> DEFINE two == {[tenant |-> t, sub |-> 0] : t \in {"t2", "t3"}}
  <2>2. IsFiniteSet(two)
    <3>1. two = {[tenant |-> "t2", sub |-> 0]} \cup {[tenant |-> "t3", sub |-> 0]}
      OBVIOUS
    <3>2. IsFiniteSet({[tenant |-> "t2", sub |-> 0]} \cup {[tenant |-> "t3", sub |-> 0]})
      BY FS_Singleton, FS_Union
    <3>3. QED
      BY ONLY <3>1, <3>2
  <2> HIDE DEF two
  <2>3. IsFiniteSet(Tenants1 \cup two)
    BY <2>1, <2>2, FS_Union
  <2>4. QED
    BY ONLY <2>3 DEF two
<1> HIDE DEF K
<1>4. ASSUME NEW on \in S PROVE MeetingsOf({"t1", "t2", "t3"}, MeetingsOn(on))
  <2> DEFINE M == MeetingsOn(on)
             row == [s \in K |-> [id |-> "m1", secret |-> s, origin |-> "gl", server |-> "host",
                                 healthy |-> FALSE, attendees |-> on[s], voice |-> 0]]
             used == {x \in K : on[x] >= 0}
  <2>1. DOMAIN on = K /\ \A x \in K : on[x] \in {-1, 0, 1, 2}
    OBVIOUS
  <2>2. \A m \in M : m.secret \in used /\ m = row[m.secret] /\ m.attendees = on[m.secret]
    BY <2>1 DEF MeetingsOn
  <2>3. \A m \in M : m.secret.tenant \in {"t1", "t2", "t3"} /\ m.attendees \in Nat
    <3> HIDE DEF M, row, S
    <3>1. QED
      BY <1>2, <2>1, <2>2
  <2>4. IsFiniteSet(used)
    BY <1>3, FS_Subset
  <2>5. M = {row[s] : s \in used}
    BY <2>1 DEF MeetingsOn
  <2>6. IsFiniteSet(M)
    <3> DEFINE f == [s \in used |-> row[s]]
    <3> HIDE DEF row, used, M
    <3>1. f \in [used -> M] /\ \A y \in M : \E x \in used : f[x] = y
      BY <2>5
    <3> HIDE DEF f
    <3>2. QED
      BY <2>4, <3>1, CoveredIsFinite
  <2>7. IsFiniteSet({"t1", "t2", "t3"})
    <3>1. {"t1", "t2", "t3"} = {"t1"} \cup ({"t2"} \cup {"t3"})
      OBVIOUS
    <3>2. IsFiniteSet({"t1"} \cup ({"t2"} \cup {"t3"}))
      BY FS_Singleton, FS_Union
    <3>3. QED
      BY ONLY <3>1, <3>2
  <2>8. QED
    BY <2>3, <2>6, <2>7 DEF MeetingsOf
<1>5. PICK on \in S : input' = [alg |-> "overviews", meetings |-> MeetingsOn(on)]
  <2> HIDE DEF S
  <2>1. QED
    BY <1>1
<1>6. input'.alg = "overviews" /\ input'.meetings = MeetingsOn(on)
  BY <1>5
<1>7. QED
  BY <1>4, <1>6, OverviewsAlwaysAgree

LEMMA SecretsAreFinite == IsFiniteSet(AllSecrets) /\ IsFiniteSet(Three)
<1>1. AllSecrets = ({[tenant |-> "t1", sub |-> 0]} \cup {[tenant |-> "t1", sub |-> 1]})
                     \cup ({[tenant |-> "t2", sub |-> 0]} \cup {[tenant |-> "t2", sub |-> 7]})
  BY DEF AllSecrets, Tenants1
<1>2. IsFiniteSet(({[tenant |-> "t1", sub |-> 0]} \cup {[tenant |-> "t1", sub |-> 1]})
                     \cup ({[tenant |-> "t2", sub |-> 0]} \cup {[tenant |-> "t2", sub |-> 7]}))
  BY FS_Singleton, FS_Union
<1>3. IsFiniteSet(AllSecrets)
  BY ONLY <1>1, <1>2
<1>4. Three \in SUBSET AllSecrets
  BY DEF Three
<1>5. QED
  BY <1>3, <1>4, FS_Subset

LEMMA WeightsAreNumbers ==
    ASSUME NEW id, NEW x
    PROVE  Weight(id, x) \in Int
  BY DEF Weight

\* There is one row of Metric for a name, a secret and a node.
LEMMA RowsOfMetric ==
    ASSUME NEW names, IsFiniteSet(names), NEW secrets, IsFiniteSet(secrets), NEW nodes, IsFiniteSet(nodes),
           NEW metrics,
           \A m \in metrics : m.name \in names /\ m.secret \in secrets /\ m.node \in nodes /\ m.value \in Int,
           \A m, o \in metrics : m.name = o.name /\ m.secret = o.secret /\ m.node = o.node => m = o
    PROVE  MetricsOf(secrets, metrics)
<1> DEFINE K == names \X (secrets \X nodes)
           f == [m \in metrics |-> <<m.name, <<m.secret, m.node>>>>]
<1>1. IsFiniteSet(K)
  <2>1. IsFiniteSet(secrets \X nodes)
    BY FS_Product
  <2> DEFINE pairs == secrets \X nodes
  <2> HIDE DEF pairs
  <2>2. IsFiniteSet(names \X pairs)
    BY <2>1, FS_Product DEF pairs
  <2>3. QED
    BY ONLY <2>2 DEF pairs
<1>2. f \in [metrics -> K]
  <2>1. \A m \in metrics : <<m.name, <<m.secret, m.node>>>> \in K
    OBVIOUS
  <2> HIDE DEF K
  <2>2. QED
    BY <2>1
<1>3. ASSUME NEW m \in metrics, NEW o \in metrics, f[m] = f[o] PROVE m = o
  <2>1. f[m] = <<m.name, <<m.secret, m.node>>>> /\ f[o] = <<o.name, <<o.secret, o.node>>>>
    OBVIOUS
  <2>2. m.name = o.name /\ m.secret = o.secret /\ m.node = o.node
    BY ONLY <1>3, <2>1
  <2>3. QED
    BY <2>2
<1> HIDE DEF f, K
<1>4. f \in Injection(metrics, K)
  BY <1>2, <1>3 DEF Injection, IsInjective
<1>5. IsFiniteSet(metrics)
  BY <1>1, <1>4, FS_Injection
<1>6. QED
  BY <1>5 DEF MetricsOf

LEMMA MetricListsInput ==
    ASSUME ChooseLists
    PROVE  input'.alg = "lists" /\ TenantsAreSummed(AllSecrets, input'.metrics, input'.total, input'.s)
<1> DEFINE two == {"n1", "n2"}
<1>1. PICK total \in BOOLEAN, s \in AllSecrets, nodes \in SUBSET two, table \in MetricTables :
        input' = [alg |-> "lists", total |-> total, s |-> s, metrics |-> {m \in table : m.node \in nodes}]
  BY DEF ChooseLists, Choose
<1>2. PICK names \in SUBSET GaugeNames, xs \in SUBSET AllSecrets : table = MetricTable(names, xs)
  BY DEF MetricTables
<1>3. IsFiniteSet(names) /\ IsFiniteSet(two)
  <2>1. GaugeNames = {"attendees"} \cup {"meetings"} /\ two = {"n1"} \cup {"n2"}
    BY DEF GaugeNames
  <2>2. IsFiniteSet({"attendees"} \cup {"meetings"}) /\ IsFiniteSet({"n1"} \cup {"n2"})
    BY FS_Singleton, FS_Union
  <2>3. IsFiniteSet(GaugeNames) /\ IsFiniteSet(two)
    BY ONLY <2>1, <2>2
  <2>4. QED
    BY <2>3, FS_Subset
<1> DEFINE metrics == {m \in table : m.node \in nodes}
           value(x, n) == Weight("m2", x) + (IF n = "n1" THEN 8 ELSE 0)
           row(name, x, n) == [name |-> name, secret |-> x, node |-> n, value |-> value(x, n)]
<1>4. ASSUME NEW m \in metrics
      PROVE  /\ m.name \in names /\ m.secret \in AllSecrets /\ m.node \in two /\ m.value \in Int
             /\ m = row(m.name, m.secret, m.node)
  <2>1. PICK name \in names, x \in xs, n \in two : m = row(name, x, n)
    BY <1>2, <1>4 DEF MetricTable
  <2>2. value(x, n) \in Int
    BY WeightsAreNumbers
  <2> HIDE DEF value
  <2>3. m.name = name /\ m.secret = x /\ m.node = n /\ m.value = value(x, n)
    BY <2>1
  <2> HIDE DEF row, two, metrics
  <2>4. QED
    BY <2>1, <2>2, <2>3
<1> HIDE DEF value, row, two, metrics
<1>5. MetricsOf(AllSecrets, metrics)
  <2>1. \A m, o \in metrics : m.name = o.name /\ m.secret = o.secret /\ m.node = o.node => m = o
    BY <1>4
  <2>2. QED
    BY <1>3, <1>4, <2>1, SecretsAreFinite, RowsOfMetric
<1>6. input'.alg = "lists" /\ input'.metrics = metrics /\ input'.total = total /\ input'.s = s
  BY <1>1 DEF metrics
<1>7. QED
  BY <1>5, <1>6, TenantsAreAlwaysSummed

LEMMA GaugesInput ==
    ASSUME ChooseGauges
    PROVE  /\ input'.alg = "gauges"
           /\ GaugesFollowTheNodes(input'.metrics, Three, input'.rows, input'.reports)
<1> DEFINE two == {"n1", "n2"}
           names == {"attendees", "meetings"}
           M(xs) == {[name |-> name, secret |-> x, node |-> n, value |-> Weight("m1", x)] :
                       name \in names, x \in xs, n \in two}
           R == UNION {[d -> UNION {[ids -> {1, 2}] : ids \in SUBSET {"m1", "m2"}}] : d \in SUBSET two}
<1>1. PICK p \in Placed, xs \in {{}, Tenants1, Three}, reports \in R :
        input' = [alg |-> "gauges", rows |-> RowsOf(p), reports |-> reports, metrics |-> M(xs)]
  BY DEF ChooseGauges, Choose
<1>2. IsFiniteSet(names) /\ IsFiniteSet(two)
  <2>1. names = {"attendees"} \cup {"meetings"} /\ two = {"n1"} \cup {"n2"}
    OBVIOUS
  <2>2. IsFiniteSet({"attendees"} \cup {"meetings"}) /\ IsFiniteSet({"n1"} \cup {"n2"})
    BY FS_Singleton, FS_Union
  <2>3. QED
    BY ONLY <2>1, <2>2
<1>3. xs \in SUBSET Three
  BY DEF Three, AllSecrets, Tenants1
<1>4. MetricsOf(Three, M(xs))
  <2>1. ASSUME NEW m \in M(xs)
        PROVE  /\ m.name \in names /\ m.secret \in Three /\ m.node \in two /\ m.value \in Int
               /\ m = [name |-> m.name, secret |-> m.secret, node |-> m.node, value |-> Weight("m1", m.secret)]
    <3>1. PICK name \in names, x \in xs, n \in two :
            m = [name |-> name, secret |-> x, node |-> n, value |-> Weight("m1", x)]
      BY <2>1
    <3>2. m.name = name /\ m.secret = x /\ m.node = n /\ m.value = Weight("m1", x)
      BY <3>1
    <3> HIDE DEF names, two
    <3>3. QED
      BY <1>3, <3>1, <3>2, WeightsAreNumbers
  <2> HIDE DEF M, two, names
  <2>2. \A m, o \in M(xs) : m.name = o.name /\ m.secret = o.secret /\ m.node = o.node => m = o
    BY <2>1
  <2>3. QED
    BY <1>2, <2>1, <2>2, SecretsAreFinite, RowsOfMetric
<1>5. IsFiniteSet(RowsOf(p)) /\ \A m \in RowsOf(p) : m.secret \in Three
  <2> DEFINE used == {y \in Three : p[y] # None}
             f == [x \in used |-> [id |-> p[x][1], secret |-> x, node |-> p[x][2]]]
  <2>1. f \in [used -> RowsOf(p)] /\ \A y \in RowsOf(p) : \E x \in used : f[x] = y
    BY DEF RowsOf
  <2>2. \A m \in RowsOf(p) : m.secret \in Three
    BY DEF RowsOf
  <2>3. IsFiniteSet(used)
    BY SecretsAreFinite, FS_Subset
  <2> HIDE DEF f, used
  <2>4. IsFiniteSet(RowsOf(p))
    BY <2>1, <2>3, CoveredIsFinite
  <2>5. QED
    BY <2>2, <2>4
<1>6. IsFiniteSet(DOMAIN reports) /\ \A n \in DOMAIN reports : \A i \in DOMAIN reports[n] : reports[n][i] \in Int
  <2> DEFINE answers == UNION {[ids -> {1, 2}] : ids \in SUBSET {"m1", "m2"}}
  <2>1. PICK d \in SUBSET two : reports \in [d -> answers]
    OBVIOUS
  <2>2. ASSUME NEW a \in answers PROVE \A i \in DOMAIN a : a[i] \in Int
    <3>1. PICK ids \in SUBSET {"m1", "m2"} : a \in [ids -> {1, 2}]
      BY <2>2
    <3>2. QED
      BY <3>1
  <2> HIDE DEF answers, two
  <2>3. QED
    BY <1>2, <2>1, <2>2, FS_Subset
<1>7. GaugesOf(M(xs), Three, RowsOf(p), reports)
  <2> HIDE DEF M, R
  <2>1. QED
    BY <1>4, <1>5, <1>6 DEF GaugesOf
<1>8. input'.alg = "gauges" /\ input'.metrics = M(xs) /\ input'.rows = RowsOf(p) /\ input'.reports = reports
  <2> HIDE DEF M, R
  <2>1. QED
    BY <1>1
<1>9. QED
  BY <1>7, <1>8, GaugesAlwaysFollowTheNodes

\* The frames and recordings that are chosen are of the kinds that
\* BoxesAlwaysFit and RecordingsAlwaysShown are about.
LEMMA BoxesInput ==
    ASSUME ChooseBoxes
    PROVE  input'.alg = "boxes" /\ BoxesFit(input'.opts, input'.w, input'.h)
<1>1. /\ input'.alg = "boxes"
      /\ input'.opts \in [width : {16, 19, 64}, height : {9, 12, 36}, webcam_size : {0, 20, 33, 100}, stretch : BOOLEAN]
      /\ input'.w \in {1, 3, 4, 16} /\ input'.h \in {1, 3, 9, 20}
  BY DEF ChooseBoxes, Choose
<1>2. input'.opts \in [width : Nat, height : Nat, webcam_size : 0 .. 100, stretch : BOOLEAN]
  BY <1>1
<1>3. input'.w \in Nat \ {0} /\ input'.h \in Nat \ {0}
  BY <1>1
<1>4. QED
  BY <1>1, <1>2, <1>3, BoxesAlwaysFit

LEMMA ListFrom ==
    ASSUME NEW n \in Nat, NEW R, NEW f \in [1 .. n -> R]
    PROVE  f \in Seq(R)
OBVIOUS

\* A recording put together from its parts.
LEMMA RecordingFrom ==
    ASSUME NEW end \in Int, NEW deskEnd \in Int, NEW cuts \in SUBSET (Int \X Int \X Int), NEW slides \in Slides(cuts),
           NEW cursor \in Seq([at : Int, shown : BOOLEAN]),
           \A i, j \in DOMAIN cursor : i < j => cursor[i].at <= cursor[j].at,
           NEW s \in Seq(Shape), NEW t \in Seq(Shape), NEW desk \in Seq([from : Int, to : Int])
    PROVE  RecordingOf(Recording(end, slides, cursor, <<s, t>>, desk, deskEnd))
<1> DEFINE rec == Recording(end, slides, cursor, <<s, t>>, desk, deskEnd)
           Slide2 == [from : Int, to : Int, desk : BOOLEAN]
<1>1. /\ rec.end = end /\ rec.slides = slides /\ rec.cursor = cursor /\ rec.shapes = <<s, t>>
      /\ rec.desk = desk /\ rec.deskEnd = deskEnd
  BY DEF Recording
<1>2. slides \in Seq(Slide2) /\ DOMAIN slides = 1 .. 2
  <2> DEFINE cutAt(c) == [i \in 1 .. 2 |->
               [from |-> IF i = 1 THEN 0 ELSE c[1], to |-> IF i = 1 THEN c[1] ELSE c[2], desk |-> c[3] = i]]
  <2>1. PICK c \in cuts : slides = cutAt(c)
    BY DEF Slides
  <2>2. c[1] \in Int /\ c[2] \in Int
    OBVIOUS
  <2>3. \A i \in 1 .. 2 : [from |-> IF i = 1 THEN 0 ELSE c[1], to |-> IF i = 1 THEN c[1] ELSE c[2], desk |-> c[3] = i]
                            \in Slide2
    BY <2>2
  <2> HIDE DEF Slide2
  <2>4. slides \in [1 .. 2 -> Slide2]
    BY <2>1, <2>3
  <2>5. 2 \in Nat
    OBVIOUS
  <2>6. DOMAIN slides = 1 .. 2
    BY <2>4
  <2>7. slides \in Seq(Slide2)
    BY ONLY <2>4, <2>5, ListFrom
  <2>8. QED
    BY <2>6, <2>7 DEF Slide2
<1> DEFINE Shape2 == [id : {"a", "b"}, from : Int, undo : Int]
<1>3. s \in Seq(Shape2) /\ t \in Seq(Shape2)
  <2>1. Shape \subseteq Shape2
    BY DEF Shape
  <2> HIDE DEF Shape2
  <2>2. \A u \in Seq(Shape) : u \in Seq(Shape2)
    <3>1. ASSUME NEW u \in Seq(Shape) PROVE u \in Seq(Shape2)
      <4>1. u \in [1 .. Len(u) -> Shape] /\ Len(u) \in Nat
        OBVIOUS
      <4>2. u \in [1 .. Len(u) -> Shape2]
        BY <2>1, <4>1
      <4>3. QED
        BY ONLY <4>1, <4>2, ListFrom
    <3>2. QED
      BY <3>1
  <2>3. QED
    BY <2>2
<1>4. ASSUME NEW k \in DOMAIN rec.slides PROVE \E ids : rec.shapes[k] \in Seq([id : ids, from : Int, undo : Int])
  <2>1. k = 1 \/ k = 2
    BY <1>1, <1>2
  <2>2. rec.shapes[k] \in {s, t}
    <3>1. <<s, t>>[1] = s /\ <<s, t>>[2] = t
      OBVIOUS
    <3> HIDE DEF rec
    <3>2. QED
      BY <1>1, <2>1, <3>1
  <2>3. rec.shapes[k] \in Seq(Shape2)
    BY <1>3, <2>2
  <2>4. QED
    BY <2>3
<1> HIDE DEF rec
<1>5. QED
  BY <1>1, <1>2, <1>4 DEF RecordingOf, rec

LEMMA EmptyLists ==
    /\ <<>> \in Seq([at : Int, shown : BOOLEAN])
    /\ \A i, j \in DOMAIN <<>> : i < j => <<>>[i].at <= <<>>[j].at
    /\ <<>> \in Seq([from : Int, to : Int]) /\ <<>> \in Seq(Shape)
<1>1. \A S : <<>> \in Seq(S)
  OBVIOUS
<1>2. DOMAIN <<>> = {}
  OBVIOUS
<1>3. QED
  BY <1>1, <1>2

LEMMA CursorsAreOrdered ==
    ASSUME NEW cursor \in Cursors
    PROVE  /\ cursor \in Seq([at : Int, shown : BOOLEAN])
           /\ \A i, j \in DOMAIN cursor : i < j => cursor[i].at <= cursor[j].at
<1>1. CASE cursor = <<>>
  BY <1>1, EmptyLists
<1>2. CASE cursor # <<>>
  <2> DEFINE E == [at : Int, shown : BOOLEAN]
             a(c) == [at |-> c[1], shown |-> c[2]]
             b(c) == [at |-> c[1] + c[3], shown |-> c[4]]
  <2>1. PICK c \in (0 .. 3) \X BOOLEAN \X (0 .. 2) \X BOOLEAN : cursor = <<a(c), b(c)>>
    BY <1>2 DEF Cursors
  <2>2. c[1] \in 0 .. 3 /\ c[2] \in BOOLEAN /\ c[3] \in 0 .. 2 /\ c[4] \in BOOLEAN
    OBVIOUS
  <2>3. a(c) \in E /\ b(c) \in E /\ a(c).at <= b(c).at
    BY <2>2
  <2> HIDE DEF E, a, b
  <2>4. cursor \in Seq(E)
    BY <2>1, <2>3
  <2>5. DOMAIN cursor = 1 .. 2 /\ cursor[1] = a(c) /\ cursor[2] = b(c)
    BY <2>1
  <2>6. \A i, j \in DOMAIN cursor : i < j => i = 1 /\ j = 2
    BY <2>5
  <2>7. QED
    BY <2>3, <2>4, <2>5, <2>6 DEF E
<1>3. QED
  BY <1>1, <1>2

LEMMA ShapesAreLists ==
    /\ \A s \in {<<>>} \cup (Shape \X Shape) : s \in Seq(Shape)
    /\ \A t \in {<<>>} \cup [1 .. 1 -> Shape] : t \in Seq(Shape)
<1>1. \A a, b \in Shape : <<a, b>> \in Seq(Shape)
  OBVIOUS
<1>2. \A s \in Shape \X Shape : \E a, b \in Shape : s = <<a, b>>
  OBVIOUS
<1>3. \A t \in [1 .. 1 -> Shape] : t \in Seq(Shape)
  <2>1. 1 \in Nat
    OBVIOUS
  <2>2. QED
    BY ONLY <2>1, ListFrom
<1>4. QED
  BY <1>1, <1>2, <1>3, EmptyLists

LEMMA DesksAreLists ==
    ASSUME NEW desk \in Desks PROVE desk \in Seq([from : Int, to : Int])
<1> DEFINE D == [from : Int, to : Int]
           T == {[from |-> t[1], to |-> t[1] + t[2]] : t \in (0 .. 3) \X (0 .. 2)}
<1>1. T \subseteq D
  OBVIOUS
<1>2. desk = <<>> \/ desk \in [1 .. 2 -> T]
  BY DEF Desks
<1> HIDE DEF D, T
<1>3. desk \in [1 .. 2 -> D] => desk \in Seq(D)
  <2>1. 2 \in Nat
    OBVIOUS
  <2>2. QED
    BY ONLY <2>1, ListFrom
<1>4. <<>> \in Seq(D)
  OBVIOUS
<1>5. QED
  BY <1>1, <1>2, <1>3, <1>4 DEF D

LEMMA RecordingInput ==
    ASSUME ChooseRecording
    PROVE  input'.alg = "recording" /\ ShowsTheRecording(input'.rec, input'.annotations)
<1> DEFINE rec == input'.rec
<1>1. /\ input'.alg = "recording" /\ input'.annotations \in BOOLEAN
      /\ rec \in WithCursors \/ rec \in WithShapes \/ rec \in WithDesks
  BY DEF ChooseRecording, Choose
<1>2. /\ (0 .. 3) \X (2 .. 4) \X (0 .. 2) \in SUBSET (Int \X Int \X Int)
      /\ {2} \X {4} \X {0} \in SUBSET (Int \X Int \X Int)
      /\ {<<1, 4, 1>>} \in SUBSET (Int \X Int \X Int)
  OBVIOUS
<1> HIDE DEF rec
<1>3. ASSUME rec \in WithCursors PROVE RecordingOf(rec)
  <2>1. PICK end \in 2 .. 4, slides \in Slides((0 .. 3) \X (2 .. 4) \X (0 .. 2)), cursor \in Cursors :
          rec = Recording(end, slides, cursor, <<<<>>, <<>>>>, <<>>, 0)
    BY <1>3 DEF WithCursors
  <2>2. /\ cursor \in Seq([at : Int, shown : BOOLEAN])
        /\ \A i, j \in DOMAIN cursor : i < j => cursor[i].at <= cursor[j].at
        /\ end \in Int /\ 0 \in Int
    BY CursorsAreOrdered
  <2>3. RecordingOf(Recording(end, slides, cursor, <<<<>>, <<>>>>, <<>>, 0))
    BY ONLY <1>2, <2>2, EmptyLists, RecordingFrom, slides \in Slides((0 .. 3) \X (2 .. 4) \X (0 .. 2))
  <2>4. QED
    BY ONLY <2>1, <2>3
<1>4. ASSUME rec \in WithShapes PROVE RecordingOf(rec)
  <2> DEFINE S == {<<>>} \cup (Shape \X Shape)
             T == {<<>>} \cup [1 .. 1 -> Shape]
             V == Slides({2} \X {4} \X {0})
             E == 3 .. 4
  <2>0. WithShapes = {Recording(end, slides, <<>>, <<s, t>>, <<>>, 0) : end \in E, slides \in V, s \in S, t \in T}
    BY DEF WithShapes
  <2> HIDE DEF S, T, V, E
  <2>1. PICK end \in E, slides \in V, s \in S, t \in T :
          rec = Recording(end, slides, <<>>, <<s, t>>, <<>>, 0)
    BY <1>4, <2>0
  <2> USE DEF S, T, V, E
  <2>2. s \in Seq(Shape) /\ t \in Seq(Shape)
    BY ShapesAreLists
  <2>3. end \in Int /\ 0 \in Int
    OBVIOUS
  <2>4. RecordingOf(Recording(end, slides, <<>>, <<s, t>>, <<>>, 0))
    BY ONLY <1>2, <2>2, <2>3, EmptyLists, RecordingFrom, slides \in Slides({2} \X {4} \X {0})
  <2>5. QED
    BY ONLY <2>1, <2>4
<1>5. ASSUME rec \in WithDesks PROVE RecordingOf(rec)
  <2>1. PICK end \in 2 .. 4, slides \in Slides({<<1, 4, 1>>}), desk \in Desks, deskEnd \in 0 .. 4 :
          rec = Recording(end, slides, <<>>, <<<<>>, <<>>>>, desk, deskEnd)
    BY <1>5 DEF WithDesks
  <2>2. desk \in Seq([from : Int, to : Int]) /\ end \in Int /\ deskEnd \in Int
    BY DesksAreLists
  <2>3. RecordingOf(Recording(end, slides, <<>>, <<<<>>, <<>>>>, desk, deskEnd))
    BY ONLY <1>2, <2>2, EmptyLists, RecordingFrom, slides \in Slides({<<1, 4, 1>>})
  <2>4. QED
    BY ONLY <2>1, <2>3
<1>6. QED
  BY <1>1, <1>3, <1>4, <1>5, RecordingsAlwaysShown DEF rec

\* What a step that changes the input leaves behind.
LEMMA ChosenRight ==
    ASSUME Next, ~UNCHANGED input
    PROVE  /\ input'.alg = "agent" => LoadIsMeasured(input'.samples)
           /\ input'.alg = "statistics" => OriginsAreSummed(input'.rows, input'.meetings)
           /\ input'.alg = "overviews" => OverviewsAgree({"t1", "t2", "t3"}, input'.meetings)
           /\ input'.alg = "lists" => TenantsAreSummed(AllSecrets, input'.metrics, input'.total, input'.s)
           /\ input'.alg = "gauges" => GaugesFollowTheNodes(input'.metrics, Three, input'.rows, input'.reports)
           /\ input'.alg = "load" => /\ LoadIsOrdered(input'.n, input'.o, input'.c)
                                     /\ AvailableIsPickable({input'.n, input'.o}, input'.c)
           /\ input'.alg = "clusters" => ChoiceIsLowest(input'.loads, input'.more)
           /\ input'.alg = "group" => GroupsShowTheirNodes(input'.relations, input'.nodes, input'.c)
           /\ input'.alg = "call" => ParametersDecided(input'.call, input'.t)
           /\ input'.alg = "limits" => LimitsBind(input'.t, input'.s, input'.own)
           /\ input'.alg = "hold" => HoldTimesHold(input'.age, input'.s, input'.t)
           /\ input'.alg = "secrets" => SecretsAreKept(input'.secrets, input'.n, input'.m)
           /\ input'.alg = "request" => CallsReachTheirMeeting(input'.r, input'.db)
           /\ input'.alg = "recordings" =>
                RecordingsListed(input'.r, input'.db) /\ NamedAreEdited(input'.r, input'.db)
           /\ input'.alg = "slide" => SlideIsDelivered(input'.method, input'.asset)
           /\ input'.alg = "meeting lists" =>
                ListsHaveTheirMeetings(Three, input'.rows, input'.answers)
           /\ input'.alg = "boxes" => BoxesFit(input'.opts, input'.w, input'.h)
           /\ input'.alg = "recording" => ShowsTheRecording(input'.rec, input'.annotations)
  BY StepsChoose, BoxesInput, RecordingInput, StatisticsInput, OverviewsInput, MetricListsInput, GaugesInput,
     AgentInput, LoadInput, ClustersInput, GroupInput, CallInput, LimitsInput, HoldTimeInput, SecretsInput,
     RequestInput, RecordingsInput, DescribedInput, SlideInput, ListsInput

(***************************************************************************)
(* Every call with every rule is decided as its tenant wants:              *)
(* TenantDecides (api.py:384-434).                                         *)
(***************************************************************************)
THEOREM TenantsDecide == Spec => []TenantDecides
<1>1. Init => TenantDecides
  BY DEF Init, TenantDecides
<1>2. TenantDecides /\ [Next]_vars => TenantDecides'
  <2>1. SUFFICES ASSUME TenantDecides, Next \/ UNCHANGED vars PROVE TenantDecides'
    OBVIOUS
  <2>2. CASE UNCHANGED input
    BY <2>1, <2>2 DEF TenantDecides
  <2>3. CASE Next /\ ~UNCHANGED input
    BY <2>3, ChosenRight DEF TenantDecides
  <2>4. QED
    BY <2>1, <2>2, <2>3 DEF vars
<1>3. QED
  BY <1>1, <1>2, PTL DEF Spec

(***************************************************************************)
(* The limits of tenant and secret bind, and so do their hold times:       *)
(* SettingsBind (api.py:446-473, models.py:231-236).                       *)
(***************************************************************************)
THEOREM SettingsAlwaysBind == Spec => []SettingsBind
<1>1. Init => SettingsBind
  BY DEF Init, SettingsBind
<1>2. SettingsBind /\ [Next]_vars => SettingsBind'
  <2>1. SUFFICES ASSUME SettingsBind, Next \/ UNCHANGED vars PROVE SettingsBind'
    OBVIOUS
  <2>2. CASE UNCHANGED input
    BY <2>1, <2>2 DEF SettingsBind
  <2>3. CASE Next /\ ~UNCHANGED input
    BY <2>3, ChosenRight DEF SettingsBind
  <2>4. QED
    BY <2>1, <2>2, <2>3 DEF vars
<1>3. QED
  BY <1>1, <1>2, PTL DEF Spec

(***************************************************************************)
(* addsecrets changes no secret that is there: AddingKeepsSecrets          *)
(* (addsecrets.py:32-69).                                                  *)
(***************************************************************************)
THEOREM SecretsStayKept == Spec => []AddingKeepsSecrets
<1>1. Init => AddingKeepsSecrets
  BY DEF Init, AddingKeepsSecrets
<1>2. AddingKeepsSecrets /\ [Next]_vars => AddingKeepsSecrets'
  <2>1. SUFFICES ASSUME AddingKeepsSecrets, Next \/ UNCHANGED vars PROVE AddingKeepsSecrets'
    OBVIOUS
  <2>2. CASE UNCHANGED input
    BY <2>1, <2>2 DEF AddingKeepsSecrets
  <2>3. CASE Next /\ ~UNCHANGED input
    BY <2>3, ChosenRight DEF AddingKeepsSecrets
  <2>4. QED
    BY <2>1, <2>2, <2>3 DEF vars
<1>3. QED
  BY <1>1, <1>2, PTL DEF Spec

(***************************************************************************)
(* A call about a meeting reaches the node of this very meeting:           *)
(* MeetingIsReached (api.py:267-294, 543-551).                             *)
(***************************************************************************)
THEOREM MeetingsAreReached == Spec => []MeetingIsReached
<1>1. Init => MeetingIsReached
  BY DEF Init, MeetingIsReached
<1>2. MeetingIsReached /\ [Next]_vars => MeetingIsReached'
  <2>1. SUFFICES ASSUME MeetingIsReached, Next \/ UNCHANGED vars PROVE MeetingIsReached'
    OBVIOUS
  <2>2. CASE UNCHANGED input
    BY <2>1, <2>2 DEF MeetingIsReached
  <2>3. CASE Next /\ ~UNCHANGED input
    BY <2>3, ChosenRight DEF MeetingIsReached
  <2>4. QED
    BY <2>1, <2>2, <2>3 DEF vars
<1>3. QED
  BY <1>1, <1>2, PTL DEF Spec

(***************************************************************************)
(* getRecordings lists what it is asked for, and the other calls on        *)
(* recordings change what they name: RecordingsAsAsked (api.py:164-257,    *)
(* 338-362).                                                               *)
(***************************************************************************)
THEOREM RecordingsStayAsAsked == Spec => []RecordingsAsAsked
<1>1. Init => RecordingsAsAsked
  BY DEF Init, RecordingsAsAsked
<1>2. RecordingsAsAsked /\ [Next]_vars => RecordingsAsAsked'
  <2>1. SUFFICES ASSUME RecordingsAsAsked, Next \/ UNCHANGED vars PROVE RecordingsAsAsked'
    OBVIOUS
  <2>2. CASE UNCHANGED input
    BY <2>1, <2>2 DEF RecordingsAsAsked
  <2>3. CASE Next /\ ~UNCHANGED input
    BY <2>3, ChosenRight DEF RecordingsAsAsked
  <2>4. QED
    BY <2>1, <2>2, <2>3 DEF vars
<1>3. QED
  BY <1>1, <1>2, PTL DEF Spec

(***************************************************************************)
(* A tenant's slide gets to the node: SlideArrives (api.py:414-422,        *)
(* storage.py:50-60).                                                      *)
(***************************************************************************)
THEOREM SlidesArrive == Spec => []SlideArrives
<1>1. Init => SlideArrives
  BY DEF Init, SlideArrives
<1>2. SlideArrives /\ [Next]_vars => SlideArrives'
  <2>1. SUFFICES ASSUME SlideArrives, Next \/ UNCHANGED vars PROVE SlideArrives'
    OBVIOUS
  <2>2. CASE UNCHANGED input
    BY <2>1, <2>2 DEF SlideArrives
  <2>3. CASE Next /\ ~UNCHANGED input
    BY <2>3, ChosenRight DEF SlideArrives
  <2>4. QED
    BY <2>1, <2>2, <2>3 DEF vars
<1>3. QED
  BY <1>1, <1>2, PTL DEF Spec

(***************************************************************************)
(* getMeetings lists the meetings of the secret, or of the tenant:         *)
(* MeetingsAreListed (core.py:172-226).                                    *)
(***************************************************************************)
THEOREM ListsStayComplete == Spec => []MeetingsAreListed
<1>1. Init => MeetingsAreListed
  BY DEF Init, MeetingsAreListed
<1>2. MeetingsAreListed /\ [Next]_vars => MeetingsAreListed'
  <2>1. SUFFICES ASSUME MeetingsAreListed, Next \/ UNCHANGED vars PROVE MeetingsAreListed'
    OBVIOUS
  <2>2. CASE UNCHANGED input
    BY <2>1, <2>2 DEF MeetingsAreListed
  <2>3. CASE Next /\ ~UNCHANGED input
    BY <2>3, ChosenRight DEF MeetingsAreListed
  <2>4. QED
    BY <2>1, <2>2, <2>3 DEF vars
<1>3. QED
  BY <1>1, <1>2, PTL DEF Spec

(***************************************************************************)
(* The load of a node grows with its work and stays within its bounds, and *)
(* the counts of available nodes are those of the nodes a create may pick: *)
(* LoadOrdered (models.py:115-139, dashboard.py:15, admin.py:137-167).     *)
(***************************************************************************)
THEOREM LoadsStayOrdered == Spec => []LoadOrdered
<1>1. Init => LoadOrdered
  BY DEF Init, LoadOrdered
<1>2. LoadOrdered /\ [Next]_vars => LoadOrdered'
  <2>1. SUFFICES ASSUME LoadOrdered, Next \/ UNCHANGED vars PROVE LoadOrdered'
    OBVIOUS
  <2>2. CASE UNCHANGED input
    BY <2>1, <2>2 DEF LoadOrdered
  <2>3. CASE Next /\ ~UNCHANGED input
    BY <2>3, ChosenRight DEF LoadOrdered
  <2>4. QED
    BY <2>1, <2>2, <2>3 DEF vars
<1>3. QED
  BY <1>1, <1>2, PTL DEF Spec

(***************************************************************************)
(* What the agent reports is what the CPU did last: AgentMeasures          *)
(* (b3lb-load:27-53).                                                      *)
(***************************************************************************)
THEOREM AgentsAlwaysMeasure == Spec => []AgentMeasures
<1>1. Init => AgentMeasures
  BY DEF Init, AgentMeasures
<1>2. AgentMeasures /\ [Next]_vars => AgentMeasures'
  <2>1. SUFFICES ASSUME AgentMeasures, Next \/ UNCHANGED vars PROVE AgentMeasures'
    OBVIOUS
  <2>2. CASE UNCHANGED input
    BY <2>1, <2>2 DEF AgentMeasures
  <2>3. CASE Next /\ ~UNCHANGED input
    BY <2>3, ChosenRight DEF AgentMeasures
  <2>4. QED
    BY <2>1, <2>2, <2>3 DEF vars
<1>3. QED
  BY <1>1, <1>2, PTL DEF Spec

(***************************************************************************)
(* A tenant's statistics, its metrics and gauges and the overviews over    *)
(* all tenants are the sums they are said to be: FiguresAddUp              *)
(* (statistics.py:25-160, core.py:111-165, dashboard.py:19-103).           *)
(***************************************************************************)
THEOREM FiguresAlwaysAddUp == Spec => []FiguresAddUp
<1>1. Init => FiguresAddUp
  BY DEF Init, FiguresAddUp
<1>2. FiguresAddUp /\ [Next]_vars => FiguresAddUp'
  <2>1. SUFFICES ASSUME FiguresAddUp, Next \/ UNCHANGED vars PROVE FiguresAddUp'
    OBVIOUS
  <2>2. CASE UNCHANGED input
    BY <2>1, <2>2 DEF FiguresAddUp
  <2>3. CASE Next /\ ~UNCHANGED input
    BY <2>3, ChosenRight DEF FiguresAddUp
  <2>4. QED
    BY <2>1, <2>2, <2>3 DEF vars
<1>3. QED
  BY <1>1, <1>2, PTL DEF Spec

(***************************************************************************)
(* The layers of every video show what its recording did, and fit into the *)
(* frame of every profile: VideoShowsRecording (make_xges.py).             *)
(***************************************************************************)
THEOREM VideosAlwaysShow == Spec => []VideoShowsRecording
<1>1. Init => VideoShowsRecording
  BY DEF Init, VideoShowsRecording
<1>2. VideoShowsRecording /\ [Next]_vars => VideoShowsRecording'
  <2>1. SUFFICES ASSUME VideoShowsRecording, Next \/ UNCHANGED vars PROVE VideoShowsRecording'
    OBVIOUS
  <2>2. CASE UNCHANGED input
    BY <2>1, <2>2 DEF VideoShowsRecording
  <2>3. CASE Next /\ ~UNCHANGED input
    BY <2>3, ChosenRight DEF VideoShowsRecording
  <2>4. QED
    BY <2>1, <2>2, <2>3 DEF vars
<1>3. QED
  BY <1>1, <1>2, PTL DEF Spec

=============================================================================
