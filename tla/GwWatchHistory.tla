--------------------------- MODULE GwWatchHistory ---------------------------
(***************************************************************************)
(* GwWatch with a history variable: for every slot, the observations       *)
(* gw_observe accepted since the rule last lost sight, that is since       *)
(* gw_init, gw_add_rule or a gw_tick that found its evidence expired.      *)
(* It is what the counters of a runtime are a summary of.                  *)
(***************************************************************************)
EXTENDS GwWatch, GwEvidence

CONSTANT HistoryMax   \* bound on the observations remembered, for TLC

VARIABLE history

hvars == <<camera_id, rules, rule_count, last_tick, has_ticked, ret, history>>

Nothing == [i \in Slot |-> <<>>]

HInit == Init /\ history = Nothing

Remember(i, o) ==
  /\ Len(history[i]) < HistoryMax
  /\ history' = [history EXCEPT ![i] = Append(@, [at |-> o.at, value |-> o.value])]

HStart(camera) == Start(camera) /\ history' = Nothing

HAddRule(cfg) == AddRule(cfg) /\ UNCHANGED history

HObserve(i, o) ==
  \/ ObserveAccept(i, o) /\ Remember(i, o)
  \/ /\ ObserveInvalid(i, o) \/ ObserveDuplicate(i, o) \/ ObserveStale(i, o)
     /\ UNCHANGED history

HTick(now, cap) ==
  \/ TickBackwards(now, cap) /\ UNCHANGED history
  \/ /\ TickForward(now, cap)
     /\ history' = [i \in Slot |-> IF i \in Live /\ Expired(rules[i], now)
                                   THEN <<>> ELSE history[i]]

HGetState(i, now) == GetState(i, now) /\ UNCHANGED history

HNext ==
  \/ \E camera \in Cameras : HStart(camera)
  \/ \E cfg \in Configs : HAddRule(cfg)
  \/ \E i \in 0 .. MaxRules, o \in Observation : HObserve(i, o)
  \/ \E now \in Time, cap \in Caps : HTick(now, cap)
  \/ \E i \in 0 .. MaxRules, now \in Time : HGetState(i, now)

HSpec == HInit /\ [][HNext]_hvars

-----------------------------------------------------------------------------
\* The first of the newest agreeing answers of s.
AgreeingFrom(s) ==
  CHOOSE j \in 1 .. Len(s) :
    Agreeing(s, j, Len(s)) /\ (j = 1 \/ ~Agreeing(s, j - 1, Len(s)))

\* The counters are a faithful summary: what a rule believes, how many answers
\* back it and since when is what its whole history shows, through every order
\* of observations, ticks and restarts.
SummaryIsFaithful ==
  \A i \in Live :
    LET s == history[i]
        r == rules[i]
    IN  /\ \A v \in {"no", "yes"} :
             r.confirmed = v <=> Believes(s, r.cfg, v)
        /\ s # <<>> =>
             /\ r.last_obs = s[Len(s)].at
             /\ r.candidate = s[Len(s)].value
             /\ r.candidate_first = s[AgreeingFrom(s)].at
             /\ LET agreeing == Len(s) - AgreeingFrom(s) + 1
                IN  r.candidate_count = IF agreeing < CountMax THEN agreeing ELSE CountMax
        /\ s = <<>> => r.candidate_count = 0

Promise(i) ==
  INSTANCE GwPromise WITH
    cfg       <- rules[i].cfg,
    evidence  <- history[i],
    owed      <- rules[i].pending,
    told      <- Sustained(rules[i]) /\ rules[i].fired,
    announced <- i \in ret.fired

\* Every rule of a watch keeps the promise of GwPromise: an appearance is
\* announced once for each confirmed absence followed by a confirmed presence,
\* a duration only when the target really held that long, once per hold, and
\* nothing is inherited across a restart or a loss of sight.  (This is
\* \A i \in Slot : Promise(i)!Spec, with the quantifier inside the box.)
KeepsPromise ==
  /\ \A i \in Slot : Promise(i)!Init
  /\ [][ \A i \in Slot : [Promise(i)!Next]_(Promise(i)!vars) ]_hvars

-----------------------------------------------------------------------------
\* geist_watch.h:113: a sustained rule "fires once when the confirmed state has
\* held at `target' continuously for `sustain_ns'": when gw_tick runs in sight of
\* evidence that has held that long, the rule has fired.
HeldIsReported ==
  [][ \A now \in Time, cap \in Caps :
        TickForward(now, cap) =>
          \A i \in Live :
            /\ Sustained(rules[i])
            /\ ~Blind(history[i], rules[i].cfg, now)
            /\ HeldFor(history[i], rules[i].cfg, now)
            => rules'[i].fired ]_hvars

\* geist_watch.h:21: a covered lens yields `unknown', which the rules treat "as
\* `evidence stopped', never as `nothing changed'": an appearance is latched
\* only if no `unknown' was confirmed between the absence and the arrival.
ArrivalWasWatched ==
  \A i \in Live :
    rules[i].pending =>
      LET s   == history[i]
          cfg == rules[i].cfg
          C   == ConfirmedAt(s, cfg)
      IN  \E j, k \in C :
            /\ j < k
            /\ s[j].value = OppositeOf(cfg.target)
            /\ s[k].value = cfg.target
            /\ \A m \in C : j < m /\ m < k => s[m].value # "unknown"
=============================================================================
