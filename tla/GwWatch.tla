------------------------------ MODULE GwWatch ------------------------------
(***************************************************************************)
(* The watch of src/gw_state.c: gw_init, gw_add_rule, gw_observe, gw_tick  *)
(* and gw_get_state as one action each, called in any order with any       *)
(* arguments, which is all the library may assume of its caller.           *)
(*                                                                         *)
(* The five variables before `ret' are struct gw_watch.  `ret' is what the *)
(* last call handed back: the status, and for gw_tick the rules written    *)
(* through out_fired and the number written through out_n.                 *)
(***************************************************************************)
EXTENDS GwRule, FiniteSets

CONSTANTS
  MaxRules,   \* GW_MAX_RULES
  Configs,    \* rule configurations a caller may pass, malformed ones too
  Cameras,    \* camera ids a caller may pass to gw_init
  Time,       \* instants: observed_at_ns and now_ns
  Frames,     \* frame ids
  Answers,    \* observation values, possibly outside enum gw_value
  Caps        \* capacities of the caller's out_fired

VARIABLES camera_id, rules, rule_count, last_tick, has_ticked, ret

watch == <<camera_id, rules, rule_count, last_tick, has_ticked>>
vars  == <<camera_id, rules, rule_count, last_tick, has_ticked, ret>>

Slot == 0 .. MaxRules - 1
Live == {i \in Slot : i < rule_count}

ASSUME MaxRulesAssumption == MaxRules \in Nat \ {0}
ASSUME TimeAssumption     == Time \subseteq Int
ASSUME FramesAssumption   == Frames \subseteq Nat
ASSUME CapsAssumption     == Caps \subseteq Nat

ASSUME ConfigsAssumption == \A c \in Configs : c \in Config
ASSUME CamerasAssumption == Cameras \subseteq Ids

\* A zeroed slot, as gw_init leaves every one of them.
ZeroConfig ==
  [ id |-> EmptyId, kind |-> "appeared", target |-> "unknown",
    confirm_count |-> 0, confirm_window |-> 0, max_gap |-> 0, sustain |-> 0 ]

Observation == [frame : Frames, at : Time, value : Answers]

Return(status) == ret' = [status |-> status, fired |-> {}, n |-> 0]
Refuse(status) == Return(status) /\ UNCHANGED watch

-----------------------------------------------------------------------------
(***************************************************************************)
(* gw_init: everything goes back to nothing, whatever becomes of the id.   *)
(***************************************************************************)
Start(camera) ==
  /\ camera_id'  = IF CopyIdStatus(camera) = "OK" THEN camera ELSE EmptyId
  /\ rules'      = [i \in Slot |-> NewRuntime(ZeroConfig)]
  /\ rule_count' = 0
  /\ last_tick'  = 0
  /\ has_ticked' = FALSE
  /\ Return(CopyIdStatus(camera))

Init ==
  /\ camera_id \in {c \in Cameras : CopyIdStatus(c) = "OK"}
  /\ rules      = [i \in Slot |-> NewRuntime(ZeroConfig)]
  /\ rule_count = 0
  /\ last_tick  = 0
  /\ has_ticked = FALSE
  /\ ret = [status |-> "OK", fired |-> {}, n |-> 0]

(***************************************************************************)
(* gw_add_rule.  An id that does not fit is found out after the slot has   *)
(* been written, but the slot then stays past rule_count.                  *)
(***************************************************************************)
WriteSlot(cfg) == rules' = [rules EXCEPT ![rule_count] = NewRuntime(cfg)]

AddRuleOverLimit(cfg) == rule_count >= MaxRules /\ Refuse("LIMIT")

AddRuleUnusable(cfg) ==
  /\ rule_count < MaxRules
  /\ ~Usable(cfg)
  /\ Refuse("INVALID_ARG")

AddRuleBadId(cfg) ==
  /\ rule_count < MaxRules
  /\ Usable(cfg)
  /\ CopyIdStatus(cfg.id) # "OK"
  /\ WriteSlot(cfg)
  /\ Return(CopyIdStatus(cfg.id))
  /\ UNCHANGED <<camera_id, rule_count, last_tick, has_ticked>>

AddRuleAppend(cfg) ==
  /\ rule_count < MaxRules
  /\ Usable(cfg)
  /\ CopyIdStatus(cfg.id) = "OK"
  /\ WriteSlot(cfg)
  /\ rule_count' = rule_count + 1
  /\ Return("OK")
  /\ UNCHANGED <<camera_id, last_tick, has_ticked>>

AddRule(cfg) ==
  \/ AddRuleOverLimit(cfg)
  \/ AddRuleUnusable(cfg)
  \/ AddRuleBadId(cfg)
  \/ AddRuleAppend(cfg)

(***************************************************************************)
(* gw_observe.                                                             *)
(***************************************************************************)
Answerable(i, o) == i < rule_count /\ o.value \in Value

ObserveInvalid(i, o) == ~Answerable(i, o) /\ Refuse("INVALID_ARG")

ObserveDuplicate(i, o) ==
  /\ Answerable(i, o)
  /\ Duplicate(rules[i], o)
  /\ Refuse("DUPLICATE")

ObserveStale(i, o) ==
  /\ Answerable(i, o)
  /\ ~Duplicate(rules[i], o)
  /\ Stale(rules[i], o)
  /\ Refuse("STALE")

ObserveAccept(i, o) ==
  /\ Answerable(i, o)
  /\ ~Duplicate(rules[i], o)
  /\ ~Stale(rules[i], o)
  /\ rules' = [rules EXCEPT ![i] = Accept(@, o)]
  /\ Return("OK")
  /\ UNCHANGED <<camera_id, rule_count, last_tick, has_ticked>>

Observe(i, o) ==
  \/ ObserveInvalid(i, o)
  \/ ObserveDuplicate(i, o)
  \/ ObserveStale(i, o)
  \/ ObserveAccept(i, o)

(***************************************************************************)
(* gw_tick.  The rules are visited in index order, so the first `cap' that *)
(* are due reach the caller; the latch of every other one is drained too.  *)
(***************************************************************************)
Due(now) == {i \in Live : Age(rules[i], now).pending}

Written(due, cap) == {i \in due : Cardinality({j \in due : j < i}) < cap}

TickBackwards(now, cap) ==
  /\ has_ticked
  /\ now < last_tick
  /\ Refuse("TIME")

TickForward(now, cap) ==
  /\ has_ticked => now >= last_tick
  /\ rules' = [i \in Slot |-> IF i \in Live THEN Drain(Age(rules[i], now))
                                            ELSE rules[i]]
  /\ last_tick'  = now
  /\ has_ticked' = TRUE
  /\ ret' = [ status |-> IF Cardinality(Due(now)) > cap THEN "LIMIT" ELSE "OK",
              fired  |-> Written(Due(now), cap),
              n      |-> Cardinality(Due(now)) ]
  /\ UNCHANGED <<camera_id, rule_count>>

Tick(now, cap) == TickBackwards(now, cap) \/ TickForward(now, cap)

(***************************************************************************)
(* gw_get_state changes nothing but what the caller is told.               *)
(***************************************************************************)
GetState(i, now) ==
  Refuse(IF i < rule_count THEN "OK" ELSE "INVALID_ARG")

-----------------------------------------------------------------------------
Next ==
  \/ \E camera \in Cameras : Start(camera)
  \/ \E cfg \in Configs : AddRule(cfg)
  \/ \E i \in 0 .. MaxRules, o \in Observation : Observe(i, o)
  \/ \E now \in Time, cap \in Caps : Tick(now, cap)
  \/ \E i \in 0 .. MaxRules, now \in Time : GetState(i, now)

Spec == Init /\ [][Next]_vars

-----------------------------------------------------------------------------
(***************************************************************************)
(* What is true between calls.                                             *)
(***************************************************************************)
Status == {"OK", "INVALID_ARG", "LIMIT", "TIME", "DUPLICATE", "STALE"}

\* The type invariant of struct gw_watch; every live rule is one that
\* gw_add_rule would accept.
TypeOK ==
  /\ camera_id \in Ids
  /\ rules \in [Slot -> Runtime]
  /\ rule_count \in 0 .. MaxRules
  /\ last_tick \in Int
  /\ has_ticked \in BOOLEAN
  /\ ret.status \in Status /\ ret.fired \subseteq Slot /\ ret.n \in Nat
  /\ \A i \in Live : Usable(rules[i].cfg)

\* The invariant of every live rule, inductive over the five calls: it ties
\* the confirmed value, the arming and the open run to the candidate evidence.
RuleInv ==
  \A i \in Live : RuntimeInv(rules[i])

\* gw_get_state answers for `now' what a gw_tick at `now' leads to, without
\* ticking: same belief, health, age, backing and duration.  (`fired' is not
\* masked by expiry and is left out.)
QueryMatchesTick ==
  \A i \in Live, now \in Time :
    LET before == StateOf(rules[i], now)
        after  == StateOf(Drain(Age(rules[i], now)), now)
    IN  \A field \in DOMAIN before \ {"fired"} : before[field] = after[field]

\* A sustained rule is reported only on evidence that is fresh, unbroken and
\* older than its duration: at least confirm_window + sustain have passed since
\* the first of the agreeing observations still being counted.
Earned(r, now) ==
  /\ r.candidate = r.cfg.target
  /\ r.candidate_count >= r.cfg.confirm_count
  /\ now - r.candidate_first >= r.cfg.confirm_window + r.cfg.sustain
  /\ now - r.last_obs <= r.cfg.max_gap

NoReportBeforeDuration ==
  [][ \A i \in ret'.fired :
        Sustained(rules[i]) => Earned(rules[i], last_tick') ]_vars

\* A latched event leaves a rule only by being written to the caller, by the
\* caller being told that out_fired was too small, or with the whole watch.
NoSilentLoss ==
  [][ \A i \in Live :
        rules[i].pending /\ ~rules'[i].pending =>
          \/ i \in ret'.fired
          \/ ret'.status = "LIMIT"
          \/ rule_count' = 0 ]_vars

\* An arrival latched inside gw_observe is reported by some later gw_tick, unless
\* a restart takes the rule away first, provided the caller keeps ticking with
\* room for every rule, as the replay does (GwReplay).
LatchReported ==
  \A i \in Slot :
    (i \in Live /\ rules[i].pending) ~> (i \in ret.fired \/ i \notin Live)
=============================================================================
