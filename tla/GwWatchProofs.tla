--------------------------- MODULE GwWatchProofs ----------------------------
(***************************************************************************)
(* Theorems of GwWatch for every number of rules, every configuration,     *)
(* every set of instants, frames and answers, and every capacity.          *)
(*                                                                         *)
(* First the operators of GwRule: accepting an observation and ageing at a *)
(* tick keep a runtime a runtime, keep its configuration and keep          *)
(* RuntimeInv.  Then the calls of the watch lift them to every rule.       *)
(*                                                                         *)
(* The inductive invariant is TypeOK /\ RuleInv.  TypeOK alone says what   *)
(* the runtimes are; RuleInv ties each runtime's belief, arming, latch and *)
(* open run to the evidence being counted, which is what the action        *)
(* properties rest on.  The lemmas about the five calls take any argument  *)
(* of the right type, so that they serve every caller of the watch.        *)
(***************************************************************************)
EXTENDS GwWatch, FiniteSetTheorems, TLAPS

\* One field may take any value of its type.
LEMMA FieldUpdate ==
  ASSUME NEW r \in Runtime
  PROVE  /\ \A x \in Value : [r EXCEPT !.confirmed = x] \in Runtime
         /\ \A x \in Value : [r EXCEPT !.candidate = x] \in Runtime
         /\ \A x \in 0 .. CountMax : [r EXCEPT !.candidate_count = x] \in Runtime
         /\ \A x \in Int : [r EXCEPT !.candidate_first = x] \in Runtime
         /\ \A x \in Int : [r EXCEPT !.last_obs = x] \in Runtime
         /\ \A x \in Nat : [r EXCEPT !.last_frame = x] \in Runtime
         /\ \A x \in BOOLEAN : [r EXCEPT !.has_obs = x] \in Runtime
         /\ \A x \in BOOLEAN : [r EXCEPT !.armed = x] \in Runtime
         /\ \A x \in BOOLEAN : [r EXCEPT !.fired = x] \in Runtime
         /\ \A x \in BOOLEAN : [r EXCEPT !.pending = x] \in Runtime
         /\ \A x \in Int : [r EXCEPT !.run_start = x] \in Runtime
         /\ \A x \in BOOLEAN : [r EXCEPT !.run_open = x] \in Runtime
BY DEF Runtime

\* The fields of a rule's runtime, named once.
LEMMA RuntimeFields ==
  ASSUME NEW r \in Runtime
  PROVE  DOMAIN r = {"cfg", "confirmed", "candidate", "candidate_count",
                     "candidate_first", "last_obs", "last_frame", "has_obs", "armed",
                     "fired", "pending", "run_start", "run_open"}
BY DEF Runtime

\* A rule that was just added has the state of a rule.
LEMMA NewRuntimeType ==
  ASSUME NEW cfg \in Config
  PROVE  NewRuntime(cfg) \in Runtime
BY CountMaxAssumption DEF NewRuntime, Runtime, Value

\* Ending the run leaves a rule's state one.
LEMMA BreakRunType ==
  ASSUME NEW r \in Runtime
  PROVE  BreakRun(r) \in Runtime
<1>1. 0 \in Int /\ FALSE \in BOOLEAN
  OBVIOUS
<1>2. QED
  BY <1>1, FieldUpdate, Zenon DEF BreakRun

\* So does forgetting the candidate.
LEMMA ResetCandidateType ==
  ASSUME NEW r \in Runtime
  PROVE  ResetCandidate(r) \in Runtime
<1>1. 0 \in Int /\ 0 \in 0 .. CountMax /\ "unknown" \in Value
  BY CountMaxAssumption DEF Value
<1>2. QED
  BY <1>1, FieldUpdate DEF ResetCandidate

\* So does setting or clearing one of the flags.
LEMMA FlagTypes ==
  ASSUME NEW r \in Runtime
  PROVE  /\ Arm(r) \in Runtime
         /\ Latch(r) \in Runtime
         /\ Disarm(r) \in Runtime
         /\ Drain(r) \in Runtime
BY FieldUpdate DEF Arm, Latch, Disarm, Drain

\* So does starting a run.
LEMMA OpenRunType ==
  ASSUME NEW r \in Runtime, NEW at \in Int
  PROVE  OpenRun(r, at) \in Runtime
BY FieldUpdate DEF OpenRun

-----------------------------------------------------------------------------
(***************************************************************************)
(* Accepting an observation.                                               *)
(***************************************************************************)

\* What gathering an observation leaves in the runtime, field by field.
Gathered(r, o, g) ==
  /\ g.cfg = r.cfg
  /\ g.confirmed = r.confirmed
  /\ g.armed = r.armed
  /\ g.pending = r.pending
  /\ g.has_obs
  /\ g.last_obs = o.at /\ g.last_frame = o.frame
  /\ g.candidate = o.value
  /\ IF r.candidate_count = 0 \/ o.value # r.candidate
     THEN g.candidate_count = 1 /\ g.candidate_first = o.at
     ELSE /\ g.candidate_count >= r.candidate_count
          /\ g.candidate_count > 0
          /\ g.candidate_first = r.candidate_first
  /\ IF Sustained(r) /\ o.value # r.cfg.target
     THEN ~g.run_open /\ ~g.fired
     ELSE /\ g.run_open = r.run_open
          /\ g.fired = r.fired
          /\ g.run_start = r.run_start

\* Taking note of an answer changes when and in which frame the rule last heard.
LEMMA StampFields ==
  ASSUME NEW r \in Runtime, NEW o \in Heard
  PROVE  /\ Stamp(r, o) \in Runtime
         /\ \A f \in DOMAIN r \ {"last_obs", "last_frame", "has_obs"} :
              Stamp(r, o)[f] = r[f]
         /\ Stamp(r, o).last_obs = o.at /\ Stamp(r, o).last_frame = o.frame
         /\ Stamp(r, o).has_obs
<1>1. Stamp(r, o) \in Runtime
  BY FieldUpdate DEF Stamp, Heard
<1>2. QED
  BY <1>1 DEF Stamp, Runtime

\* Counting an answer changes the candidate and its count: one for a new value.
LEMMA CountFields ==
  ASSUME NEW r \in Runtime, NEW o \in Heard
  PROVE  /\ Count(r, o) \in Runtime
         /\ \A f \in DOMAIN r \ {"candidate", "candidate_count", "candidate_first"} :
              Count(r, o)[f] = r[f]
         /\ Count(r, o).candidate = o.value
         /\ IF r.candidate_count = 0 \/ o.value # r.candidate
            THEN Count(r, o).candidate_count = 1 /\ Count(r, o).candidate_first = o.at
            ELSE /\ Count(r, o).candidate_count >= r.candidate_count
                 /\ Count(r, o).candidate_count > 0
                 /\ Count(r, o).candidate_first = r.candidate_first
<1>1. o.value \in Value /\ o.at \in Int
  BY DEF Heard
<1>2. /\ 1 \in 0 .. CountMax
      /\ \A n \in 0 .. CountMax : NextCount(n) \in 0 .. CountMax /\ NextCount(n) >= n
  BY CountMaxAssumption DEF NextCount
<1>3. r.candidate_count \in 0 .. CountMax
  BY DEF Runtime
<1>4. CASE r.candidate_count = 0 \/ o.value # r.candidate
  <2>1. Count(r, o) \in Runtime
    BY <1>1, <1>2, <1>4, FieldUpdate DEF Count
  <2>2. QED
    BY <1>4, <2>1 DEF Count, Runtime
<1>5. CASE ~(r.candidate_count = 0 \/ o.value # r.candidate)
  <2> DEFINE n == NextCount(r.candidate_count)
  <2>1. Count(r, o) = [r EXCEPT !.candidate_count = n]
    BY <1>5 DEF Count
  <2>2. n \in 0 .. CountMax /\ n >= r.candidate_count
    BY <1>2, <1>3
  <2>3. [r EXCEPT !.candidate_count = n] \in Runtime
    BY <2>2, FieldUpdate
  <2>4. n > 0
    BY <1>3, <1>5, <2>2
  <2> HIDE DEF n
  <2>5. QED
    BY <1>5, <2>1, <2>2, <2>3, <2>4 DEF Runtime
<1>6. QED
  BY <1>4, <1>5

\* Ending the run changes the run and whether it was reported.
LEMMA BreakRunFields ==
  ASSUME NEW r \in Runtime
  PROVE  /\ BreakRun(r) \in Runtime
         /\ \A f \in DOMAIN r \ {"run_open", "run_start", "fired"} :
              BreakRun(r)[f] = r[f]
         /\ ~BreakRun(r).run_open
         /\ ~BreakRun(r).fired
BY BreakRunType DEF BreakRun, Runtime

\* What the first half of gw_observe does to a rule, whichever way it goes.
LEMMA GatherFields ==
  ASSUME NEW r \in Runtime, NEW o \in Heard
  PROVE  Gather(r, o) \in Runtime /\ Gathered(r, o, Gather(r, o))
<1> DEFINE s == Stamp(r, o)
           c == Count(s, o)
           g == BreakOnContrary(c, o)
<1>0. DOMAIN r = {"cfg", "confirmed", "candidate", "candidate_count", "candidate_first",
                  "last_obs", "last_frame", "has_obs", "armed", "fired", "pending",
                  "run_start", "run_open"}
  BY DEF Runtime
<1>1. /\ s \in Runtime
      /\ s.cfg = r.cfg /\ s.confirmed = r.confirmed /\ s.candidate = r.candidate
      /\ s.candidate_count = r.candidate_count /\ s.candidate_first = r.candidate_first
      /\ s.armed = r.armed /\ s.fired = r.fired /\ s.pending = r.pending
      /\ s.run_start = r.run_start /\ s.run_open = r.run_open
      /\ s.last_obs = o.at /\ s.last_frame = o.frame /\ s.has_obs
  BY <1>0, StampFields
<1> HIDE DEF s
<1>2. DOMAIN s = DOMAIN r
  BY <1>0, <1>1 DEF Runtime
<1>3. /\ c \in Runtime
      /\ c.cfg = r.cfg /\ c.confirmed = r.confirmed /\ c.candidate = o.value
      /\ c.armed = r.armed /\ c.fired = r.fired /\ c.pending = r.pending
      /\ c.run_start = r.run_start /\ c.run_open = r.run_open
      /\ c.last_obs = o.at /\ c.last_frame = o.frame /\ c.has_obs
      /\ IF r.candidate_count = 0 \/ o.value # r.candidate
         THEN c.candidate_count = 1 /\ c.candidate_first = o.at
         ELSE /\ c.candidate_count >= r.candidate_count
              /\ c.candidate_count > 0
              /\ c.candidate_first = r.candidate_first
  BY <1>0, <1>1, <1>2, CountFields
<1> HIDE DEF c
<1>4. DOMAIN c = DOMAIN r
  BY <1>0, <1>3 DEF Runtime
<1>5. CASE Sustained(r) /\ o.value # r.cfg.target
  <2>1. g = BreakRun(c)
    BY <1>3, <1>5 DEF BreakOnContrary, Sustained
  <2>2. QED
    BY <1>0, <1>3, <1>4, <1>5, <2>1, BreakRunFields DEF Gather, Gathered, s, c
<1>6. CASE ~(Sustained(r) /\ o.value # r.cfg.target)
  <2>1. g = c
    BY <1>3, <1>6 DEF BreakOnContrary, Sustained
  <2>2. QED
    BY <1>3, <1>6, <2>1 DEF Gather, Gathered, s, c
<1>7. QED
  BY <1>5, <1>6

\* The invariant of a rule survives the first half of gw_observe.
LEMMA GatherInv ==
  ASSUME NEW r \in Runtime, Usable(r.cfg), RuntimeInv(r),
         NEW o \in Heard, ~Stale(r, o)
  PROVE  RuntimeInv(Gather(r, o))
<1> DEFINE g == Gather(r, o)
<1>1. g \in Runtime /\ Gathered(r, o, g)
  BY GatherFields
<1> HIDE DEF g
<1>2. r.cfg.confirm_count \in Nat /\ r.cfg.confirm_count > 0 /\ r.cfg.confirm_window \in Int
  BY CountMaxAssumption DEF Usable, Runtime, Config
<1>3. r.candidate_count \in Nat /\ g.candidate_count \in Nat
  BY <1>1, CountMaxAssumption DEF Runtime
<1>4. /\ r.candidate_first \in Int /\ g.candidate_first \in Int
      /\ r.last_obs \in Int /\ o.at \in Int /\ r.run_start \in Int
  BY <1>1 DEF Runtime, Heard
<1>5. r.candidate_count > 0 => r.has_obs /\ r.last_obs <= o.at
  BY <1>3, <1>4 DEF Stale, RuntimeInv, EvidenceBacksBelief
<1>6. EvidenceBacksBelief(g)
  BY <1>1, <1>3, <1>4, <1>5 DEF Gathered, RuntimeInv, EvidenceBacksBelief
<1>7. OpenRunIsBacked(g)
  <2> SUFFICES ASSUME g.run_open
               PROVE  OpenRunIsBacked(g)
    BY DEF OpenRunIsBacked
  <2>1. r.run_open /\ g.run_start = r.run_start
    BY <1>1 DEF Gathered
  <2>2. Sustained(r) /\ OpenRunIsBacked(r)
    BY <2>1 DEF RuntimeInv, OpenRunIsBacked
  <2>3. o.value = r.cfg.target
    BY <1>1, <2>2 DEF Gathered
  <2>4. r.candidate_count > 0 /\ o.value = r.candidate
    BY <1>2, <1>3, <2>1, <2>2, <2>3 DEF OpenRunIsBacked
  <2>5. QED
    BY <1>1, <1>2, <1>3, <1>4, <1>5, <2>1, <2>2, <2>3, <2>4
    DEF Gathered, OpenRunIsBacked, Sustained
<1>8. ArmedSinceAbsence(g)
  BY <1>1 DEF Gathered, RuntimeInv, ArmedSinceAbsence, Appeared, Sustained
<1>9. LatchShape(g)
  BY <1>1 DEF Gathered, RuntimeInv, LatchShape, Appeared, Sustained
<1>10. QED
  BY <1>6, <1>7, <1>8, <1>9 DEF RuntimeInv, g

\* Arming changes the arm and whether the run was reported.
LEMMA ArmFields ==
  ASSUME NEW r \in Runtime
  PROVE  /\ Arm(r) \in Runtime
         /\ \A f \in DOMAIN r \ {"armed", "fired"} : Arm(r)[f] = r[f]
         /\ Arm(r).armed /\ ~Arm(r).fired
BY FlagTypes DEF Arm, Runtime

\* Latching an event changes that it waits and was reported.
LEMMA LatchFields ==
  ASSUME NEW r \in Runtime
  PROVE  /\ Latch(r) \in Runtime
         /\ \A f \in DOMAIN r \ {"pending", "fired"} : Latch(r)[f] = r[f]
         /\ Latch(r).pending /\ Latch(r).fired
BY FlagTypes DEF Latch, Runtime

\* Disarming changes the arm alone.
LEMMA DisarmFields ==
  ASSUME NEW r \in Runtime
  PROVE  /\ Disarm(r) \in Runtime
         /\ \A f \in DOMAIN r \ {"armed"} : Disarm(r)[f] = r[f]
         /\ ~Disarm(r).armed
BY FlagTypes DEF Disarm, Runtime

\* Handing an event out changes that it waits, and nothing else.
LEMMA DrainFields ==
  ASSUME NEW r \in Runtime
  PROVE  /\ Drain(r) \in Runtime
         /\ \A f \in DOMAIN r \ {"pending"} : Drain(r)[f] = r[f]
         /\ ~Drain(r).pending
BY FlagTypes DEF Drain, Runtime

\* Starting a run changes the run, when it began and whether it was reported.
LEMMA OpenRunFields ==
  ASSUME NEW r \in Runtime, NEW at \in Int
  PROVE  /\ OpenRun(r, at) \in Runtime
         /\ \A f \in DOMAIN r \ {"run_open", "run_start", "fired"} : OpenRun(r, at)[f] = r[f]
         /\ OpenRun(r, at).run_open /\ ~OpenRun(r, at).fired
         /\ OpenRun(r, at).run_start = at
BY OpenRunType DEF OpenRun, Runtime

\* The reaction to a confirmation of g.candidate by the answer at `at'.
LEMMA SetConfirmedInv ==
  ASSUME NEW g \in Runtime, Usable(g.cfg), RuntimeInv(g),
         NEW at \in Int, g.last_obs = at, g.has_obs, g.candidate_count > 0,
         Confirms(g, at)
  PROVE  /\ SetConfirmed(g, g.candidate, at) \in Runtime
         /\ SetConfirmed(g, g.candidate, at).cfg = g.cfg
         /\ RuntimeInv(SetConfirmed(g, g.candidate, at))
<1> DEFINE c == [g EXCEPT !.confirmed = g.candidate]
<1>1. CASE g.confirmed = g.candidate
  BY <1>1 DEF SetConfirmed
<1>2. CASE g.confirmed # g.candidate
  <2>1. c \in Runtime
    BY FieldUpdate DEF Runtime
  <2>2. /\ c.cfg = g.cfg /\ c.confirmed = g.candidate /\ c.candidate = g.candidate
        /\ c.candidate_count = g.candidate_count
        /\ c.candidate_first = g.candidate_first
        /\ c.last_obs = g.last_obs /\ c.has_obs = g.has_obs
        /\ c.armed = g.armed /\ c.fired = g.fired /\ c.pending = g.pending
        /\ c.run_open = g.run_open /\ c.run_start = g.run_start
    BY <2>1 DEF Runtime
  <2>3. /\ g.candidate_count \in Nat /\ g.candidate_first \in Int
        /\ g.cfg.confirm_window \in Int /\ g.cfg.confirm_count \in Nat
        /\ g.cfg.confirm_window >= 0
        /\ g.cfg.target \in {"yes", "no"} /\ g.candidate \in Value
        /\ g.cfg.kind \in {"appeared", "sustained"}
    BY CountMaxAssumption DEF Runtime, Config, Usable
  <2>4. DOMAIN c = {"cfg", "confirmed", "candidate", "candidate_count",
                   "candidate_first", "last_obs", "last_frame", "has_obs", "armed",
                   "fired", "pending", "run_start", "run_open"}
    BY <2>1 DEF Runtime
  <2> HIDE DEF c
  <2>5. CASE Sustained(g) /\ g.candidate = g.cfg.target
    <3> DEFINE e == OpenRun(c, at)
    <3>1. SetConfirmed(g, g.candidate, at) = e
      BY <1>2, <2>2, <2>3, <2>5
      DEF SetConfirmed, Edge, SustainedEdge, AppearanceEdge, Sustained, Appeared,
          OppositeOf, c
    <3>2. /\ e \in Runtime
          /\ \A f \in DOMAIN c \ {"run_open", "run_start", "fired"} : e[f] = c[f]
          /\ e.run_open /\ ~e.fired /\ e.run_start = at
      BY <2>1, OpenRunFields
    <3> HIDE DEF e
    <3>3. /\ e.cfg = g.cfg /\ e.confirmed = g.candidate /\ e.candidate = g.candidate
          /\ e.candidate_count = g.candidate_count /\ e.candidate_first = g.candidate_first
          /\ e.last_obs = at /\ e.has_obs
          /\ e.armed = g.armed /\ e.pending = g.pending
          /\ e.run_open /\ e.run_start = at /\ ~e.fired
      BY <2>2, <2>4, <3>2
    <3>4. EvidenceBacksBelief(e)
      BY <2>3, <3>3 DEF RuntimeInv, EvidenceBacksBelief
    <3>5. OpenRunIsBacked(e)
      BY <2>3, <2>5, <3>3 DEF OpenRunIsBacked, Sustained, Confirms
    <3>6. ArmedSinceAbsence(e) /\ LatchShape(e)
      BY <2>5, <3>3
      DEF RuntimeInv, ArmedSinceAbsence, LatchShape, Sustained, Appeared
    <3>7. QED
      BY <3>1, <3>2, <3>3, <3>4, <3>5, <3>6 DEF RuntimeInv
  <2>6. CASE Sustained(g) /\ g.candidate # g.cfg.target
    <3> DEFINE e == BreakRun(c)
    <3>1. SetConfirmed(g, g.candidate, at) = e
      BY <1>2, <2>2, <2>3, <2>6
      DEF SetConfirmed, Edge, SustainedEdge, AppearanceEdge, Sustained, Appeared,
          OppositeOf, c
    <3>2. e \in Runtime
      BY <2>1, BreakRunType
    <3>3. /\ e.cfg = g.cfg /\ e.confirmed = g.candidate /\ e.candidate = g.candidate
          /\ e.candidate_count = g.candidate_count /\ e.candidate_first = g.candidate_first
          /\ e.last_obs = at /\ e.has_obs
          /\ e.armed = g.armed /\ e.pending = g.pending /\ ~e.run_open /\ ~e.fired
      BY <2>1, <2>2, <2>4, BreakRunFields
    <3> HIDE DEF e
    <3>4. RuntimeInv(e)
      BY <2>3, <2>6, <3>3
      DEF RuntimeInv, EvidenceBacksBelief, OpenRunIsBacked, ArmedSinceAbsence,
          LatchShape, Sustained, Appeared
    <3>5. QED
      BY <3>1, <3>2, <3>3, <3>4
  <2>7. CASE Appeared(g) /\ g.candidate = OppositeOf(g.cfg.target)
    <3> DEFINE e == Arm(c)
    <3>1. SetConfirmed(g, g.candidate, at) = e
      BY <1>2, <2>2, <2>3, <2>7
      DEF SetConfirmed, Edge, SustainedEdge, AppearanceEdge, Sustained, Appeared,
          OppositeOf, c
    <3>2. e \in Runtime
      BY <2>1, FlagTypes
    <3>3. /\ e.cfg = g.cfg /\ e.confirmed = g.candidate /\ e.candidate = g.candidate
          /\ e.candidate_count = g.candidate_count /\ e.candidate_first = g.candidate_first
          /\ e.last_obs = at /\ e.has_obs
          /\ e.armed /\ e.pending = g.pending /\ e.run_open = g.run_open /\ ~e.fired
      BY <2>1, <2>2, <2>4, ArmFields
    <3> HIDE DEF e
    <3>4. RuntimeInv(e)
      BY <2>3, <2>7, <3>3
      DEF RuntimeInv, EvidenceBacksBelief, OpenRunIsBacked, ArmedSinceAbsence,
          LatchShape, Sustained, Appeared, OppositeOf
    <3>5. QED
      BY <3>1, <3>2, <3>3, <3>4
  <2>8. CASE Appeared(g) /\ g.candidate = g.cfg.target /\ g.armed
    <3> DEFINE l == Latch(c)
               e == Disarm(l)
    <3>1. SetConfirmed(g, g.candidate, at) = e
      BY <1>2, <2>2, <2>3, <2>8
      DEF SetConfirmed, Edge, SustainedEdge, AppearanceEdge, Sustained, Appeared,
          OppositeOf, c
    <3>2. l \in Runtime
      BY <2>1, FlagTypes
    <3>3. /\ l.cfg = g.cfg /\ l.confirmed = g.candidate /\ l.candidate = g.candidate
          /\ l.candidate_count = g.candidate_count /\ l.candidate_first = g.candidate_first
          /\ l.last_obs = at /\ l.has_obs /\ l.run_open = g.run_open
      BY <2>1, <2>2, <2>4, LatchFields
    <3> HIDE DEF l
    <3>4. e \in Runtime
      BY <3>2, FlagTypes
    <3>5. DOMAIN l = DOMAIN c
      BY <2>4, <3>2 DEF Runtime
    <3>6. /\ e.cfg = g.cfg /\ e.confirmed = g.candidate /\ e.candidate = g.candidate
          /\ e.candidate_count = g.candidate_count /\ e.candidate_first = g.candidate_first
          /\ e.last_obs = at /\ e.has_obs /\ ~e.armed /\ e.run_open = g.run_open
      BY <2>4, <3>2, <3>3, <3>5, DisarmFields
    <3> HIDE DEF e
    <3>7. RuntimeInv(e)
      BY <2>3, <2>8, <3>6
      DEF RuntimeInv, EvidenceBacksBelief, OpenRunIsBacked, ArmedSinceAbsence,
          LatchShape, Sustained, Appeared, OppositeOf
    <3>8. QED
      BY <3>1, <3>4, <3>6, <3>7
  <2>9. CASE /\ Appeared(g)
             /\ g.candidate # OppositeOf(g.cfg.target)
             /\ ~(g.candidate = g.cfg.target /\ g.armed)
    <3>1. SetConfirmed(g, g.candidate, at) = c
      BY <1>2, <2>2, <2>3, <2>9
      DEF SetConfirmed, Edge, SustainedEdge, AppearanceEdge, Sustained, Appeared,
          OppositeOf, c
    <3>2. RuntimeInv(c)
      BY <2>2, <2>3, <2>9
      DEF RuntimeInv, EvidenceBacksBelief, OpenRunIsBacked, ArmedSinceAbsence,
          LatchShape, Sustained, Appeared, OppositeOf
    <3>3. QED
      BY <2>1, <2>2, <3>1, <3>2
  <2>10. QED
    BY <2>3, <2>5, <2>6, <2>7, <2>8, <2>9 DEF Sustained, Appeared
<1>3. QED
  BY <1>1, <1>2

\* gw_observe keeps the invariant of the rule it feeds.
LEMMA AcceptInv ==
  ASSUME NEW r \in Runtime, Usable(r.cfg), RuntimeInv(r),
         NEW o \in Heard, ~Stale(r, o)
  PROVE  /\ Accept(r, o) \in Runtime
         /\ Accept(r, o).cfg = r.cfg
         /\ RuntimeInv(Accept(r, o))
<1> DEFINE g == Gather(r, o)
<1>1. /\ g \in Runtime
      /\ g.cfg = r.cfg /\ g.last_obs = o.at /\ g.has_obs /\ g.candidate_count > 0
  <2>1. g \in Runtime /\ Gathered(r, o, g)
    BY GatherFields
  <2>2. QED
    BY <2>1 DEF Gathered
<1>2. RuntimeInv(g)
  BY GatherInv
<1>3. o.at \in Int
  BY DEF Heard
<1>4. Accept(r, o) = Promote(g, o.at)
  BY DEF Accept
<1> HIDE DEF g
<1>5. CASE Confirms(g, o.at)
  <2>1. Accept(r, o) = SetConfirmed(g, g.candidate, o.at)
    BY <1>4, <1>5 DEF Promote
  <2>2. QED
    BY <1>1, <1>2, <1>3, <1>5, <2>1, SetConfirmedInv
<1>6. CASE ~Confirms(g, o.at)
  BY <1>1, <1>2, <1>4, <1>6 DEF Promote
<1>7. QED
  BY <1>5, <1>6

\* An observation never takes back a latched event.
LEMMA AcceptKeepsPending ==
  ASSUME NEW r \in Runtime, NEW o \in Heard, r.pending
  PROVE  Accept(r, o).pending
<1> DEFINE g == Gather(r, o)
           c == [g EXCEPT !.confirmed = g.candidate]
<1>1. g \in Runtime /\ g.pending
  BY GatherFields DEF Gathered
<1>2. Accept(r, o) = Promote(g, o.at) /\ o.at \in Int
  BY DEF Accept, Heard
<1> HIDE DEF g
<1>3. c \in Runtime /\ c.pending
  <2>1. c \in Runtime
    BY <1>1, FieldUpdate DEF Runtime
  <2>2. QED
    BY <1>1, <2>1 DEF Runtime
<1>4. \A t \in Runtime :
        DOMAIN t = {"cfg", "confirmed", "candidate", "candidate_count",
                    "candidate_first", "last_obs", "last_frame", "has_obs", "armed",
                    "fired", "pending", "run_start", "run_open"}
  BY DEF Runtime
<1>5. \A v, at : Edge(c, v, at) \in {c, Arm(c), Disarm(Latch(c)), OpenRun(c, at), BreakRun(c)}
  BY DEF Edge, SustainedEdge, AppearanceEdge
<1>6. Accept(r, o) \in {g, c, Arm(c), Disarm(Latch(c)), OpenRun(c, o.at), BreakRun(c)}
  BY <1>2, <1>5 DEF Promote, SetConfirmed
<1> HIDE DEF c
<1>7. Arm(c).pending /\ OpenRun(c, o.at).pending /\ BreakRun(c).pending
  BY <1>2, <1>3, <1>4, ArmFields, OpenRunFields, BreakRunFields
<1>8. Disarm(Latch(c)).pending
  BY <1>3, <1>4, LatchFields, DisarmFields
<1>9. QED
  BY <1>1, <1>3, <1>6, <1>7, <1>8

\* What a confirmation of v at `at' leaves in a runtime e that was g.
Promoted(g, v, at, e) ==
  LET edge == g.confirmed # v
  IN  /\ e.cfg = g.cfg /\ e.has_obs = g.has_obs /\ e.last_obs = g.last_obs
      /\ e.last_frame = g.last_frame
      /\ e.candidate = g.candidate /\ e.candidate_count = g.candidate_count
      /\ e.candidate_first = g.candidate_first
      /\ e.confirmed = v
      /\ ~edge => e = g
      /\ edge /\ Appeared(g) =>
           /\ e.armed <=> v = OppositeOf(g.cfg.target) \/ (v # g.cfg.target /\ g.armed)
           /\ e.pending <=> g.pending \/ (v = g.cfg.target /\ g.armed)
      /\ edge /\ Sustained(g) =>
           /\ e.pending = g.pending
           /\ ~e.fired
           /\ e.run_open <=> v = g.cfg.target
           /\ e.run_open => e.run_start = at

\* What confirming a value does to a rule, whichever way it goes.
LEMMA SetConfirmedFields ==
  ASSUME NEW g \in Runtime, Usable(g.cfg), NEW v \in Value, NEW at \in Int
  PROVE  Promoted(g, v, at, SetConfirmed(g, v, at))
<1> DEFINE c == [g EXCEPT !.confirmed = v]
           e == SetConfirmed(g, v, at)
<1>1. CASE g.confirmed = v
  BY <1>1 DEF SetConfirmed, Promoted
<1>2. CASE g.confirmed # v
  <2>1. c \in Runtime
    BY FieldUpdate
  <2>2. /\ c.cfg = g.cfg /\ c.confirmed = v /\ c.candidate = g.candidate
        /\ c.candidate_count = g.candidate_count /\ c.candidate_first = g.candidate_first
        /\ c.last_obs = g.last_obs /\ c.last_frame = g.last_frame /\ c.has_obs = g.has_obs
        /\ c.armed = g.armed /\ c.pending = g.pending
    BY <2>1 DEF Runtime
  <2>3. e = Edge(c, v, at)
    BY <1>2 DEF SetConfirmed
  <2>4. g.cfg.target \in {"yes", "no"} /\ g.cfg.kind \in {"appeared", "sustained"}
    BY DEF Usable
  <2> HIDE DEF c, e
  <2>5. CASE Sustained(g) /\ v = g.cfg.target
    <3>1. e = OpenRun(c, at)
      BY <2>2, <2>3, <2>5 DEF Edge, SustainedEdge, Sustained
    <3>2. /\ e.cfg = c.cfg /\ e.has_obs = c.has_obs /\ e.last_obs = c.last_obs
          /\ e.last_frame = c.last_frame
          /\ e.candidate = c.candidate /\ e.candidate_count = c.candidate_count
          /\ e.candidate_first = c.candidate_first
          /\ e.confirmed = c.confirmed /\ e.pending = c.pending
          /\ e.run_open /\ ~e.fired /\ e.run_start = at
      BY <2>1, <3>1, OpenRunFields, RuntimeFields
    <3>3. QED
      BY <1>2, <2>2, <2>5, <3>2 DEF Promoted, Sustained, Appeared, e
  <2>6. CASE Sustained(g) /\ v # g.cfg.target
    <3>1. e = BreakRun(c)
      BY <2>2, <2>3, <2>6 DEF Edge, SustainedEdge, Sustained
    <3>2. /\ e.cfg = c.cfg /\ e.has_obs = c.has_obs /\ e.last_obs = c.last_obs
          /\ e.last_frame = c.last_frame
          /\ e.candidate = c.candidate /\ e.candidate_count = c.candidate_count
          /\ e.candidate_first = c.candidate_first
          /\ e.confirmed = c.confirmed /\ e.pending = c.pending
          /\ ~e.run_open /\ ~e.fired
      BY <2>1, <3>1, BreakRunFields, RuntimeFields
    <3>3. QED
      BY <1>2, <2>2, <2>6, <3>2 DEF Promoted, Sustained, Appeared, e
  <2>7. CASE Appeared(g) /\ v = OppositeOf(g.cfg.target)
    <3>1. v # g.cfg.target
      BY <2>4, <2>7 DEF OppositeOf
    <3>2. e = Arm(c)
      BY <2>2, <2>3, <2>7, <3>1 DEF Edge, AppearanceEdge, Sustained, Appeared
    <3>3. /\ e.cfg = c.cfg /\ e.has_obs = c.has_obs /\ e.last_obs = c.last_obs
          /\ e.last_frame = c.last_frame
          /\ e.candidate = c.candidate /\ e.candidate_count = c.candidate_count
          /\ e.candidate_first = c.candidate_first
          /\ e.confirmed = c.confirmed /\ e.pending = c.pending
          /\ e.armed
      BY <2>1, <3>2, ArmFields, RuntimeFields
    <3>4. QED
      BY <1>2, <2>2, <2>7, <3>1, <3>3 DEF Promoted, Sustained, Appeared, e
  <2>8. CASE Appeared(g) /\ v = g.cfg.target /\ g.armed
    <3> DEFINE l == Latch(c)
    <3>1. /\ l \in Runtime
          /\ l.cfg = c.cfg /\ l.has_obs = c.has_obs /\ l.last_obs = c.last_obs
          /\ l.last_frame = c.last_frame
          /\ l.candidate = c.candidate /\ l.candidate_count = c.candidate_count
          /\ l.candidate_first = c.candidate_first
          /\ l.confirmed = c.confirmed /\ l.pending
      BY <2>1, LatchFields, RuntimeFields
    <3>2. v # OppositeOf(g.cfg.target)
      BY <2>4, <2>8 DEF OppositeOf
    <3>3. e = Disarm(l)
      BY <2>2, <2>3, <2>8, <3>2 DEF Edge, AppearanceEdge, Sustained, Appeared
    <3> HIDE DEF l
    <3>4. /\ e.cfg = l.cfg /\ e.has_obs = l.has_obs /\ e.last_obs = l.last_obs
          /\ e.last_frame = l.last_frame
          /\ e.candidate = l.candidate /\ e.candidate_count = l.candidate_count
          /\ e.candidate_first = l.candidate_first
          /\ e.confirmed = l.confirmed /\ e.pending = l.pending
          /\ ~e.armed
      BY <3>1, <3>3, DisarmFields, RuntimeFields
    <3>5. QED
      BY <1>2, <2>2, <2>8, <3>1, <3>2, <3>4 DEF Promoted, Sustained, Appeared, e
  <2>9. CASE /\ Appeared(g)
             /\ v # OppositeOf(g.cfg.target)
             /\ ~(v = g.cfg.target /\ g.armed)
    <3>1. e = c
      BY <2>2, <2>3, <2>9 DEF Edge, AppearanceEdge, Sustained, Appeared
    <3>2. QED
      BY <1>2, <2>2, <2>9, <3>1 DEF Promoted, Sustained, Appeared, e
  <2>10. QED
    BY <2>4, <2>5, <2>6, <2>7, <2>8, <2>9 DEF Sustained, Appeared
<1>3. QED
  BY <1>1, <1>2

-----------------------------------------------------------------------------
(***************************************************************************)
(* Ageing at a tick.                                                       *)
(***************************************************************************)
LEMMA ResetCandidateFields ==
  ASSUME NEW r \in Runtime
  PROVE  /\ ResetCandidate(r) \in Runtime
         /\ \A f \in DOMAIN r \ {"candidate", "candidate_count", "candidate_first"} :
              ResetCandidate(r)[f] = r[f]
         /\ ResetCandidate(r).candidate = "unknown"
         /\ ResetCandidate(r).candidate_count = 0
BY ResetCandidateType DEF ResetCandidate, Runtime

\* What losing sight leaves in the runtime.
Blinded(r, b) ==
  /\ b.cfg = r.cfg
  /\ b.confirmed = "unknown"
  /\ b.candidate = "unknown"
  /\ b.candidate_count = 0
  /\ b.has_obs = r.has_obs
  /\ b.last_obs = r.last_obs /\ b.last_frame = r.last_frame
  /\ b.pending = r.pending
  /\ IF Sustained(r) THEN ~b.run_open /\ ~b.fired /\ b.armed = r.armed
                     ELSE ~b.armed /\ b.run_open = r.run_open

\* What losing sight of the scene does to a rule.
LEMMA LoseSightFields ==
  ASSUME NEW r \in Runtime
  PROVE  LoseSight(r) \in Runtime /\ Blinded(r, LoseSight(r))
<1> DEFINE u == [r EXCEPT !.confirmed = "unknown"]
           b == ResetCandidate(u)
<1>1. /\ u \in Runtime
      /\ u.cfg = r.cfg /\ u.confirmed = "unknown" /\ u.has_obs = r.has_obs
      /\ u.last_obs = r.last_obs /\ u.last_frame = r.last_frame
      /\ u.pending = r.pending /\ u.armed = r.armed /\ u.run_open = r.run_open
  <2>1. u \in Runtime
    BY FieldUpdate DEF Value
  <2>2. QED
    BY <2>1 DEF Runtime
<1> HIDE DEF u
<1>2. \A t \in Runtime :
        DOMAIN t = {"cfg", "confirmed", "candidate", "candidate_count",
                    "candidate_first", "last_obs", "last_frame", "has_obs", "armed",
                    "fired", "pending", "run_start", "run_open"}
  BY DEF Runtime
<1>3. /\ b \in Runtime
      /\ b.cfg = r.cfg /\ b.confirmed = "unknown" /\ b.has_obs = r.has_obs
      /\ b.last_obs = r.last_obs /\ b.last_frame = r.last_frame
      /\ b.pending = r.pending /\ b.armed = r.armed /\ b.run_open = r.run_open
      /\ b.candidate = "unknown" /\ b.candidate_count = 0
  BY <1>1, <1>2, ResetCandidateFields
<1>4. LoseSight(r) = IF Sustained(r) THEN BreakRun(b) ELSE Disarm(b)
  BY DEF LoseSight, b, u
<1> HIDE DEF b
<1>5. CASE Sustained(r)
  BY <1>2, <1>3, <1>4, <1>5, BreakRunFields DEF Blinded
<1>6. CASE ~Sustained(r)
  BY <1>2, <1>3, <1>4, <1>6, DisarmFields DEF Blinded
<1>7. QED
  BY <1>5, <1>6

\* A rule latched at a tick was latched by an arrival before it, or is a
\* sustained rule in sight of evidence that has lasted.
LEMMA AgePending ==
  ASSUME NEW r \in Runtime, RuntimeInv(r), NEW now \in Int,
         Sustained(r), Age(r, now).pending
  PROVE  ~Expired(r, now) /\ Matured(r, now)
<1>1. ~r.pending
  BY DEF RuntimeInv, LatchShape, Sustained, Appeared
<1>2. CASE Expired(r, now)
  BY <1>1, <1>2, LoseSightFields DEF Age, Blinded
<1>3. CASE ~Expired(r, now)
  BY <1>1, <1>3 DEF Age
<1>4. QED
  BY <1>2, <1>3

\* Nor does ageing, even where sight is lost: only the drain does.
LEMMA AgeKeepsPending ==
  ASSUME NEW r \in Runtime, NEW now \in Int, r.pending
  PROVE  Age(r, now).pending
<1>1. CASE Expired(r, now)
  BY <1>1, LoseSightFields DEF Age, Blinded
<1>2. CASE ~Expired(r, now) /\ Matured(r, now)
  BY <1>2, LatchFields DEF Age
<1>3. CASE ~Expired(r, now) /\ ~Matured(r, now)
  BY <1>3 DEF Age
<1>4. QED
  BY <1>1, <1>2, <1>3

\* gw_tick keeps the invariant of every rule it visits.
LEMMA AgeInv ==
  ASSUME NEW r \in Runtime, RuntimeInv(r), Usable(r.cfg), NEW now \in Int
  PROVE  /\ Drain(Age(r, now)) \in Runtime
         /\ Drain(Age(r, now)).cfg = r.cfg
         /\ RuntimeInv(Drain(Age(r, now)))
<1> DEFINE a == Age(r, now)
           d == Drain(a)
<1>1. \A t \in Runtime :
        DOMAIN t = {"cfg", "confirmed", "candidate", "candidate_count",
                    "candidate_first", "last_obs", "last_frame", "has_obs", "armed",
                    "fired", "pending", "run_start", "run_open"}
  BY DEF Runtime
<1>2. r.cfg.target \in {"yes", "no"} /\ r.cfg.kind \in {"appeared", "sustained"}
  BY DEF Usable
<1>3. CASE Expired(r, now)
  <2>1. a \in Runtime /\ Blinded(r, a)
    BY <1>3, LoseSightFields DEF Age
  <2> HIDE DEF a
  <2>2. /\ d \in Runtime
        /\ \A f \in DOMAIN a \ {"pending"} : d[f] = a[f]
        /\ ~d.pending
    BY <2>1, DrainFields
  <2> HIDE DEF d
  <2>3. /\ d.cfg = r.cfg /\ d.confirmed = "unknown" /\ d.candidate = "unknown"
        /\ d.candidate_count = 0
        /\ IF Sustained(r) THEN ~d.run_open /\ ~d.fired /\ d.armed = r.armed
                           ELSE ~d.armed /\ d.run_open = r.run_open
    BY <1>1, <2>1, <2>2 DEF Blinded
  <2>4. ~d.armed /\ ~d.run_open
    BY <2>3 DEF RuntimeInv, ArmedSinceAbsence, OpenRunIsBacked, Sustained, Appeared
  <2>5. RuntimeInv(d)
    BY <1>2, <2>2, <2>3, <2>4
    DEF RuntimeInv, EvidenceBacksBelief, OpenRunIsBacked, ArmedSinceAbsence,
        LatchShape, Sustained, Appeared, OppositeOf
  <2>6. QED
    BY <2>2, <2>3, <2>5 DEF d, a
<1>4. CASE ~Expired(r, now)
  <2>1. /\ a \in Runtime
        /\ \A f \in DOMAIN r \ {"pending", "fired"} : a[f] = r[f]
        /\ a.fired = (r.fired \/ Matured(r, now))
    <3>1. CASE Matured(r, now)
      BY <1>4, <3>1, LatchFields DEF Age
    <3>2. CASE ~Matured(r, now)
      BY <1>4, <3>2 DEF Age, Runtime
    <3>3. QED
      BY <3>1, <3>2
  <2> HIDE DEF a
  <2>2. /\ d \in Runtime
        /\ \A f \in DOMAIN a \ {"pending"} : d[f] = a[f]
        /\ ~d.pending
    BY <2>1, DrainFields
  <2> HIDE DEF d
  <2>3. /\ d.cfg = r.cfg /\ d.confirmed = r.confirmed /\ d.candidate = r.candidate
        /\ d.candidate_count = r.candidate_count
        /\ d.candidate_first = r.candidate_first
        /\ d.last_obs = r.last_obs /\ d.has_obs = r.has_obs /\ d.armed = r.armed
        /\ d.run_open = r.run_open /\ d.run_start = r.run_start
        /\ d.fired = (r.fired \/ Matured(r, now))
    BY <1>1, <2>1, <2>2
  <2>4. EvidenceBacksBelief(d)
    BY <2>3 DEF RuntimeInv, EvidenceBacksBelief
  <2>5. OpenRunIsBacked(d)
    BY <2>3 DEF RuntimeInv, OpenRunIsBacked, Sustained
  <2>6. ArmedSinceAbsence(d)
    BY <2>3 DEF RuntimeInv, ArmedSinceAbsence, Matured, Sustained, Appeared
  <2>7. LatchShape(d)
    BY <2>2, <2>3 DEF RuntimeInv, LatchShape, Matured, Sustained
  <2>8. QED
    BY <2>2, <2>3, <2>4, <2>5, <2>6, <2>7 DEF RuntimeInv, d, a
<1>5. QED
  BY <1>3, <1>4

\* A new rule satisfies the invariant before anything was observed.
LEMMA NewRuntimeInv ==
  ASSUME NEW cfg \in Config, Usable(cfg)
  PROVE  NewRuntime(cfg).cfg = cfg /\ RuntimeInv(NewRuntime(cfg))
BY DEF NewRuntime, RuntimeInv, EvidenceBacksBelief, OpenRunIsBacked, ArmedSinceAbsence,
       LatchShape, Sustained, Appeared, OppositeOf, Usable

\* What ageing and draining leave of the fields a query reads: all of them in
\* sight, and what an expired runtime shows anyway out of sight.
LEMMA AgedFields ==
  ASSUME NEW r \in Runtime, NEW now \in Int
  PROVE  LET d == Drain(Age(r, now))
         IN  /\ d.cfg = r.cfg /\ d.has_obs = r.has_obs /\ d.last_obs = r.last_obs
             /\ d.last_frame = r.last_frame
             /\ ~Expired(r, now) =>
                  /\ d.confirmed = r.confirmed /\ d.candidate = r.candidate
                  /\ d.candidate_count = r.candidate_count
                  /\ d.run_open = r.run_open /\ d.run_start = r.run_start
<1> DEFINE a == Age(r, now)
           d == Drain(a)
<1>1. \A t \in Runtime :
        DOMAIN t = {"cfg", "confirmed", "candidate", "candidate_count",
                    "candidate_first", "last_obs", "last_frame", "has_obs", "armed",
                    "fired", "pending", "run_start", "run_open"}
  BY DEF Runtime
<1>2. /\ a \in Runtime
      /\ a.cfg = r.cfg /\ a.has_obs = r.has_obs /\ a.last_obs = r.last_obs
      /\ a.last_frame = r.last_frame
      /\ ~Expired(r, now) =>
           /\ a.confirmed = r.confirmed /\ a.candidate = r.candidate
           /\ a.candidate_count = r.candidate_count
           /\ a.run_open = r.run_open /\ a.run_start = r.run_start
  <2>1. CASE Expired(r, now)
    BY <2>1, LoseSightFields DEF Age, Blinded
  <2>2. CASE ~Expired(r, now) /\ Matured(r, now)
    BY <1>1, <2>2, LatchFields DEF Age
  <2>3. CASE ~Expired(r, now) /\ ~Matured(r, now)
    BY <2>3 DEF Age
  <2>4. QED
    BY <2>1, <2>2, <2>3
<1> HIDE DEF a
<1>3. \A f \in DOMAIN a \ {"pending"} : d[f] = a[f]
  BY <1>2, DrainFields
<1>4. /\ d.cfg = a.cfg /\ d.has_obs = a.has_obs /\ d.last_obs = a.last_obs
      /\ d.last_frame = a.last_frame
      /\ d.confirmed = a.confirmed /\ d.candidate = a.candidate
      /\ d.candidate_count = a.candidate_count
      /\ d.run_open = a.run_open /\ d.run_start = a.run_start
  BY <1>1, <1>2, <1>3
<1> HIDE DEF d
<1>5. QED
  BY <1>2, <1>4 DEF d, a

\* A query says what a tick at that time would leave behind, field by field.
LEMMA QueryAgrees ==
  ASSUME NEW r \in Runtime, NEW now \in Int,
         NEW field \in {"confirmed", "health", "age", "confirmations", "sustained"}
  PROVE  StateOf(r, now)[field] = StateOf(Drain(Age(r, now)), now)[field]
<1> DEFINE d == Drain(Age(r, now))
<1>1. /\ d.cfg = r.cfg /\ d.has_obs = r.has_obs /\ d.last_obs = r.last_obs
      /\ ~Expired(r, now) =>
           /\ d.confirmed = r.confirmed /\ d.candidate = r.candidate
           /\ d.candidate_count = r.candidate_count
           /\ d.run_open = r.run_open /\ d.run_start = r.run_start
  BY AgedFields
<1> HIDE DEF d
<1>2. Expired(d, now) = Expired(r, now) /\ Health(d, now) = Health(r, now)
  BY <1>1 DEF Expired, Health
<1>3. QED
  BY <1>1, <1>2 DEF StateOf, d

-----------------------------------------------------------------------------
(***************************************************************************)
(* The watch.                                                              *)
(***************************************************************************)
IInv == TypeOK /\ RuleInv

\* A set of slots is finite.
LEMMA SlotFinite ==
  ASSUME NEW S \in SUBSET Slot
  PROVE  IsFiniteSet(S) /\ Cardinality(S) \in Nat
<1>1. IsFiniteSet(Slot)
  BY MaxRulesAssumption, FS_Interval DEF Slot
<1>2. IsFiniteSet(S)
  BY <1>1, FS_Subset
<1>3. QED
  BY <1>2, FS_CardinalityType

\* Copying an id answers with one of the statuses.
LEMMA CopyIdStatusType ==
  ASSUME NEW id
  PROVE  CopyIdStatus(id) \in Status
<1>1. \/ CopyIdStatus(id) = "INVALID_ARG"
      \/ CopyIdStatus(id) = "LIMIT"
      \/ CopyIdStatus(id) = "OK"
  <2>1. CASE id = NullId
    BY <2>1 DEF CopyIdStatus, NullId, EmptyId, LongId
  <2>2. CASE id # NullId /\ id \in {EmptyId, LongId}
    BY <2>2 DEF CopyIdStatus
  <2>3. CASE id # NullId /\ id \notin {EmptyId, LongId}
    BY <2>3 DEF CopyIdStatus
  <2>4. QED
    BY <2>1, <2>2, <2>3
<1>2. QED
  BY <1>1 DEF Status

\* The configuration of an unused slot is one.
LEMMA ZeroConfigType == ZeroConfig \in Config
BY CountMaxAssumption, IdsAssumption DEF ZeroConfig, Config, Kind, Value

\* An unused slot has the state of a rule.
LEMMA ZeroRuntimeType == NewRuntime(ZeroConfig) \in Runtime
BY ZeroConfigType, NewRuntimeType

\* A call that is refused changes nothing but what is returned.
LEMMA RefuseInv ==
  ASSUME IInv, NEW status \in Status, Refuse(status)
  PROVE  IInv'
BY DEF IInv, TypeOK, RuleInv, Refuse, Return, watch, Live, Slot

\* The invariant holds before gw_init.
LEMMA InitInv == Init => IInv
<1> SUFFICES ASSUME Init PROVE IInv
  OBVIOUS
<1>1. camera_id \in Ids
  BY CamerasAssumption DEF Init
<1>2. rules \in [Slot -> Runtime]
  BY ZeroRuntimeType DEF Init
<1>3. Live = {}
  BY DEF Init, Live, Slot
<1>4. /\ rule_count \in 0 .. MaxRules /\ last_tick \in Int
      /\ has_ticked \in BOOLEAN
  <2>1. rule_count \in 0 .. MaxRules /\ last_tick \in Int
    BY MaxRulesAssumption DEF Init
  <2>2. has_ticked \in BOOLEAN
    BY DEF Init
  <2>3. QED
    BY <2>1, <2>2
<1>5. ret.status \in Status /\ ret.fired \subseteq Slot /\ ret.n \in Nat
  BY DEF Init, Status
<1>6. QED
  BY <1>1, <1>2, <1>3, <1>4, <1>5 DEF IInv, TypeOK, RuleInv

\* gw_init keeps it.
LEMMA StartInv ==
  ASSUME IInv, NEW camera \in Ids, Start(camera)
  PROVE  IInv'
<1>1. camera_id' \in Ids
  BY IdsAssumption DEF Start
<1>2. rules' \in [Slot -> Runtime]
  BY ZeroRuntimeType DEF Start
<1>3. Live' = {}
  BY DEF Start, Live, Slot
<1>4. /\ rule_count' \in 0 .. MaxRules /\ last_tick' \in Int
      /\ has_ticked' \in BOOLEAN
  <2>1. rule_count' \in 0 .. MaxRules /\ last_tick' \in Int
    BY MaxRulesAssumption DEF Start
  <2>2. has_ticked' \in BOOLEAN
    BY DEF Start
  <2>3. QED
    BY <2>1, <2>2
<1>5. ret'.status \in Status /\ ret'.fired \subseteq Slot /\ ret'.n \in Nat
  BY CopyIdStatusType DEF Start, Return
<1>6. QED
  BY <1>1, <1>2, <1>3, <1>4, <1>5 DEF IInv, TypeOK, RuleInv

\* gw_add_rule keeps it.
LEMMA AddRuleInv ==
  ASSUME IInv, NEW cfg \in Config, AddRule(cfg)
  PROVE  IInv'
<1>1. CASE AddRuleOverLimit(cfg) \/ AddRuleUnusable(cfg)
  BY <1>1, RefuseInv DEF AddRuleOverLimit, AddRuleUnusable, Status
<1>2. ASSUME rule_count < MaxRules, WriteSlot(cfg)
      PROVE  /\ rules' \in [Slot -> Runtime]
             /\ rules'[rule_count] = NewRuntime(cfg)
             /\ \A i \in Live : rules'[i] = rules[i]
  <2>1. rule_count \in Slot /\ rules \in [Slot -> Runtime]
    BY <1>2, MaxRulesAssumption DEF IInv, TypeOK, Slot
  <2>2. NewRuntime(cfg) \in Runtime
    BY NewRuntimeType
  <2>3. QED
    BY <1>2, <2>1, <2>2 DEF WriteSlot, Live, Slot
<1>3. CASE AddRuleBadId(cfg)
  <2>1. Live' = Live /\ CopyIdStatus(cfg.id) \in Status
    BY <1>3, CopyIdStatusType DEF AddRuleBadId, Live
  <2>2. QED
    BY <1>2, <1>3, <2>1 DEF AddRuleBadId, Return, IInv, TypeOK, RuleInv
<1>4. CASE AddRuleAppend(cfg)
  <2>1. Live' = Live \cup {rule_count}
    BY <1>4, MaxRulesAssumption DEF AddRuleAppend, Live, Slot, IInv, TypeOK
  <2>2. Usable(cfg) /\ NewRuntime(cfg).cfg = cfg /\ RuntimeInv(NewRuntime(cfg))
    BY <1>4, NewRuntimeInv DEF AddRuleAppend
  <2>3. \A i \in Live' : Usable(rules'[i].cfg) /\ RuntimeInv(rules'[i])
    BY <1>2, <1>4, <2>1, <2>2 DEF AddRuleAppend, IInv, TypeOK, RuleInv
  <2>4. rule_count' \in 0 .. MaxRules /\ "OK" \in Status
    BY <1>4, MaxRulesAssumption DEF AddRuleAppend, IInv, TypeOK, Status
  <2>5. QED
    BY <1>2, <1>4, <2>3, <2>4 DEF AddRuleAppend, Return, IInv, TypeOK, RuleInv
<1>5. QED
  BY <1>1, <1>3, <1>4 DEF AddRule

\* gw_observe keeps it, whatever the answer and its time.
LEMMA ObserveInv ==
  ASSUME IInv, NEW i \in 0 .. MaxRules, NEW o, o.value \in Value => o \in Heard,
         Observe(i, o)
  PROVE  IInv'
<1>1. CASE ObserveInvalid(i, o) \/ ObserveDuplicate(i, o) \/ ObserveStale(i, o)
  BY <1>1, RefuseInv DEF ObserveInvalid, ObserveDuplicate, ObserveStale, Status
<1>2. CASE ObserveAccept(i, o)
  <2>1. i \in Live /\ i \in Slot /\ rules \in [Slot -> Runtime]
    BY <1>2, MaxRulesAssumption DEF ObserveAccept, Answerable, Live, Slot, IInv, TypeOK
  <2>2. o \in Heard
    BY <1>2 DEF ObserveAccept, Answerable
  <2>3. rules[i] \in Runtime /\ Usable(rules[i].cfg) /\ RuntimeInv(rules[i])
    BY <2>1 DEF IInv, TypeOK, RuleInv
  <2>4. ~Stale(rules[i], o)
    BY <1>2 DEF ObserveAccept
  <2>5. /\ Accept(rules[i], o) \in Runtime
        /\ Accept(rules[i], o).cfg = rules[i].cfg
        /\ RuntimeInv(Accept(rules[i], o))
    BY <2>2, <2>3, <2>4, AcceptInv
  <2>6. /\ rules' \in [Slot -> Runtime]
        /\ \A j \in Slot : rules'[j] = IF j = i THEN Accept(rules[i], o) ELSE rules[j]
    BY <1>2, <2>1, <2>5 DEF ObserveAccept
  <2>7. Live' = Live
    BY <1>2 DEF ObserveAccept, Live
  <2>8. \A j \in Live' : Usable(rules'[j].cfg) /\ RuntimeInv(rules'[j])
    BY <2>3, <2>5, <2>6, <2>7 DEF IInv, TypeOK, RuleInv, Live
  <2>9. QED
    BY <1>2, <2>6, <2>8 DEF ObserveAccept, Return, IInv, TypeOK, RuleInv, Status
<1>3. QED
  BY <1>1, <1>2 DEF Observe

\* gw_tick keeps it, whatever the time and the room for events.
LEMMA TickInv ==
  ASSUME IInv, NEW now \in Int, NEW cap \in Nat, Tick(now, cap)
  PROVE  IInv'
<1>1. CASE TickBackwards(now, cap)
  BY <1>1, RefuseInv DEF TickBackwards, Status
<1>2. CASE TickForward(now, cap)
  <2>1. \A i \in Live : /\ Drain(Age(rules[i], now)) \in Runtime
                        /\ Drain(Age(rules[i], now)).cfg = rules[i].cfg
                        /\ RuntimeInv(Drain(Age(rules[i], now)))
    BY AgeInv DEF IInv, TypeOK, RuleInv, Live
  <2>2. Live' = Live /\ Live \subseteq Slot
    BY <1>2 DEF TickForward, Live
  <2>3. /\ rules' \in [Slot -> Runtime]
        /\ \A i \in Live : rules'[i] = Drain(Age(rules[i], now))
    BY <1>2, <2>1, <2>2 DEF TickForward, IInv, TypeOK
  <2>4. \A i \in Live' : Usable(rules'[i].cfg) /\ RuntimeInv(rules'[i])
    BY <2>1, <2>2, <2>3 DEF IInv, TypeOK
  <2>5. /\ Due(now) \subseteq Slot
        /\ Written(Due(now), cap) \subseteq Slot
        /\ Cardinality(Due(now)) \in Nat
    BY <2>2, SlotFinite DEF Due, Written
  <2>6. /\ ret'.status \in Status /\ ret'.fired \subseteq Slot /\ ret'.n \in Nat
        /\ last_tick' \in Int /\ has_ticked' \in BOOLEAN
    BY <1>2, <2>5 DEF TickForward, Status
  <2>7. QED
    BY <1>2, <2>3, <2>4, <2>6 DEF TickForward, IInv, TypeOK, RuleInv
<1>3. QED
  BY <1>1, <1>2 DEF Tick

\* What the callers of Spec can observe.
LEMMA ObservationType ==
  ASSUME NEW o \in Observation, o.value \in Value
  PROVE  o \in Heard
BY TimeAssumption, FramesAssumption DEF Observation, Heard

\* Every call keeps it.
LEMMA StepInv == IInv /\ [Next]_vars => IInv'
<1> SUFFICES ASSUME IInv, [Next]_vars PROVE IInv'
  OBVIOUS
<1>1. ASSUME NEW camera \in Cameras, Start(camera) PROVE IInv'
  BY <1>1, StartInv, CamerasAssumption
<1>2. ASSUME NEW cfg \in Configs, AddRule(cfg) PROVE IInv'
  BY <1>2, AddRuleInv, ConfigsAssumption
<1>3. ASSUME NEW i \in 0 .. MaxRules, NEW o \in Observation, Observe(i, o) PROVE IInv'
  BY <1>3, ObservationType, ObserveInv
<1>4. ASSUME NEW now \in Time, NEW cap \in Caps, Tick(now, cap) PROVE IInv'
  BY <1>4, TickInv, TimeAssumption, CapsAssumption
<1>5. ASSUME NEW i \in 0 .. MaxRules, NEW now \in Time, GetState(i, now) PROVE IInv'
  BY <1>5, RefuseInv DEF GetState, Status
<1>6. CASE UNCHANGED vars
  BY <1>6 DEF vars, IInv, TypeOK, RuleInv, Live, Slot
<1>7. QED
  BY <1>1, <1>2, <1>3, <1>4, <1>5, <1>6 DEF Next

\* gw_state.c: after every sequence of calls, in order or out of it, the watch has
\* the shape of struct gw_watch and every rule satisfies the invariant of a rule.
THEOREM Invariance == Spec => []IInv
BY InitInv, StepInv, PTL DEF Spec

\* Every reachable state of a watch is well typed and holds only rules that
\* gw_add_rule accepts.
THEOREM TypeCorrect == Spec => []TypeOK
<1>1. IInv => TypeOK
  BY DEF IInv
<1>2. QED
  BY <1>1, Invariance, PTL

\* In every reachable state each rule's belief, arming, latch and open run are
\* backed by the evidence it counts.
THEOREM RuleInvariant == Spec => []RuleInv
<1>1. IInv => RuleInv
  BY DEF IInv
<1>2. QED
  BY <1>1, Invariance, PTL

\* In every reachable state, gw_get_state agrees with the gw_tick it stands
\* in for, at whatever instant it is asked.
THEOREM QueryIsTick == Spec => []QueryMatchesTick
<1>1. IInv => QueryMatchesTick
  <2> SUFFICES ASSUME IInv, NEW i \in Live, NEW now \in Time,
                      NEW field \in DOMAIN StateOf(rules[i], now) \ {"fired"}
               PROVE  StateOf(rules[i], now)[field]
                        = StateOf(Drain(Age(rules[i], now)), now)[field]
    BY Zenon DEF QueryMatchesTick
  <2>1. field \in {"confirmed", "health", "age", "confirmations", "sustained"}
    BY DEF StateOf
  <2>2. rules[i] \in Runtime /\ now \in Int
    BY TimeAssumption DEF IInv, TypeOK, Live
  <2>3. QED
    BY <2>1, <2>2, QueryAgrees
<1>2. QED
  BY <1>1, Invariance, PTL

-----------------------------------------------------------------------------
(***************************************************************************)
(* What a tick reports.                                                    *)
(***************************************************************************)

\* Only a tick that goes forward reports anything.
LEMMA ReportIsTick ==
  ASSUME Next, ret'.fired # {}
  PROVE  \E now \in Time, cap \in Caps : TickForward(now, cap)
BY DEF Next, Start, AddRule, AddRuleOverLimit, AddRuleUnusable, AddRuleBadId,
       AddRuleAppend, Observe, ObserveInvalid, ObserveDuplicate, ObserveStale,
       ObserveAccept, Tick, TickBackwards, GetState, Refuse, Return

\* A sustained rule is reported only on fresh, unbroken evidence that reaches
\* back confirm_window + sustain: gw_tick never reports a duration early.
THEOREM NeverEarly == Spec => NoReportBeforeDuration
<1>1. ASSUME IInv, [Next]_vars
      PROVE  [ \A i \in ret'.fired :
                 Sustained(rules[i]) => Earned(rules[i], last_tick') ]_vars
  <2> SUFFICES ASSUME Next, NEW i \in ret'.fired, Sustained(rules[i])
               PROVE  Earned(rules[i], last_tick')
    BY <1>1
  <2>1. PICK now \in Time, cap \in Caps : TickForward(now, cap)
    BY ReportIsTick
  <2>2. i \in Due(now) /\ last_tick' = now /\ now \in Int
    BY <2>1, TimeAssumption DEF TickForward, Written
  <2> DEFINE r == rules[i]
  <2>3. /\ r \in Runtime /\ Usable(r.cfg) /\ RuntimeInv(r)
        /\ Age(r, now).pending
    BY <1>1, <2>2 DEF Due, Live, IInv, TypeOK, RuleInv
  <2> HIDE DEF r
  <2>4. Sustained(r)
    BY DEF r
  <2>5. ~Expired(r, now) /\ Matured(r, now)
    BY <2>2, <2>3, <2>4, AgePending
  <2>6. /\ r.candidate = r.cfg.target
        /\ r.candidate_count >= r.cfg.confirm_count
        /\ r.run_start - r.candidate_first >= r.cfg.confirm_window
        /\ now - r.run_start >= r.cfg.sustain
        /\ ~(now - r.last_obs > r.cfg.max_gap)
    BY <2>3, <2>5 DEF RuntimeInv, OpenRunIsBacked, Matured, Expired
  <2>7. /\ r.run_start \in Int /\ r.candidate_first \in Int /\ r.last_obs \in Int
        /\ r.cfg.confirm_window \in Int /\ r.cfg.sustain \in Int /\ r.cfg.max_gap \in Int
    BY <2>3 DEF Runtime, Config
  <2>8. Earned(r, now)
    BY <2>2, <2>6, <2>7 DEF Earned
  <2>9. QED
    BY <2>2, <2>8 DEF r
<1>2. QED
  BY <1>1, Invariance, PTL DEF Spec, NoReportBeforeDuration

\* A rule that is due and not written was cut off by the capacity, and then
\* gw_tick says so.
LEMMA UnwrittenIsLimit ==
  ASSUME NEW due \in SUBSET Slot, NEW cap \in Nat,
         NEW i \in due, i \notin Written(due, cap)
  PROVE  Cardinality(due) > cap
<1> DEFINE below == {j \in due : j < i}
<1>1. Cardinality(below) \in Nat /\ IsFiniteSet(due) /\ Cardinality(due) \in Nat
  BY SlotFinite
<1>2. Cardinality(below) <= Cardinality(due)
  BY <1>1, FS_Subset
<1>3. i \in Int /\ i \notin below
  BY DEF Slot
<1>4. Cardinality(below) # Cardinality(due)
  BY <1>1, <1>3, FS_Subset
<1>5. ~(Cardinality(below) < cap)
  BY DEF Written
<1>6. QED
  BY <1>1, <1>2, <1>4, <1>5

\* A latched event is never dropped in silence, whatever the order of calls.
THEOREM NoEventLostSilently == Spec => NoSilentLoss
<1>1. ASSUME IInv, [Next]_vars
      PROVE  [ \A i \in Live :
                 rules[i].pending /\ ~rules'[i].pending =>
                   \/ i \in ret'.fired
                   \/ ret'.status = "LIMIT"
                   \/ rule_count' = 0 ]_vars
  <2> SUFFICES ASSUME Next, NEW i \in Live, rules[i].pending, ~rules'[i].pending
               PROVE  \/ i \in ret'.fired
                      \/ ret'.status = "LIMIT"
                      \/ rule_count' = 0
    BY <1>1
  <2>1. i \in Slot /\ i < rule_count /\ rules \in [Slot -> Runtime] /\ rule_count \in Int
    BY <1>1 DEF Live, IInv, TypeOK
  <2>2. ASSUME NEW camera \in Cameras, Start(camera) PROVE rule_count' = 0
    BY <2>2 DEF Start
  <2>3. ASSUME NEW cfg \in Configs PROVE ~AddRule(cfg)
    <3>1. i # rule_count /\ ~(WriteSlot(cfg) /\ rules'[i] # rules[i])
      BY <2>1 DEF WriteSlot
    <3>2. ~WriteSlot(cfg)
      BY <3>1
    <3>3. ~(UNCHANGED watch)
      BY DEF watch
    <3>4. QED
      BY <3>2, <3>3
      DEF AddRule, AddRuleOverLimit, AddRuleUnusable, AddRuleBadId, AddRuleAppend, Refuse
  <2>4. ASSUME NEW j \in 0 .. MaxRules, NEW o \in Observation PROVE ~Observe(j, o)
    <3>1. CASE ObserveAccept(j, o)
      <4>1. o \in Heard
        BY <3>1, TimeAssumption, FramesAssumption
        DEF ObserveAccept, Answerable, Observation, Heard
      <4>2. rules'[i] = IF i = j THEN Accept(rules[i], o) ELSE rules[i]
        BY <2>1, <3>1 DEF ObserveAccept
      <4>3. QED
        BY <2>1, <4>1, <4>2, AcceptKeepsPending
    <3>2. QED
      BY <3>1 DEF Observe, ObserveInvalid, ObserveDuplicate, ObserveStale, Refuse, watch
  <2>5. ASSUME NEW now \in Time, NEW cap \in Caps, Tick(now, cap)
        PROVE  i \in ret'.fired \/ ret'.status = "LIMIT"
    <3>1. TickForward(now, cap)
      BY <2>5 DEF Tick, TickBackwards, Refuse, watch
    <3>2. i \in Due(now) /\ Due(now) \in SUBSET Slot /\ cap \in Nat
      BY <2>1, AgeKeepsPending, TimeAssumption, CapsAssumption DEF Due, Live
    <3>3. CASE i \in Written(Due(now), cap)
      BY <3>1, <3>3 DEF TickForward
    <3>4. CASE i \notin Written(Due(now), cap)
      <4>1. Cardinality(Due(now)) > cap
        BY <3>2, <3>4, UnwrittenIsLimit
      <4>2. QED
        BY <3>1, <4>1 DEF TickForward
    <3>5. QED
      BY <3>3, <3>4
  <2>6. ASSUME NEW j \in 0 .. MaxRules, NEW now \in Time PROVE ~GetState(j, now)
    BY DEF GetState, Refuse, watch
  <2>7. QED
    BY <2>2, <2>3, <2>4, <2>5, <2>6 DEF Next
<1>2. QED
  BY <1>1, Invariance, PTL DEF Spec, NoSilentLoss
=============================================================================
