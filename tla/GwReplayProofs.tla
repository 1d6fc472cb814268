--------------------------- MODULE GwReplayProofs ---------------------------
(***************************************************************************)
(* The replay, for any scene the parser lets through, any number of rules  *)
(* and any restarts.                                                       *)
(*                                                                         *)
(* Three inductive invariants, each on top of the one before: AccountInv   *)
(* for the clock and the time it accounts; WalkInv for the order of calls, *)
(* which ties every runtime of the watch to the samples walk() has taken   *)
(* up; TellInv for what was in the scene behind every latch, every running *)
(* duration and every detection.                                           *)
(***************************************************************************)
EXTENDS GwReplay, GwWatchProofs

\* The place in the loop, the clock and the cursor.
WalkTypeOK ==
  /\ scene \in Scenes /\ Accepted(scene)
  /\ now \in Int /\ observed \in Int /\ unknown \in Int
  /\ next \in 0 .. Len(scene.samples)

\* What has been walked is accounted; the clock is not a whole tick past the
\* last sample; samples that came due were read before an interval is accounted.
AccountInv ==
  /\ WalkTypeOK
  /\ observed + unknown = now - FirstAt
  /\ now - LastAt < scene.tick
  /\ pc = "account" => ~SampleDue
  /\ pc \in {"done", "limit"} => Finished

\* What the parser guarantees of an accepted scene, as far as the clock needs it.
LEMMA SceneFacts ==
  ASSUME WalkTypeOK
  PROVE  /\ scene.tick \in Int /\ scene.tick > 0
         /\ Len(scene.samples) \in Nat \ {0}
         /\ \A k \in 1 .. Len(scene.samples) :
              scene.samples[k].t \in Int /\ FirstAt <= scene.samples[k].t
                /\ scene.samples[k].t <= LastAt
         /\ FirstAt \in Int /\ LastAt \in Int /\ FirstAt <= LastAt
<1> DEFINE s == scene.samples
<1>1. /\ scene.tick \in Int /\ Len(s) \in Nat /\ DOMAIN s = 1 .. Len(s)
      /\ \A k \in DOMAIN s : s[k].t \in Int
  BY ScenesAssumption DEF WalkTypeOK
<1>2. scene.tick > 0 /\ s # <<>>
  BY DEF WalkTypeOK, Accepted, Replayable
<1>3. \A j, k \in DOMAIN s : j < k => s[j].t <= s[k].t
  BY DEF WalkTypeOK, Accepted, Replayable, Ascending
<1>4. Len(s) # 0
  BY <1>1, <1>2
<1>5. \A k \in 1 .. Len(s) : s[1].t <= s[k].t /\ s[k].t <= s[Len(s)].t
  <2> SUFFICES ASSUME NEW k \in 1 .. Len(s)
               PROVE  s[1].t <= s[k].t /\ s[k].t <= s[Len(s)].t
    OBVIOUS
  <2>1. 1 \in DOMAIN s /\ k \in DOMAIN s /\ Len(s) \in DOMAIN s
    BY <1>1, <1>4
  <2>2. s[1].t \in Int /\ s[k].t \in Int /\ s[Len(s)].t \in Int
    BY <1>1, <2>1
  <2>3. k = 1 \/ s[1].t <= s[k].t
    BY <1>1, <1>3, <2>1
  <2>4. k = Len(s) \/ s[k].t <= s[Len(s)].t
    BY <1>1, <1>3, <2>1
  <2> QED BY <2>2, <2>3, <2>4
<1> QED
  BY <1>1, <1>2, <1>4, <1>5 DEF FirstAt, LastAt

\* Nothing is accounted for before the first sample.
LEMMA InitAccountInv == RInit => AccountInv
<1> SUFFICES ASSUME RInit PROVE AccountInv
  OBVIOUS
<1>1. /\ scene \in Scenes /\ Accepted(scene)
      /\ pc = "boot" /\ now = FirstAt /\ next = 0 /\ observed = 0 /\ unknown = 0
  BY DEF RInit
<1>2. Len(scene.samples) \in Nat /\ DOMAIN scene.samples = 1 .. Len(scene.samples)
      /\ scene.samples # <<>>
  BY <1>1, ScenesAssumption DEF Accepted, Replayable
<1>3. now \in Int
  BY <1>1, <1>2, ScenesAssumption DEF FirstAt
<1>4. WalkTypeOK
  BY <1>1, <1>2, <1>3 DEF WalkTypeOK
<1>5. FirstAt \in Int /\ LastAt \in Int /\ FirstAt <= LastAt /\ scene.tick \in Int /\ scene.tick > 0
  BY <1>4, SceneFacts
<1> QED
  BY <1>1, <1>4, <1>5 DEF AccountInv

\* An interval accounted leaves the clock less than a tick past the last sample,
\* because the walk only goes on while there is something ahead.
LEMMA AccountKeepsInv ==
  ASSUME AccountInv, Account
  PROVE  AccountInv'
<1>1. WalkTypeOK
  BY DEF AccountInv
<1>2. /\ pc = "account" /\ ~Finished /\ now' = now + scene.tick /\ pc' = "boot"
      /\ scene' = scene /\ next' = next
  BY DEF Account
<1>3. observed' + unknown' = observed + unknown + scene.tick
      /\ observed' \in Int /\ unknown' \in Int
  <2>1. scene.tick \in Int
    BY <1>1, SceneFacts
  <2>2. \/ unknown' = unknown + scene.tick /\ observed' = observed
        \/ observed' = observed + scene.tick /\ unknown' = unknown
    BY DEF Account
  <2> QED BY <1>1, <2>1, <2>2 DEF WalkTypeOK
<1>4. now < LastAt
  <2>1. CASE AllRead
    <3>1. ~(now >= LastAt)
      BY <1>2, <2>1 DEF Finished
    <3> QED BY <1>1, <3>1, SceneFacts DEF WalkTypeOK
  <2>2. CASE ~AllRead
    <3>1. next + 1 \in 1 .. Len(scene.samples)
      BY <1>1, <2>2, SceneFacts DEF AllRead, WalkTypeOK
    <3>2. ~(Sample.t <= now)
      BY <1>2, <2>2 DEF AccountInv, SampleDue
    <3>3. Sample.t \in Int /\ Sample.t <= LastAt /\ LastAt \in Int /\ now \in Int
      BY <1>1, <3>1, SceneFacts DEF Sample, WalkTypeOK
    <3> QED BY <3>2, <3>3
  <2> QED BY <2>1, <2>2
<1>5. WalkTypeOK'
  BY <1>1, <1>2, <1>3, SceneFacts DEF WalkTypeOK, Accepted
<1>6. FirstAt' = FirstAt /\ LastAt' = LastAt
  BY <1>2 DEF FirstAt, LastAt
<1>7. observed' + unknown' = now' - FirstAt'
  <2>1. observed + unknown = now - FirstAt
    BY DEF AccountInv
  <2>2. /\ now \in Int /\ observed \in Int /\ unknown \in Int
        /\ FirstAt \in Int /\ scene.tick \in Int
    BY <1>1, SceneFacts DEF WalkTypeOK
  <2>3. now' = now + scene.tick /\ FirstAt' = FirstAt
    BY <1>2, <1>6
  <2>4. observed' + unknown' = observed + unknown + scene.tick
    BY <1>3
  <2> QED BY <2>1, <2>2, <2>3, <2>4
<1>8. now' - LastAt' < scene'.tick
  BY <1>1, <1>2, <1>4, <1>6, SceneFacts DEF WalkTypeOK
<1> QED
  BY <1>2, <1>5, <1>7, <1>8 DEF AccountInv

\* Every other step leaves the clock and the account alone.
LEMMA ClockStands ==
  ASSUME AccountInv,
         UNCHANGED <<scene, now, observed, unknown>>, next' \in 0 .. Len(scene.samples),
         pc' = "account" => ~SampleDue', pc' \in {"done", "limit"} => Finished'
  PROVE  AccountInv'
<1>1. WalkTypeOK'
  BY DEF AccountInv, WalkTypeOK, Accepted
<1> QED
  BY <1>1 DEF AccountInv, FirstAt, LastAt

\* Every step of the replay keeps the account.
LEMMA StepAccountInv ==
  ASSUME AccountInv, [RNext]_rvars
  PROVE  AccountInv'
<1> USE DEF walk
<1>0. next \in 0 .. Len(scene.samples) /\ Len(scene.samples) \in Nat
  BY SceneFacts DEF AccountInv, WalkTypeOK
<1>1. CASE Boot
  <2>1. pc' \in {"boot", "failed"}
    BY <1>1 DEF Boot, Goto
  <2> QED BY <1>0, <1>1, <2>1, ClockStands DEF Boot
<1>2. CASE Restart
  <2>1. pc' \in {"boot", "failed"}
    BY <1>2 DEF Restart, Goto
  <2> QED BY <1>0, <1>2, <2>1, ClockStands DEF Restart
<1>3. CASE Restarted
  BY <1>0, <1>3, ClockStands DEF Restarted
<1>4. CASE Deliver
  <2>1. pc' \in {"samples", "failed"}
    BY <1>4 DEF Deliver, Goto
  <2> QED BY <1>0, <1>4, <2>1, ClockStands DEF Deliver
<1>5. CASE Unlabelled
  <2>1. pc' = "samples"
    BY <1>5 DEF Unlabelled
  <2> QED BY <1>0, <1>5, <2>1, ClockStands DEF Unlabelled
<1>6. CASE SampleDone
  <2>1. pc' = "samples" /\ next' = next + 1 /\ ~AllRead
    BY <1>6 DEF SampleDone, SampleDue
  <2>2. next' \in 0 .. Len(scene.samples)
    BY <1>0, <2>1 DEF AllRead
  <2> QED BY <1>6, <2>1, <2>2, ClockStands DEF SampleDone
<1>7. CASE TickStep
  <2>1. pc' \in {"account", "failed"} /\ ~SampleDue
    BY <1>7 DEF TickStep, Goto
  <2>2. ~SampleDue'
    BY <1>7, <2>1 DEF TickStep, SampleDue, AllRead, Sample
  <2> QED BY <1>0, <1>7, <2>1, <2>2, ClockStands DEF TickStep
<1>8. CASE Account
  BY <1>8, AccountKeepsInv
<1>9. CASE Finish
  <2>1. pc' \in {"done", "limit"} /\ Finished
    BY <1>9 DEF Finish
  <2>2. Finished'
    BY <1>9, <2>1 DEF Finish, Finished, AllRead, LastAt
  <2> QED BY <1>0, <1>9, <2>1, <2>2, ClockStands DEF Finish
<1>10. CASE UNCHANGED rvars
  <2>1. pc' = "account" => ~SampleDue'
    BY <1>10 DEF AccountInv, rvars, SampleDue, AllRead, Sample
  <2>2. pc' \in {"done", "limit"} => Finished'
    BY <1>10 DEF AccountInv, rvars, Finished, AllRead, LastAt
  <2> QED BY <1>0, <1>10, <2>1, <2>2, ClockStands DEF rvars
<1> QED
  BY <1>1, <1>2, <1>3, <1>4, <1>5, <1>6, <1>7, <1>8, <1>9, <1>10 DEF RNext

\* gw_score.c:123: observed and unknown time are all the time walked, and the walk
\* ends less than a tick past the last sample, whatever the scene, its outages and
\* its restarts.
THEOREM NoIntervalLost == RSpec => []EveryIntervalAccounted
<1>1. AccountInv => EveryIntervalAccounted
  BY DEF AccountInv, EveryIntervalAccounted, Finished
<1>2. RSpec => []AccountInv
  BY InitAccountInv, StepAccountInv, PTL DEF RSpec
<1> QED
  BY <1>1, <1>2, PTL

-----------------------------------------------------------------------------
(***************************************************************************)
(* The order of calls.                                                     *)
(***************************************************************************)
\* The samples that have come to rule i: those before the current one, and the
\* current one once the loop over the rules is past i.
TakenUp(i) == IF i < rule THEN next + 1 ELSE next

\* In this walk the last observation of r, rule i, was sample k.
HeardSample(r, i, k) ==
  /\ r.last_frame = k /\ r.last_obs = scene.samples[k].t
  /\ i \in DOMAIN scene.samples[k].label
  /\ scene.samples[k].t <= now

\* The loops, and the process that is running.
LoopInv ==
  /\ pc \in {"boot", "samples", "account", "done", "limit", "failed"}
  /\ CopyIdStatus(camera_id) = "OK"
  /\ rule \in 0 .. RuleCount
  /\ next_restart \in 0 .. Len(scene.restarts)
  /\ rule_count <= RuleCount
  /\ pc \notin {"boot", "failed"} => rule_count = RuleCount
  /\ \A i \in Live : rules[i].cfg = scene.rules[i + 1]
  /\ rule # 0 => SampleDue
  /\ AvailRule < RuleCount

\* The instant of the last tick, and which samples are still to come.
ClockInv ==
  /\ has_ticked => last_tick = IF pc \in {"account", "done", "limit"}
                               THEN now ELSE now - scene.tick
  /\ pc \in {"account", "done", "limit"} => has_ticked
  /\ \A k \in next + 1 .. Len(scene.samples) : scene.samples[k].t > now - scene.tick

\* What a rule heard is what the scene shows, and since the process started; a
\* rule that heard nothing for longer than max_gap up to the last tick is blind.
HeardInv ==
  \A i \in Live :
    rules[i].has_obs =>
      /\ \E k \in 1 .. TakenUp(i) : HeardSample(rules[i], i, k)
      /\ ~has_ticked => rules[i].last_obs > now - scene.tick
      /\ has_ticked /\ last_tick - rules[i].last_obs > rules[i].cfg.max_gap => Lost(rules[i])

StatusInv ==
  IF pc = "failed"
  THEN ret.status = "INVALID_ARG" /\ \E k \in DOMAIN scene.rules : ~Usable(scene.rules[k])
  ELSE ret.status = "OK"

WalkInv ==
  /\ AccountInv
  /\ IInv
  /\ LoopInv
  /\ ClockInv
  /\ HeardInv
  /\ StatusInv

-----------------------------------------------------------------------------
(***************************************************************************)
(* Every call keeps the order of calls.                                    *)
(***************************************************************************)
\* What the parser guarantees of the rest of an accepted scene.
LEMMA SceneParts ==
  ASSUME WalkTypeOK
  PROVE  /\ scene.rules \in Seq(Config) /\ RuleCount \in Nat \ {0} /\ RuleCount <= MaxRules
         /\ DOMAIN scene.rules = 1 .. RuleCount
         /\ \A i \in 1 .. RuleCount :
              /\ CopyIdStatus(scene.rules[i].id) = "OK"
              /\ scene.tick <= scene.rules[i].max_gap
         /\ scene.restarts \in Seq(Int) /\ Len(scene.restarts) \in Nat
         /\ DOMAIN scene.samples = 1 .. Len(scene.samples)
         /\ \A j, k \in 1 .. Len(scene.samples) :
              j <= k => scene.samples[j].t <= scene.samples[k].t
         /\ \A k \in 1 .. Len(scene.samples) :
              \A i \in DOMAIN scene.samples[k].label :
                i \in 0 .. RuleCount - 1 /\ scene.samples[k].label[i] \in Value
<1>1. /\ scene.rules \in Seq(Config) /\ scene.restarts \in Seq(Int)
      /\ DOMAIN scene.samples = 1 .. Len(scene.samples)
      /\ \A k \in DOMAIN scene.samples : scene.samples[k].t \in Int
  BY ScenesAssumption DEF WalkTypeOK
<1>2. /\ RuleCount <= MaxRules /\ scene.rules # <<>>
      /\ \A i \in DOMAIN scene.rules : CopyIdStatus(scene.rules[i].id) = "OK"
      /\ \A i \in DOMAIN scene.rules : scene.tick <= scene.rules[i].max_gap
  BY DEF WalkTypeOK, Accepted, Replayable, RuleCount
<1>3. \A j, k \in DOMAIN scene.samples : j < k => scene.samples[j].t <= scene.samples[k].t
  BY DEF WalkTypeOK, Accepted, Replayable, Ascending
<1>4. \A k \in DOMAIN scene.samples :
        \A i \in DOMAIN scene.samples[k].label :
          i \in 0 .. RuleCount - 1 /\ scene.samples[k].label[i] \in Value
  BY DEF WalkTypeOK, Accepted, Replayable, RuleCount
<1>5. RuleCount \in Nat \ {0} /\ DOMAIN scene.rules = 1 .. RuleCount
  BY <1>1, <1>2 DEF RuleCount
<1>6. ASSUME NEW j \in 1 .. Len(scene.samples), NEW k \in 1 .. Len(scene.samples), j <= k
      PROVE  scene.samples[j].t <= scene.samples[k].t
  <2>1. CASE j = k
    BY <1>1, <2>1
  <2>2. CASE j # k
    <3>1. j < k
      BY <1>6, <2>2, SceneFacts
    <3> QED BY <1>1, <1>3, <3>1
  <2> QED BY <2>1, <2>2
<1> QED
  BY <1>1, <1>2, <1>4, <1>5, <1>6

\* The sample that is due.
LEMMA DueSample ==
  ASSUME WalkTypeOK, SampleDue
  PROVE  /\ next + 1 \in 1 .. Len(scene.samples) /\ next \in Nat
         /\ Sample = scene.samples[next + 1] /\ Sample.t \in Int /\ Sample.t <= now
<1>1. next \in 0 .. Len(scene.samples) /\ next # Len(scene.samples) /\ Len(scene.samples) \in Nat
  BY SceneFacts DEF WalkTypeOK, SampleDue, AllRead
<1>2. next + 1 \in 1 .. Len(scene.samples)
  BY <1>1
<1> QED
  BY <1>1, <1>2, SceneFacts DEF SampleDue, Sample

\* The observation made of it is one gw_observe can take.
LEMMA AnswerIsHeard ==
  ASSUME WalkTypeOK, SampleDue, rule \in DOMAIN Sample.label
  PROVE  /\ Answer \in Heard
         /\ Answer.frame = next + 1 /\ Answer.at = Sample.t /\ Answer.value = Sample.label[rule]
<1>1. next + 1 \in Nat /\ Sample.t \in Int /\ Sample.label[rule] \in Value
  BY DueSample, SceneParts
<1> QED
  BY <1>1 DEF Answer, Heard

\* Every call walk() makes keeps the watch well typed and its rules backed.
LEMMA CallsKeepIInv ==
  ASSUME WalkTypeOK, IInv, LoopInv, RNext
  PROVE  IInv'
<1>0. RuleCount \in Nat \ {0} /\ RuleCount <= MaxRules /\ MaxRules \in Nat /\ now \in Int
  BY SceneParts, MaxRulesAssumption DEF WalkTypeOK
<1>1. CASE Boot
  <2>1. rule_count + 1 \in 1 .. RuleCount
    BY <1>0, <1>1 DEF Boot, IInv, TypeOK
  <2>2. scene.rules[rule_count + 1] \in Config
    BY <2>1, SceneParts
  <2> QED BY <1>1, <2>2, AddRuleInv DEF Boot
<1>2. CASE Restart
  <2>1. camera_id \in Ids
    BY DEF IInv, TypeOK
  <2> QED BY <1>2, <2>1, StartInv DEF Restart
<1>3. CASE Deliver
  <2>1. rule \in 0 .. MaxRules
    BY <1>0 DEF LoopInv
  <2>2. Answer \in Heard
    BY <1>3, AnswerIsHeard DEF Deliver
  <2> QED BY <1>3, <2>1, <2>2, ObserveInv DEF Deliver
<1>4. CASE TickStep
  BY <1>0, <1>4, TickInv DEF TickStep
<1>5. CASE Account
  BY <1>5, RefuseInv DEF Account, GetState, Status
<1>6. CASE Restarted \/ Unlabelled \/ SampleDone \/ Finish
  BY <1>6 DEF Restarted, Unlabelled, SampleDone, Finish, vars, IInv, TypeOK, RuleInv, Live, Slot
<1> QED
  BY <1>1, <1>2, <1>3, <1>4, <1>5, <1>6 DEF RNext

-----------------------------------------------------------------------------
(***************************************************************************)
(* What one observation and one tick make of one rule.                     *)
(***************************************************************************)
\* An observation stamps the rule.  It arms only on the opposite of the target,
\* latches only an armed rule that is shown the target, and opens a run only at
\* its own instant.
LEMMA AcceptedStep ==
  ASSUME NEW r \in Runtime, Usable(r.cfg), RuntimeInv(r), NEW o \in Heard, ~Stale(r, o)
  PROVE  LET e == Accept(r, o)
         IN  /\ e.has_obs /\ e.last_obs = o.at /\ e.last_frame = o.frame /\ e.cfg = r.cfg
             /\ e.confirmed \in {r.confirmed, o.value}
             /\ e.armed => r.armed \/ o.value = OppositeOf(r.cfg.target)
             /\ e.pending => r.pending \/ (r.armed /\ o.value = r.cfg.target)
             /\ e.run_open =>
                  \/ r.run_open /\ e.run_start = r.run_start /\ (~e.fired => ~r.fired)
                  \/ o.value = r.cfg.target /\ e.run_start = o.at
<1> DEFINE g == Gather(r, o)
           e == Accept(r, o)
<1>1. g \in Runtime /\ Gathered(r, o, g) /\ o.value \in Value /\ o.at \in Int
  BY GatherFields DEF Heard
<1>2. RuntimeInv(e) /\ e.cfg = r.cfg /\ g.cfg = r.cfg
  BY <1>1, AcceptInv DEF Gathered
<1>3. e = IF Confirms(g, o.at) THEN SetConfirmed(g, o.value, o.at) ELSE g
  BY <1>1 DEF Accept, Promote, Gathered
<1>4. e = g \/ (g.confirmed # o.value /\ Promoted(g, o.value, o.at, e))
  <2>1. Promoted(g, o.value, o.at, SetConfirmed(g, o.value, o.at))
    BY <1>1, <1>2, SetConfirmedFields
  <2> HIDE DEF g, e
  <2> QED BY <1>3, <2>1 DEF Promoted
<1> HIDE DEF g, e
<1>5. /\ e.has_obs /\ e.last_obs = o.at /\ e.last_frame = o.frame
      /\ e.confirmed \in {r.confirmed, o.value}
  BY <1>1, <1>4 DEF Gathered, Promoted
<1>6. Sustained(r) \/ Appeared(r)
  BY DEF Usable, Sustained, Appeared
<1>7. e.armed => r.armed \/ o.value = OppositeOf(r.cfg.target)
  BY <1>1, <1>2, <1>4, <1>6
  DEF Gathered, Promoted, RuntimeInv, ArmedSinceAbsence, Sustained, Appeared
<1>8. e.pending => r.pending \/ (r.armed /\ o.value = r.cfg.target)
  BY <1>1, <1>2, <1>4, <1>6 DEF Gathered, Promoted, Sustained, Appeared
<1>9. e.run_open =>
        \/ r.run_open /\ e.run_start = r.run_start /\ (~e.fired => ~r.fired)
        \/ o.value = r.cfg.target /\ e.run_start = o.at
  <2> SUFFICES ASSUME e.run_open
               PROVE  \/ r.run_open /\ e.run_start = r.run_start /\ (~e.fired => ~r.fired)
                      \/ o.value = r.cfg.target /\ e.run_start = o.at
    OBVIOUS
  <2>1. Sustained(r)
    BY <1>2 DEF RuntimeInv, OpenRunIsBacked, Sustained
  <2>2. CASE e = g
    BY <1>1, <2>1, <2>2 DEF Gathered
  <2>3. CASE g.confirmed # o.value /\ Promoted(g, o.value, o.at, e)
    BY <1>2, <2>1, <2>3 DEF Promoted, Sustained
  <2> QED BY <1>4, <2>2, <2>3
<1> QED
  BY <1>2, <1>5, <1>7, <1>8, <1>9 DEF e

\* A tick leaves what was heard last, blinds a rule that heard too little, arms
\* nothing and opens no run; a run it leaves untold has not lasted.
LEMMA TickedStep ==
  ASSUME NEW r \in Runtime, RuntimeInv(r), Usable(r.cfg), NEW at \in Int
  PROVE  LET d == Drain(Age(r, at))
         IN  /\ d.has_obs = r.has_obs /\ d.last_obs = r.last_obs
             /\ d.last_frame = r.last_frame /\ d.cfg = r.cfg
             /\ d.confirmed \in {r.confirmed, "unknown"}
             /\ Expired(r, at) => Lost(d)
             /\ ~d.pending
             /\ d.armed => r.armed
             /\ d.run_open =>
                  /\ r.run_open /\ d.run_start = r.run_start
                  /\ ~d.fired => at - r.run_start < r.cfg.sustain
<1> DEFINE a == Age(r, at)
           d == Drain(a)
<1>1. /\ d \in Runtime /\ RuntimeInv(d) /\ d.cfg = r.cfg
      /\ d.has_obs = r.has_obs /\ d.last_obs = r.last_obs /\ d.last_frame = r.last_frame
  BY AgeInv, AgedFields
<1>2. /\ a \in Runtime /\ a.confirmed \in {r.confirmed, "unknown"}
      /\ Expired(r, at) => a.candidate_count = 0 /\ (Sustained(r) => ~a.run_open)
      /\ a.armed => r.armed
      /\ ~Expired(r, at) =>
           /\ a.run_open = r.run_open /\ a.run_start = r.run_start
           /\ ~a.fired => ~r.fired /\ ~Matured(r, at)
  <2>1. CASE Expired(r, at)
    BY <2>1, LoseSightFields DEF Age, Blinded
  <2>2. CASE ~Expired(r, at) /\ Matured(r, at)
    BY <2>2, LatchFields, RuntimeFields DEF Age
  <2>3. CASE ~Expired(r, at) /\ ~Matured(r, at)
    BY <2>3 DEF Age
  <2> QED BY <2>1, <2>2, <2>3
<1> HIDE DEF a
<1>3. /\ d.candidate_count = a.candidate_count /\ d.confirmed = a.confirmed
      /\ d.armed = a.armed /\ d.run_open = a.run_open
      /\ d.run_start = a.run_start /\ d.fired = a.fired /\ ~d.pending
  BY <1>2, DrainFields, RuntimeFields
<1> HIDE DEF d
<1>4. Expired(r, at) => Lost(d)
  <2> SUFFICES ASSUME Expired(r, at) PROVE Lost(d)
    OBVIOUS
  <2>1. d.candidate_count = 0
    BY <1>2, <1>3
  <2> QED BY <1>1, <2>1 DEF RuntimeInv, EvidenceBacksBelief, Lost
<1>5. ASSUME d.run_open
      PROVE  /\ r.run_open /\ d.run_start = r.run_start
             /\ ~d.fired => at - r.run_start < r.cfg.sustain
  <2>1. Sustained(r)
    BY <1>1, <1>5 DEF RuntimeInv, OpenRunIsBacked, Sustained
  <2>2. ~Expired(r, at)
    BY <1>2, <1>3, <1>5, <2>1
  <2>3. r.run_open /\ d.run_start = r.run_start /\ (~d.fired => ~r.fired /\ ~Matured(r, at))
    BY <1>2, <1>3, <1>5, <2>2
  <2>4. at - r.run_start \in Int /\ r.cfg.sustain \in Int
    BY DEF Runtime, Config
  <2> QED BY <2>1, <2>3, <2>4 DEF Matured
<1> QED
  BY <1>1, <1>2, <1>3, <1>4, <1>5 DEF d, a

\* A rule is due by an arrival latched before the tick, or by a run in sight of
\* evidence that has lasted; after the tick nothing more is due at that instant.
LEMMA DueStep ==
  ASSUME NEW r \in Runtime, RuntimeInv(r), Usable(r.cfg), NEW at \in Int
  PROVE  /\ Age(r, at).pending => r.pending \/ (~Expired(r, at) /\ Matured(r, at))
         /\ ~Age(Drain(Age(r, at)), at).pending
<1> DEFINE a == Age(r, at)
           d == Drain(a)
<1>1. a.pending => r.pending \/ (~Expired(r, at) /\ Matured(r, at))
  <2>1. CASE Expired(r, at)
    BY <2>1, LoseSightFields DEF Age, Blinded
  <2>2. CASE ~Expired(r, at)
    BY <2>2 DEF Age
  <2> QED BY <2>1, <2>2
<1>2. d \in Runtime /\ ~d.pending /\ RuntimeInv(d) /\ d.cfg = r.cfg
      /\ (d.run_open /\ ~d.fired => at - d.run_start < r.cfg.sustain)
  BY AgeInv, TickedStep
<1> HIDE DEF d
<1>3. ~Matured(d, at)
  <2>1. at - d.run_start \in Int /\ r.cfg.sustain \in Int
    BY <1>2 DEF Runtime, Config
  <2> QED BY <1>2, <2>1 DEF Matured
<1>4. ~Age(d, at).pending
  <2>1. CASE Expired(d, at)
    BY <1>2, <2>1, LoseSightFields DEF Age, Blinded
  <2>2. CASE ~Expired(d, at)
    BY <1>2, <1>3, <2>2 DEF Age
  <2> QED BY <2>1, <2>2
<1> QED
  BY <1>1, <1>4 DEF d

-----------------------------------------------------------------------------
(***************************************************************************)
(* WalkInv, action by action.                                              *)
(***************************************************************************)
\* The arithmetic of the loop.
LEMMA LoopFacts ==
  ASSUME WalkInv
  PROVE  /\ WalkTypeOK
         /\ now \in Int /\ next \in Nat /\ rule \in Nat /\ rule_count \in Nat
         /\ last_tick \in Int
         /\ RuleCount \in Nat /\ RuleCount <= MaxRules /\ MaxRules \in Nat
         /\ Live = 0 .. rule_count - 1
         /\ \A i \in Live : /\ i \in Slot /\ rules[i] \in Runtime /\ Usable(rules[i].cfg)
                            /\ RuntimeInv(rules[i]) /\ rules[i].last_obs \in Int
                            /\ rules[i].cfg.max_gap \in Int /\ rules[i].cfg.max_gap > 0
<1>1. WalkTypeOK /\ IInv /\ LoopInv
  BY DEF WalkInv, AccountInv
<1>2. /\ now \in Int /\ next \in Nat
  BY <1>1, SceneFacts DEF WalkTypeOK
<1>3. RuleCount \in Nat /\ RuleCount <= MaxRules /\ MaxRules \in Nat
  BY <1>1, SceneParts, MaxRulesAssumption
<1>4. rule \in Nat /\ rule_count \in Nat /\ rule_count <= MaxRules /\ last_tick \in Int
  BY <1>1, <1>3 DEF LoopInv, IInv, TypeOK
<1>5. Live = 0 .. rule_count - 1
  BY <1>3, <1>4 DEF Live, Slot
<1>6. ASSUME NEW i \in Live
      PROVE  /\ i \in Slot /\ rules[i] \in Runtime /\ Usable(rules[i].cfg)
             /\ RuntimeInv(rules[i]) /\ rules[i].last_obs \in Int
             /\ rules[i].cfg.max_gap \in Int /\ rules[i].cfg.max_gap > 0
  <2>1. /\ i \in Slot /\ rules[i] \in Runtime /\ Usable(rules[i].cfg) /\ RuntimeInv(rules[i])
    BY <1>1 DEF IInv, TypeOK, RuleInv, Live
  <2>2. rules[i].last_obs \in Int /\ rules[i].cfg \in Config
    BY <2>1 DEF Runtime
  <2>3. rules[i].cfg.max_gap \in Int
    BY <2>2 DEF Config
  <2> QED BY <2>1, <2>2, <2>3 DEF Usable
<1> QED
  BY <1>1, <1>2, <1>3, <1>4, <1>5, <1>6

\* A step of the loop that leaves the watch alone leaves what was heard.
LEMMA HeardStands ==
  ASSUME WalkInv,
         UNCHANGED <<rules, rule_count, has_ticked, last_tick, scene>>,
         now' \in Int, now <= now', has_ticked \/ now' = now,
         \A i \in Live : TakenUp(i) \in Int /\ TakenUp(i)' \in Int /\ TakenUp(i) <= TakenUp(i)'
  PROVE  HeardInv'
<1> SUFFICES ASSUME NEW i \in Live', rules'[i].has_obs
             PROVE  (/\ \E k \in 1 .. TakenUp(i) : HeardSample(rules[i], i, k)
                     /\ ~has_ticked => rules[i].last_obs > now - scene.tick
                     /\ has_ticked /\ last_tick - rules[i].last_obs > rules[i].cfg.max_gap
                          => Lost(rules[i]))'
  BY DEF HeardInv
<1>1. i \in Live /\ rules[i].has_obs
  BY DEF Live, Slot
<1>2. PICK k \in 1 .. TakenUp(i) : HeardSample(rules[i], i, k)
  BY <1>1 DEF WalkInv, HeardInv
<1>3. k \in 1 .. TakenUp(i)'
  BY <1>1, <1>2
<1>4. scene.samples[k].t <= now'
  <2>1. rules[i].last_obs \in Int /\ now \in Int
    BY <1>1, LoopFacts
  <2>2. scene.samples[k].t \in Int /\ scene.samples[k].t <= now
    BY <1>2, <2>1 DEF HeardSample
  <2> QED BY <2>1, <2>2
<1>5. HeardSample(rules[i], i, k)'
  BY <1>2, <1>4 DEF HeardSample
<1>6. (~has_ticked => rules[i].last_obs > now - scene.tick)'
  BY <1>1 DEF WalkInv, HeardInv
<1>7. (has_ticked /\ last_tick - rules[i].last_obs > rules[i].cfg.max_gap => Lost(rules[i]))'
  BY <1>1 DEF WalkInv, HeardInv, Lost
<1> QED
  BY <1>3, <1>5, <1>6, <1>7

\* Where the walk through the scene begins.
LEMMA InitWalkInv == RInit => WalkInv
<1> SUFFICES ASSUME RInit PROVE WalkInv
  OBVIOUS
<1>1. AccountInv /\ IInv
  BY InitAccountInv, InitInv DEF RInit
<1>2. Live = {}
  BY DEF RInit, Init, Live, Slot
<1>3. RuleCount \in Nat /\ Len(scene.restarts) \in Nat
  BY <1>1, SceneParts DEF AccountInv
<1>4. LoopInv
  BY <1>2, <1>3 DEF RInit, Init, LoopInv
<1>5. ClockInv
  <2>1. \A k \in 1 .. Len(scene.samples) : scene.samples[k].t > now - scene.tick
    BY <1>1, SceneFacts DEF AccountInv, RInit
  <2> QED BY <2>1 DEF RInit, Init, ClockInv
<1>6. HeardInv /\ StatusInv
  BY <1>2 DEF HeardInv, StatusInv, RInit, Init
<1> QED
  BY <1>1, <1>4, <1>5, <1>6 DEF WalkInv

\* gw_add_rule fails only on an unusable rule; otherwise it appends.
LEMMA BootCall ==
  ASSUME WalkInv, Boot
  PROVE  LET cfg == scene.rules[rule_count + 1]
         IN  \/ /\ AddRuleUnusable(cfg) /\ pc' = "failed" /\ ret'.status = "INVALID_ARG"
                /\ ~Usable(cfg) /\ rule_count + 1 \in DOMAIN scene.rules
             \/ /\ AddRuleAppend(cfg) /\ pc' = "boot" /\ ret'.status = "OK"
<1> DEFINE cfg == scene.rules[rule_count + 1]
<1>1. rule_count + 1 \in 1 .. RuleCount /\ rule_count < MaxRules
  BY LoopFacts DEF Boot
<1>2. CopyIdStatus(cfg.id) = "OK" /\ rule_count + 1 \in DOMAIN scene.rules
  BY <1>1, LoopFacts, SceneParts
<1>3. ~AddRuleOverLimit(cfg)
  BY <1>1, LoopFacts DEF AddRuleOverLimit
<1>4. ~AddRuleBadId(cfg)
  BY <1>2 DEF AddRuleBadId
<1>5. AddRuleUnusable(cfg) \/ AddRuleAppend(cfg)
  BY <1>3, <1>4 DEF Boot, AddRule
<1>6. CASE AddRuleUnusable(cfg)
  BY <1>2, <1>6 DEF AddRuleUnusable, Refuse, Return, Boot, Goto
<1>7. CASE AddRuleAppend(cfg)
  BY <1>7 DEF AddRuleAppend, Return, Boot, Goto
<1> QED
  BY <1>5, <1>6, <1>7

\* A start of the watch keeps the place in the scene.
LEMMA BootKeepsWalk ==
  ASSUME WalkInv, Boot
  PROVE  WalkInv'
<1> DEFINE cfg == scene.rules[rule_count + 1]
<1>1. AccountInv' /\ IInv'
  BY StepAccountInv, CallsKeepIInv, LoopFacts DEF WalkInv, RNext
<1>2. pc = "boot" /\ rule_count < RuleCount /\ UNCHANGED walk
  BY DEF Boot
<1>3. \/ AddRuleUnusable(cfg) /\ pc' = "failed" /\ ret'.status = "INVALID_ARG"
         /\ ~Usable(cfg) /\ rule_count + 1 \in DOMAIN scene.rules
      \/ AddRuleAppend(cfg) /\ pc' = "boot" /\ ret'.status = "OK"
  BY BootCall
<1>4. /\ rule_count' \in {rule_count, rule_count + 1}
      /\ UNCHANGED <<camera_id, has_ticked, last_tick>>
      /\ \A i \in Live : rules'[i] = rules[i]
      /\ \A i \in Live' : \/ i \in Live
                          \/ ~rules'[i].has_obs /\ rules'[i].cfg = scene.rules[i + 1]
  <2>1. CASE AddRuleUnusable(cfg)
    BY <2>1 DEF AddRuleUnusable, Refuse, watch, Live
  <2>2. CASE AddRuleAppend(cfg)
    <3>1. rule_count \in Slot /\ rules \in [Slot -> Runtime] /\ rule_count \in Nat
      BY LoopFacts, <2>2, MaxRulesAssumption DEF AddRuleAppend, WalkInv, IInv, TypeOK, Slot
    <3>2. \A i \in Slot : rules'[i] = IF i = rule_count THEN NewRuntime(cfg) ELSE rules[i]
      BY <2>2, <3>1 DEF AddRuleAppend, WriteSlot
    <3>3. \A i \in Live : i \in Slot /\ i # rule_count
      BY <3>1 DEF Live
    <3>4. \A i \in Live' : i \in Slot /\ (i \in Live \/ i = rule_count)
      BY <2>2, <3>1 DEF AddRuleAppend, Live, Slot
    <3>5. ~NewRuntime(cfg).has_obs /\ NewRuntime(cfg).cfg = cfg
      BY DEF NewRuntime
    <3>6. \A i \in Live' : \/ i \in Live
                           \/ ~rules'[i].has_obs /\ rules'[i].cfg = scene.rules[i + 1]
      BY <3>2, <3>4, <3>5
    <3> QED BY <2>2, <3>2, <3>3, <3>6 DEF AddRuleAppend
  <2> QED BY <1>3, <2>1, <2>2
<1> HIDE DEF cfg
<1>5. LoopInv'
  <2>1. rule_count' <= RuleCount
    BY <1>2, <1>4, LoopFacts
  <2>2. \A i \in Live' : rules'[i].cfg = scene.rules[i + 1]
    BY <1>4 DEF WalkInv, LoopInv
  <2>3. SampleDue' = SampleDue /\ RuleCount' = RuleCount
    BY <1>2 DEF walk, SampleDue, AllRead, Sample, RuleCount
  <2>4. pc' \in {"boot", "failed"}
    BY <1>3
  <2> QED BY <1>2, <1>4, <2>1, <2>2, <2>3, <2>4 DEF WalkInv, LoopInv, walk
<1>6. ClockInv'
  BY <1>2, <1>3, <1>4 DEF WalkInv, ClockInv, walk
<1>7. HeardInv'
  <2> SUFFICES ASSUME NEW i \in Live', rules'[i].has_obs
               PROVE  (/\ \E k \in 1 .. TakenUp(i) : HeardSample(rules[i], i, k)
                       /\ ~has_ticked => rules[i].last_obs > now - scene.tick
                       /\ has_ticked /\ last_tick - rules[i].last_obs > rules[i].cfg.max_gap
                            => Lost(rules[i]))'
    BY DEF HeardInv
  <2>1. i \in Live /\ rules'[i] = rules[i]
    BY <1>4
  <2> QED BY <1>2, <1>4, <2>1 DEF WalkInv, HeardInv, walk, HeardSample, TakenUp, Lost
<1>8. StatusInv'
  BY <1>2, <1>3 DEF StatusInv, walk, cfg
<1> QED
  BY <1>1, <1>5, <1>6, <1>7, <1>8 DEF WalkInv

\* A restart starts an empty watch, under the same camera id.
LEMMA RestartKeepsWalk ==
  ASSUME WalkInv, Restart
  PROVE  WalkInv'
<1>1. AccountInv' /\ IInv'
  BY StepAccountInv, CallsKeepIInv, LoopFacts DEF WalkInv, RNext
<1>2. /\ pc = "boot" /\ next_restart' = next_restart + 1
      /\ next_restart < Len(scene.restarts)
      /\ UNCHANGED <<scene, now, next, rule, detections, found, observed, unknown>>
  BY DEF Restart, RestartDue
<1>3. /\ camera_id' = camera_id /\ rule_count' = 0 /\ has_ticked' = FALSE
      /\ ret'.status = "OK" /\ pc' = "boot" /\ Live' = {}
  <2>1. CopyIdStatus(camera_id) = "OK"
    BY DEF WalkInv, LoopInv
  <2>2. ret'.status = "OK"
    BY <2>1 DEF Restart, Start, Return
  <2> QED BY <2>1, <2>2 DEF Restart, Start, Goto, Live, Slot
<1>4. LoopInv'
  <2>1. next_restart' \in 0 .. Len(scene.restarts)
    BY <1>2, LoopFacts, SceneParts DEF WalkInv, LoopInv
  <2>2. SampleDue' = SampleDue /\ RuleCount' = RuleCount /\ 0 <= RuleCount
    BY <1>2, LoopFacts DEF SampleDue, AllRead, Sample, RuleCount
  <2> QED BY <1>2, <1>3, <2>1, <2>2 DEF WalkInv, LoopInv
<1>5. ClockInv'
  BY <1>2, <1>3 DEF WalkInv, ClockInv
<1>6. HeardInv' /\ StatusInv'
  BY <1>3 DEF HeardInv, StatusInv
<1> QED
  BY <1>1, <1>4, <1>5, <1>6 DEF WalkInv

\* With every rule added and no restart left to do, the samples are next.
LEMMA RestartedKeepsWalk ==
  ASSUME WalkInv, Restarted
  PROVE  WalkInv'
<1>1. AccountInv' /\ IInv'
  BY StepAccountInv, CallsKeepIInv, LoopFacts DEF WalkInv, RNext
<1>2. pc = "boot" /\ rule_count = RuleCount /\ pc' = "samples" /\ UNCHANGED <<vars, walk>>
  BY DEF Restarted
<1>3. LoopInv'
  BY <1>2 DEF WalkInv, LoopInv, vars, walk, SampleDue, AllRead, Sample, RuleCount, Live, Slot
<1>4. ClockInv' /\ StatusInv'
  BY <1>2 DEF WalkInv, ClockInv, StatusInv, vars, walk
<1>5. HeardInv'
  BY <1>2 DEF WalkInv, HeardInv, vars, walk, HeardSample, TakenUp, Lost, Live, Slot
<1> QED
  BY <1>1, <1>3, <1>4, <1>5 DEF WalkInv

\* The sample that is due is news to the rule it is shown to: a later frame, and
\* not an earlier instant, than whatever the rule heard last.
LEMMA DeliveryIsNews ==
  ASSUME WalkInv, pc = "samples", SampleDue, rule \in Live
  PROVE  ~Duplicate(rules[rule], Answer) /\ ~Stale(rules[rule], Answer)
<1>1. WalkTypeOK /\ next \in Nat /\ TakenUp(rule) = next
  BY LoopFacts DEF TakenUp
<1>2. Answer.frame = next + 1 /\ Answer.at = scene.samples[next + 1].t
  BY <1>1, DueSample DEF Answer
<1>3. ASSUME rules[rule].has_obs
      PROVE  Answer.frame # rules[rule].last_frame /\ ~(Answer.at < rules[rule].last_obs)
  <2>1. PICK k \in 1 .. next : HeardSample(rules[rule], rule, k)
    BY <1>1, <1>3 DEF WalkInv, HeardInv
  <2>2. k \in 1 .. Len(scene.samples) /\ next + 1 \in 1 .. Len(scene.samples) /\ k <= next + 1
    BY <1>1, <2>1, DueSample
  <2>3. scene.samples[k].t <= scene.samples[next + 1].t
    BY <1>1, <2>2, SceneParts
  <2>4. scene.samples[k].t \in Int /\ scene.samples[next + 1].t \in Int
    BY <1>1, <2>2, SceneFacts
  <2> QED BY <1>1, <1>2, <2>1, <2>3, <2>4 DEF HeardSample
<1> QED
  BY <1>3 DEF Duplicate, Stale

\* What the delivery of a sample does to the watch.
LEMMA Delivered ==
  ASSUME WalkInv, Deliver
  PROVE  /\ pc = "samples" /\ pc' = "samples" /\ SampleDue /\ ret'.status = "OK"
         /\ rule \in Live /\ rule < RuleCount /\ Live' = Live
         /\ Answer \in Heard /\ ~Stale(rules[rule], Answer)
         /\ next + 1 \in 1 .. Len(scene.samples) /\ scene.samples[next + 1].t \in Int
         /\ scene.samples[next + 1].t <= now
         /\ rule \in DOMAIN scene.samples[next + 1].label
         /\ Answer.frame = next + 1 /\ Answer.at = scene.samples[next + 1].t
         /\ Answer.value = scene.samples[next + 1].label[rule]
         /\ \A i \in Live : rules'[i] = IF i = rule THEN Accept(rules[i], Answer) ELSE rules[i]
         /\ rule' = rule + 1
         /\ UNCHANGED <<camera_id, rule_count, last_tick, has_ticked, scene, now, next,
                        next_restart, detections, found, observed, unknown>>
<1>1. /\ pc = "samples" /\ SampleDue /\ rule < RuleCount /\ rule \in DOMAIN Sample.label
      /\ Observe(rule, Answer)
      /\ rule' = rule + 1
      /\ UNCHANGED <<scene, now, next, next_restart, detections, found, observed, unknown>>
  BY DEF Deliver
<1>2. rule \in Live /\ WalkTypeOK /\ rule_count = RuleCount
  BY <1>1, LoopFacts DEF WalkInv, LoopInv
<1>3. Answer \in Heard /\ Answer.value \in Value
  BY <1>1, <1>2, AnswerIsHeard DEF Heard
<1>4. ~Duplicate(rules[rule], Answer) /\ ~Stale(rules[rule], Answer)
  BY <1>1, <1>2, DeliveryIsNews
<1>5. ObserveAccept(rule, Answer)
  BY <1>1, <1>2, <1>3, <1>4
  DEF Observe, ObserveInvalid, ObserveDuplicate, ObserveStale, Answerable
<1>6. /\ ret'.status = "OK"
      /\ UNCHANGED <<camera_id, rule_count, last_tick, has_ticked>>
      /\ rules' = [rules EXCEPT ![rule] = Accept(@, Answer)]
  BY <1>5 DEF ObserveAccept, Return
<1>7. pc' = "samples"
  BY <1>6 DEF Deliver, Goto
<1>8. \A i \in Live : rules'[i] = IF i = rule THEN Accept(rules[i], Answer) ELSE rules[i]
  BY <1>2, <1>6 DEF WalkInv, IInv, TypeOK, Live
<1>9. Live' = Live
  BY <1>6 DEF Live
<1>10. /\ next + 1 \in 1 .. Len(scene.samples) /\ scene.samples[next + 1].t \in Int
       /\ scene.samples[next + 1].t <= now /\ Sample = scene.samples[next + 1]
  BY <1>1, <1>2, DueSample
<1>11. /\ Answer.frame = next + 1 /\ Answer.at = scene.samples[next + 1].t
       /\ Answer.value = scene.samples[next + 1].label[rule]
  BY <1>10 DEF Answer
<1> HIDE DEF Answer
<1> QED
  BY <1>1, <1>2, <1>3, <1>4, <1>6, <1>7, <1>8, <1>9, <1>10, <1>11

\* So does an answer to a sample,
LEMMA DeliverKeepsWalk ==
  ASSUME WalkInv, Deliver
  PROVE  WalkInv'
<1>1. AccountInv' /\ IInv'
  BY StepAccountInv, CallsKeepIInv, LoopFacts DEF WalkInv, RNext
<1>2. /\ pc = "samples" /\ pc' = "samples" /\ SampleDue /\ ret'.status = "OK"
      /\ rule \in Live /\ rule < RuleCount /\ Live' = Live
      /\ Answer \in Heard /\ ~Stale(rules[rule], Answer)
      /\ next + 1 \in 1 .. Len(scene.samples) /\ scene.samples[next + 1].t \in Int
      /\ scene.samples[next + 1].t <= now
      /\ rule \in DOMAIN scene.samples[next + 1].label
      /\ Answer.frame = next + 1 /\ Answer.at = scene.samples[next + 1].t
      /\ \A i \in Live : rules'[i] = IF i = rule THEN Accept(rules[i], Answer) ELSE rules[i]
      /\ rule' = rule + 1
      /\ UNCHANGED <<camera_id, rule_count, last_tick, has_ticked, scene, now, next,
                     next_restart>>
  BY Delivered
<1> HIDE DEF Answer
<1>3. /\ now \in Int /\ next \in Nat /\ rule \in Nat /\ RuleCount \in Nat /\ WalkTypeOK
      /\ rules[rule] \in Runtime /\ Usable(rules[rule].cfg) /\ RuntimeInv(rules[rule])
  BY <1>2, LoopFacts
<1>4. /\ rules'[rule].has_obs /\ rules'[rule].last_obs = scene.samples[next + 1].t
      /\ rules'[rule].last_frame = next + 1 /\ rules'[rule].cfg = rules[rule].cfg
  <2>1. rules'[rule] = Accept(rules[rule], Answer)
    BY <1>2
  <2> QED BY <1>2, <1>3, <2>1, AcceptedStep
<1>5. LoopInv'
  <2>1. SampleDue' = SampleDue /\ RuleCount' = RuleCount
    BY <1>2 DEF SampleDue, AllRead, Sample, RuleCount
  <2>2. rule' \in 0 .. RuleCount
    BY <1>2, <1>3
  <2>3. \A i \in Live : rules'[i].cfg = scene.rules[i + 1]
    BY <1>2, <1>4 DEF WalkInv, LoopInv
  <2> QED BY <1>2, <2>1, <2>2, <2>3 DEF WalkInv, LoopInv
<1>6. ClockInv' /\ StatusInv'
  BY <1>2 DEF WalkInv, ClockInv, StatusInv
<1>7. HeardInv'
  <2> SUFFICES ASSUME NEW i \in Live, rules'[i].has_obs
               PROVE  (/\ \E k \in 1 .. TakenUp(i) : HeardSample(rules[i], i, k)
                       /\ ~has_ticked => rules[i].last_obs > now - scene.tick
                       /\ has_ticked /\ last_tick - rules[i].last_obs > rules[i].cfg.max_gap
                            => Lost(rules[i]))'
    BY <1>2 DEF HeardInv
  <2>1. CASE i = rule
    <3>1. TakenUp(i)' = next + 1 /\ next + 1 \in 1 .. next + 1
      BY <1>2, <1>3, <2>1 DEF TakenUp
    <3>2. HeardSample(rules[i], i, next + 1)'
      BY <1>2, <1>4, <2>1 DEF HeardSample
    <3>3. rules'[i].last_obs > now - scene.tick /\ scene.tick \in Int
      <4>1. next + 1 \in next + 1 .. Len(scene.samples) /\ scene.tick \in Int
        BY <1>2, <1>3, SceneFacts
      <4> QED BY <1>4, <2>1, <4>1 DEF WalkInv, ClockInv
    <3>4. ASSUME has_ticked PROVE ~(last_tick - rules'[i].last_obs > rules'[i].cfg.max_gap)
      <4>1. last_tick = now - scene.tick
        BY <1>2, <3>4 DEF WalkInv, ClockInv
      <4>2. rules'[i].cfg.max_gap \in Int /\ rules'[i].cfg.max_gap > 0
        BY <1>4, <2>1, LoopFacts
      <4>3. rules'[i].last_obs \in Int
        BY <1>2, <1>4, <2>1
      <4> QED BY <1>3, <3>3, <4>1, <4>2, <4>3
    <3> QED BY <1>2, <3>1, <3>2, <3>3, <3>4
  <2>2. CASE i # rule
    <3>1. rules'[i] = rules[i] /\ i \in Nat
      BY <1>2, <2>2, LoopFacts
    <3>2. TakenUp(i)' = TakenUp(i)
      BY <1>2, <1>3, <2>2, <3>1 DEF TakenUp
    <3> QED BY <1>2, <3>1, <3>2 DEF WalkInv, HeardInv, HeardSample, Lost
  <2> QED BY <2>1, <2>2
<1> QED
  BY <1>1, <1>5, <1>6, <1>7 DEF WalkInv

\* a sample without a label,
LEMMA UnlabelledKeepsWalk ==
  ASSUME WalkInv, Unlabelled
  PROVE  WalkInv'
<1>1. AccountInv' /\ IInv'
  BY StepAccountInv, CallsKeepIInv, LoopFacts DEF WalkInv, RNext
<1>2. /\ pc = "samples" /\ SampleDue /\ rule < RuleCount /\ rule' = rule + 1
      /\ UNCHANGED <<vars, scene, pc, now, next, next_restart>>
  BY DEF Unlabelled
<1>3. now \in Int /\ next \in Nat /\ rule \in Nat /\ RuleCount \in Nat
      /\ \A i \in Live : i \in Nat
  BY LoopFacts
<1>4. LoopInv'
  <2>1. SampleDue' = SampleDue /\ RuleCount' = RuleCount /\ Live' = Live
    BY <1>2 DEF SampleDue, AllRead, Sample, RuleCount, Live, vars
  <2>2. rule' \in 0 .. RuleCount
    BY <1>2, <1>3
  <2> QED BY <1>2, <2>1, <2>2 DEF WalkInv, LoopInv, vars
<1>5. ClockInv' /\ StatusInv'
  BY <1>2 DEF WalkInv, ClockInv, StatusInv, vars
<1>6. HeardInv'
  <2>1. \A i \in Live : TakenUp(i) \in Int /\ TakenUp(i)' \in Int /\ TakenUp(i) <= TakenUp(i)'
    BY <1>2, <1>3 DEF TakenUp
  <2>2. now' = now /\ now' \in Int /\ now <= now'
    BY <1>2, <1>3
  <2>3. UNCHANGED <<rules, rule_count, has_ticked, last_tick, scene>>
    BY <1>2 DEF vars
  <2> QED BY <2>1, <2>2, <2>3, HeardStands
<1> QED
  BY <1>1, <1>4, <1>5, <1>6 DEF WalkInv

\* the end of a sample,
LEMMA SampleDoneKeepsWalk ==
  ASSUME WalkInv, SampleDone
  PROVE  WalkInv'
<1>1. AccountInv' /\ IInv'
  BY StepAccountInv, CallsKeepIInv, LoopFacts DEF WalkInv, RNext
<1>2. /\ pc = "samples" /\ rule = RuleCount /\ rule' = 0 /\ next' = next + 1
      /\ UNCHANGED <<vars, scene, pc, now, next_restart>>
  BY DEF SampleDone
<1>3. /\ now \in Int /\ next \in Nat /\ rule \in Nat /\ RuleCount \in Nat
      /\ \A i \in Live : i \in Nat /\ i < RuleCount
  BY LoopFacts DEF WalkInv, LoopInv
<1>4. LoopInv'
  BY <1>2, <1>3 DEF WalkInv, LoopInv, vars, Live, RuleCount
<1>5. ClockInv' /\ StatusInv'
  <2>1. \A k \in next' + 1 .. Len(scene.samples) : k \in next + 1 .. Len(scene.samples)
    BY <1>2, <1>3
  <2> QED BY <1>2, <2>1 DEF WalkInv, ClockInv, StatusInv, vars
<1>6. HeardInv'
  <2>1. \A i \in Live : TakenUp(i) \in Int /\ TakenUp(i)' \in Int /\ TakenUp(i) <= TakenUp(i)'
    BY <1>2, <1>3 DEF TakenUp
  <2>2. now' = now /\ now' \in Int /\ now <= now'
    BY <1>2, <1>3
  <2>3. UNCHANGED <<rules, rule_count, has_ticked, last_tick, scene>>
    BY <1>2 DEF vars
  <2> QED BY <2>1, <2>2, <2>3, HeardStands
<1> QED
  BY <1>1, <1>4, <1>5, <1>6 DEF WalkInv

\* The tick is never refused, and has room for every rule.
LEMMA Ticked ==
  ASSUME WalkInv, TickStep
  PROVE  /\ pc = "samples" /\ pc' = "account" /\ ~SampleDue /\ rule = 0
         /\ TickForward(now, MaxRules)
         /\ Live' = Live
         /\ \A i \in Live : rules'[i] = Drain(Age(rules[i], now))
         /\ last_tick' = now /\ has_ticked' /\ ret'.status = "OK"
         /\ \A i \in Due(now) : i \in ret'.fired
         /\ ret'.fired \subseteq Due(now)
         /\ UNCHANGED <<camera_id, rule_count, scene, now, next, rule, next_restart>>
<1>1. /\ pc = "samples" /\ ~SampleDue /\ Tick(now, MaxRules)
      /\ UNCHANGED <<scene, now, next, rule, next_restart>>
  BY DEF TickStep
<1>2. /\ now \in Int /\ scene.tick \in Int /\ scene.tick > 0 /\ MaxRules \in Nat
      /\ \A i \in Live : i \in Slot
  BY LoopFacts, SceneFacts
<1>3. ~(has_ticked /\ now < last_tick)
  <2>1. has_ticked => last_tick = now - scene.tick
    BY <1>1 DEF WalkInv, ClockInv
  <2> QED BY <1>2, <2>1
<1>4. TickForward(now, MaxRules)
  BY <1>1, <1>3 DEF Tick, TickBackwards
<1>5. Due(now) \in SUBSET Slot
  BY <1>2 DEF Due
<1>6. ~(Cardinality(Due(now)) > MaxRules)
  <2>1. IsFiniteSet(Slot) /\ Cardinality(Slot) = MaxRules
    BY <1>2, FS_Interval, MaxRulesAssumption DEF Slot
  <2>2. Cardinality(Due(now)) <= Cardinality(Slot) /\ Cardinality(Due(now)) \in Nat
    BY <1>5, <2>1, FS_Subset, SlotFinite
  <2> QED BY <1>2, <2>1, <2>2
<1>7. ret'.status = "OK" /\ ret'.fired = Written(Due(now), MaxRules)
  BY <1>4, <1>6 DEF TickForward
<1>8. \A i \in Due(now) : i \in ret'.fired
  BY <1>2, <1>5, <1>6, <1>7, UnwrittenIsLimit
<1>9. ret'.fired \subseteq Due(now)
  BY <1>7 DEF Written
<1>10. pc' = "account"
  BY <1>7 DEF TickStep, Goto
<1>11. /\ last_tick' = now /\ has_ticked' /\ UNCHANGED <<camera_id, rule_count>>
       /\ Live' = Live /\ \A i \in Live : rules'[i] = Drain(Age(rules[i], now))
  BY <1>2, <1>4 DEF TickForward, Live
<1>12. rule = 0
  BY <1>1 DEF WalkInv, LoopInv
<1> QED
  BY <1>1, <1>4, <1>7, <1>8, <1>9, <1>10, <1>11, <1>12

\* a tick,
LEMMA TickKeepsWalk ==
  ASSUME WalkInv, TickStep
  PROVE  WalkInv'
<1>1. AccountInv' /\ IInv'
  BY StepAccountInv, CallsKeepIInv, LoopFacts DEF WalkInv, RNext
<1>2. /\ pc = "samples" /\ pc' = "account" /\ rule = 0
      /\ Live' = Live
      /\ \A i \in Live : rules'[i] = Drain(Age(rules[i], now))
      /\ last_tick' = now /\ has_ticked' /\ ret'.status = "OK"
      /\ UNCHANGED <<camera_id, rule_count, scene, now, next, rule, next_restart>>
  BY Ticked
<1>3. now \in Int
  BY LoopFacts
<1>4. ASSUME NEW i \in Live
      PROVE  /\ rules'[i].has_obs = rules[i].has_obs
             /\ rules'[i].last_obs = rules[i].last_obs /\ rules'[i].last_frame = rules[i].last_frame
             /\ rules'[i].cfg = rules[i].cfg
             /\ Expired(rules[i], now) => Lost(rules'[i])
  BY <1>2, <1>3, LoopFacts, TickedStep
<1>5. LoopInv'
  <2>1. SampleDue' = SampleDue /\ RuleCount' = RuleCount
    BY <1>2 DEF SampleDue, AllRead, Sample, RuleCount
  <2>2. \A i \in Live : rules'[i].cfg = scene.rules[i + 1]
    BY <1>4 DEF WalkInv, LoopInv
  <2> QED BY <1>2, <2>1, <2>2 DEF WalkInv, LoopInv
<1>6. ClockInv' /\ StatusInv'
  BY <1>2 DEF WalkInv, ClockInv, StatusInv
<1>7. HeardInv'
  <2> SUFFICES ASSUME NEW i \in Live, rules'[i].has_obs
               PROVE  (/\ \E k \in 1 .. TakenUp(i) : HeardSample(rules[i], i, k)
                       /\ ~has_ticked => rules[i].last_obs > now - scene.tick
                       /\ has_ticked /\ last_tick - rules[i].last_obs > rules[i].cfg.max_gap
                            => Lost(rules[i]))'
    BY <1>2 DEF HeardInv
  <2>1. \E k \in 1 .. TakenUp(i) : HeardSample(rules[i], i, k)
    BY <1>4 DEF WalkInv, HeardInv
  <2>2. (\E k \in 1 .. TakenUp(i) : HeardSample(rules[i], i, k))'
    BY <1>2, <1>4, <2>1 DEF HeardSample, TakenUp
  <2>3. last_tick' - rules'[i].last_obs > rules'[i].cfg.max_gap => Lost(rules'[i])
    BY <1>2, <1>4 DEF Expired
  <2>4. (has_ticked /\ last_tick - rules[i].last_obs > rules[i].cfg.max_gap => Lost(rules[i]))'
    BY <2>3 DEF Lost
  <2> QED BY <1>2, <2>2, <2>4
<1> QED
  BY <1>1, <1>5, <1>6, <1>7 DEF WalkInv

\* The clock goes on by one tick, past which every sample still to come lies.
LEMMA AccountKeepsWalk ==
  ASSUME WalkInv, Account
  PROVE  WalkInv'
<1>1. AccountInv' /\ IInv'
  BY StepAccountInv, CallsKeepIInv, LoopFacts DEF WalkInv, RNext
<1>2. /\ pc = "account" /\ pc' = "boot" /\ now' = now + scene.tick /\ ~SampleDue
      /\ UNCHANGED <<scene, next, rule, next_restart>>
  BY DEF Account, WalkInv, AccountInv
<1>3. /\ now \in Int /\ scene.tick \in Int /\ scene.tick > 0 /\ next \in Nat /\ WalkTypeOK
      /\ rule = 0 /\ AvailRule < RuleCount /\ rule_count = RuleCount
  BY <1>2, LoopFacts, SceneFacts DEF WalkInv, LoopInv
<1>4. UNCHANGED watch /\ ret'.status = "OK"
  BY <1>3 DEF Account, GetState, Refuse, Return
<1>5. LoopInv'
  <2>1. Live' = Live /\ RuleCount' = RuleCount
    BY <1>2, <1>4 DEF Live, watch, RuleCount
  <2> QED BY <1>2, <1>3, <1>4, <2>1 DEF WalkInv, LoopInv, watch
<1>6. ClockInv'
  <2>1. ASSUME NEW k \in next + 1 .. Len(scene.samples)
        PROVE  scene.samples[k].t > now
    <3>1. ~AllRead /\ k \in 1 .. Len(scene.samples) /\ next + 1 \in 1 .. Len(scene.samples)
          /\ next + 1 <= k
      BY <1>3, <2>1, SceneFacts DEF AllRead
    <3>2. scene.samples[next + 1].t <= scene.samples[k].t
      BY <1>3, <3>1, SceneParts
    <3>3. ~(scene.samples[next + 1].t <= now)
      BY <1>2, <3>1 DEF SampleDue, Sample
    <3>4. scene.samples[next + 1].t \in Int /\ scene.samples[k].t \in Int
      BY <1>3, <3>1, SceneFacts
    <3> QED BY <1>3, <3>2, <3>3, <3>4
  <2>2. now' - scene'.tick = now
    BY <1>2, <1>3
  <2>3. has_ticked => last_tick = now
    BY <1>2 DEF WalkInv, ClockInv
  <2> QED BY <1>2, <1>4, <2>1, <2>2, <2>3 DEF ClockInv, watch
<1>7. HeardInv'
  <2>1. has_ticked
    BY <1>2 DEF WalkInv, ClockInv
  <2>2. \A i \in Live : TakenUp(i) \in Int /\ TakenUp(i)' \in Int /\ TakenUp(i) <= TakenUp(i)'
    BY <1>2, <1>3, LoopFacts DEF TakenUp
  <2>3. now' \in Int /\ now <= now'
    BY <1>2, <1>3
  <2>4. UNCHANGED <<rules, rule_count, has_ticked, last_tick, scene>>
    BY <1>2, <1>4 DEF watch
  <2> QED BY <2>1, <2>2, <2>3, <2>4, HeardStands
<1>8. StatusInv'
  BY <1>2, <1>4 DEF StatusInv
<1> QED
  BY <1>1, <1>5, <1>6, <1>7, <1>8 DEF WalkInv

\* and the end of the scene.
LEMMA FinishKeepsWalk ==
  ASSUME WalkInv, Finish
  PROVE  WalkInv'
<1>1. AccountInv' /\ IInv'
  BY StepAccountInv, CallsKeepIInv, LoopFacts DEF WalkInv, RNext
<1>2. pc = "account" /\ pc' \in {"done", "limit"} /\ UNCHANGED <<vars, walk>>
  BY DEF Finish
<1>3. LoopInv'
  BY <1>2 DEF WalkInv, LoopInv, vars, walk, SampleDue, AllRead, Sample, RuleCount, Live, Slot
<1>4. ClockInv' /\ StatusInv'
  BY <1>2 DEF WalkInv, ClockInv, StatusInv, vars, walk
<1>5. HeardInv'
  BY <1>2 DEF WalkInv, HeardInv, vars, walk, HeardSample, TakenUp, Lost, Live, Slot
<1> QED
  BY <1>1, <1>3, <1>4, <1>5 DEF WalkInv

\* Every step keeps it.
LEMMA StepWalkInv ==
  ASSUME WalkInv, [RNext]_rvars
  PROVE  WalkInv'
<1>1. CASE UNCHANGED rvars
  <2>1. AccountInv'
    BY StepAccountInv DEF WalkInv
  <2>2. IInv'
    BY <1>1 DEF rvars, vars, WalkInv, IInv, TypeOK, RuleInv, Live, Slot
  <2>3. LoopInv'
    BY <1>1 DEF WalkInv, LoopInv, rvars, vars, SampleDue, AllRead, Sample, RuleCount, Live, Slot
  <2>4. ClockInv' /\ StatusInv'
    BY <1>1 DEF WalkInv, ClockInv, StatusInv, rvars, vars
  <2>5. HeardInv'
    BY <1>1 DEF WalkInv, HeardInv, rvars, vars, HeardSample, TakenUp, Lost, Live, Slot
  <2> QED BY <2>1, <2>2, <2>3, <2>4, <2>5 DEF WalkInv
<1> QED
  BY <1>1, BootKeepsWalk, RestartKeepsWalk, RestartedKeepsWalk, DeliverKeepsWalk,
     UnlabelledKeepsWalk, SampleDoneKeepsWalk, TickKeepsWalk, AccountKeepsWalk,
     FinishKeepsWalk
  DEF RNext

\* The replay walks through the scene in its order, on its grid of ticks.
LEMMA WalkInvariance == RSpec => []WalkInv
BY InitWalkInv, StepWalkInv, PTL DEF RSpec

\* gw_score.c:33 walk(): a parsed scene never makes the core refuse a call in the
\* middle of a replay; only a rule gw_add_rule itself refuses can.
THEOREM OnlyARuleFails == RSpec => []OnlyARuleCanFail
<1>1. WalkInv => OnlyARuleCanFail
  <2> SUFFICES ASSUME WalkInv PROVE OnlyARuleCanFail
    OBVIOUS
  <2>1. ret.status \in {"OK", "INVALID_ARG"}
    BY DEF WalkInv, StatusInv
  <2>2. pc = "failed" => \E k \in DOMAIN scene.rules : ~Usable(scene.rules[k])
    BY DEF WalkInv, StatusInv
  <2>3. ASSUME pc \in {"done", "limit"}, NEW k \in DOMAIN scene.rules
        PROVE  Usable(scene.rules[k])
    <3>1. rule_count = RuleCount
      BY <2>3 DEF WalkInv, LoopInv
    <3>2. k \in 1 .. RuleCount
      BY LoopFacts, SceneParts
    <3>3. k - 1 \in Live /\ (k - 1) + 1 = k
      BY <3>1, <3>2, LoopFacts
    <3>4. Usable(rules[k - 1].cfg) /\ rules[k - 1].cfg = scene.rules[(k - 1) + 1]
      BY <3>3, LoopFacts DEF WalkInv, LoopInv
    <3> QED BY <3>3, <3>4
  <2> QED BY <2>1, <2>2, <2>3 DEF OnlyARuleCanFail
<1> QED
  BY <1>1, WalkInvariance, PTL

\* A rule that was out of sight for more than max_gap and a tick was asked by a tick
\* in between, and expired there.
LEMMA OutageTicked == WalkInv => LongOutageNoticed
<1> SUFFICES ASSUME WalkInv, ReturnsAfter(rules[rule].cfg.max_gap + scene.tick)
             PROVE  Lost(rules[rule])
  BY DEF LongOutageNoticed
<1>1. /\ pc = "samples" /\ SampleDue /\ rule \in DOMAIN Sample.label /\ rules[rule].has_obs
      /\ Sample.t - rules[rule].last_obs > rules[rule].cfg.max_gap + scene.tick
  BY DEF ReturnsAfter
<1>2. next + 1 \in 1 .. Len(scene.samples) /\ Sample.t \in Int /\ Sample.t <= now
      /\ Sample = scene.samples[next + 1]
  BY <1>1, LoopFacts, DueSample
<1>3. rule \in 0 .. RuleCount - 1
  BY <1>1, <1>2, LoopFacts, SceneParts
<1>4. rule \in Live
  BY <1>1, <1>3, LoopFacts DEF WalkInv, LoopInv
<1>5. /\ now \in Int /\ scene.tick \in Int /\ scene.tick > 0 /\ last_tick \in Int
      /\ rules[rule].last_obs \in Int /\ rules[rule].cfg.max_gap \in Int
      /\ rules[rule].cfg.max_gap > 0
  BY <1>4, LoopFacts, SceneFacts
<1>6. ~(rules[rule].last_obs > now - scene.tick)
  <2> DEFINE heard == rules[rule].last_obs
             gap   == rules[rule].cfg.max_gap
             t     == Sample.t
  <2>1. /\ heard \in Int /\ gap \in Int /\ t \in Int /\ gap > 0 /\ t <= now
        /\ t - heard > gap + scene.tick
    BY <1>1, <1>2, <1>5
  <2> HIDE DEF heard, gap, t
  <2>2. ~(heard > now - scene.tick)
    BY <1>5, <2>1
  <2> QED BY <2>2 DEF heard
<1>7. has_ticked
  BY <1>1, <1>4, <1>6 DEF WalkInv, HeardInv
<1>8. last_tick = now - scene.tick
  BY <1>1, <1>7 DEF WalkInv, ClockInv
<1>9. last_tick - rules[rule].last_obs > rules[rule].cfg.max_gap
  <2> DEFINE heard == rules[rule].last_obs
             gap   == rules[rule].cfg.max_gap
             t     == Sample.t
  <2>1. /\ heard \in Int /\ gap \in Int /\ t \in Int /\ t <= now
        /\ t - heard > gap + scene.tick
    BY <1>1, <1>2, <1>5
  <2> HIDE DEF heard, gap, t
  <2>2. last_tick - heard > gap
    BY <1>5, <1>8, <2>1
  <2> QED BY <2>2 DEF heard, gap
<1> QED BY <1>1, <1>4, <1>7, <1>9 DEF WalkInv, HeardInv

\* gw_bench.h:92, gw_score.c:105: an outage that exceeds max_gap by more than a tick
\* never passes between two ticks, whatever the cadence and wherever the samples fall.
THEOREM LongOutageIsNoticed == RSpec => []LongOutageNoticed
BY OutageTicked, WalkInvariance, PTL

-----------------------------------------------------------------------------
(***************************************************************************)
(* What is behind a detection.                                             *)
(***************************************************************************)
\* The ticks are FirstAt and every scene.tick from there.
OnGrid(t) == \E m \in Nat : t = FirstAt + m * scene.tick

RestartInv ==
  /\ \A n \in 1 .. next_restart : scene.restarts[n] <= now
  /\ pc = "samples" =>
       \A n \in next_restart + 1 .. Len(scene.restarts) : scene.restarts[n] > now

Opposite(i) == OppositeOf(scene.rules[i + 1].target)
Target(i)   == scene.rules[i + 1].target

\* An armed rule was shown an absence by this process.
ArmedBacked(i) ==
  rules[i].armed => \E j \in 1 .. TakenUp(i) : Shows(j, i, Opposite(i)) /\ ThisProcess(j)

\* A latched one was shown an arrival after it, at this very tick.
LatchBacked(i) ==
  rules[i].pending =>
    /\ pc = "samples"
    /\ \E k \in 1 .. TakenUp(i) :
         /\ Shows(k, i, Target(i)) /\ TickOf(scene.samples[k].t) = now
         /\ \E j \in 1 .. k - 1 : Shows(j, i, Opposite(i)) /\ ThisProcess(j)

\* A duration runs from a sample that shows the target; until it is told it was
\* not over at the last tick.
RunBacked(i) ==
  rules[i].run_open =>
    /\ \E k \in 1 .. TakenUp(i) :
         Shows(k, i, Target(i)) /\ rules[i].run_start = scene.samples[k].t
    /\ ~has_ticked => rules[i].run_start > now - scene.tick
    /\ has_ticked /\ ~rules[i].fired => last_tick - rules[i].run_start < rules[i].cfg.sustain

BackedInv == \A i \in Live : ArmedBacked(i) /\ LatchBacked(i) /\ RunBacked(i)

\* Sample j shows the absence behind detection d and sample k the arrival, and no
\* restart lies between the ticks that take them up.
ArrivalSeen(d, j, k) ==
  /\ j < k
  /\ Shows(j, d.rule, Opposite(d.rule)) /\ Shows(k, d.rule, Target(d.rule))
  /\ TickOf(scene.samples[k].t) = d.at
  /\ \A n \in DOMAIN scene.restarts :
       ~ /\ TickOf(scene.samples[j].t) < TickOf(scene.restarts[n])
         /\ TickOf(scene.restarts[n]) <= TickOf(scene.samples[k].t)

DetectedInv ==
  \A d \in detections :
    /\ d.rule \in 0 .. RuleCount - 1
    /\ \E k \in DOMAIN scene.samples : Completed(k, d.rule, d.at)
    /\ d \in Appearances => \E j, k \in DOMAIN scene.samples : ArrivalSeen(d, j, k)

TellInv ==
  /\ WalkInv
  /\ OnGrid(now)
  /\ RestartInv
  /\ BackedInv
  /\ DetectedInv
  /\ pc \in {"account", "done", "limit"} => Due(now) = {}

-----------------------------------------------------------------------------
(***************************************************************************)
(* The ticks.                                                              *)
(***************************************************************************)
LEMMA DivisionFacts ==
  ASSUME NEW a \in Nat, NEW d \in Nat \ {0}
  PROVE  LET q == a \div d
         IN  q \in Nat /\ q * d <= a /\ a < q * d + d
<1>1. a \div d \in Nat
  OBVIOUS
<1>2. (a \div d) * d <= a
  OBVIOUS
<1>3. a < (a \div d) * d + d
  OBVIOUS
<1> QED
  BY <1>1, <1>2, <1>3

\* TickOf is the first tick at or after t.
LEMMA TickOfFacts ==
  ASSUME WalkTypeOK, NEW t \in Int
  PROVE  /\ TickOf(t) \in Int /\ t <= TickOf(t)
         /\ t <= FirstAt => TickOf(t) = FirstAt
         /\ t > FirstAt => TickOf(t) < t + scene.tick
         /\ \E q \in Nat : TickOf(t) = FirstAt + q * scene.tick
<1>1. FirstAt \in Int /\ scene.tick \in Nat \ {0}
  BY SceneFacts
<1>2. CASE t <= FirstAt
  <2>1. TickOf(t) = FirstAt
    BY <1>2 DEF TickOf
  <2>2. FirstAt = FirstAt + 0 * scene.tick
    BY <1>1
  <2> QED BY <1>1, <1>2, <2>1, <2>2
<1>3. CASE ~(t <= FirstAt)
  <2> DEFINE a == t - FirstAt + scene.tick - 1
             q == a \div scene.tick
             p == q * scene.tick
  <2>1. a \in Nat
    BY <1>1, <1>3
  <2>2. q \in Nat /\ p <= a /\ a < p + scene.tick
    BY <1>1, <2>1, DivisionFacts
  <2>3. TickOf(t) = FirstAt + p
    BY <1>3 DEF TickOf
  <2>4. p \in Int
    BY <1>1, <2>2
  <2>5. \E n \in Nat : TickOf(t) = FirstAt + n * scene.tick
    BY <2>2, <2>3
  <2> HIDE DEF p, q
  <2> QED BY <1>1, <1>3, <2>2, <2>3, <2>4, <2>5
<1> QED
  BY <1>2, <1>3

\* What has come by a tick is taken up by that tick, and what came since the tick
\* before is taken up at it.
LEMMA TickOfNow ==
  ASSUME WalkTypeOK, NEW n \in Int, OnGrid(n), NEW t \in Int
  PROVE  /\ t <= n => TickOf(t) <= n
         /\ t <= n /\ t > n - scene.tick => TickOf(t) = n
         /\ t > n => TickOf(t) > n
<1> DEFINE tick == scene.tick
<1>1. FirstAt \in Int /\ tick \in Nat \ {0}
  BY SceneFacts
<1>2. PICK m \in Nat : n = FirstAt + m * tick
  BY DEF OnGrid
<1>3. /\ TickOf(t) \in Int /\ t <= TickOf(t)
      /\ t <= FirstAt => TickOf(t) = FirstAt
      /\ t > FirstAt => TickOf(t) < t + tick
  BY TickOfFacts
<1>4. PICK q \in Nat : TickOf(t) = FirstAt + q * tick
  BY TickOfFacts
<1> HIDE DEF tick
<1>5. m * tick \in Int /\ q * tick \in Int /\ 0 <= m * tick
  BY <1>1
<1>6. ASSUME t <= n PROVE TickOf(t) <= n
  <2>1. CASE t <= FirstAt
    BY <1>1, <1>2, <1>3, <1>5, <2>1
  <2>2. CASE t > FirstAt
    <3>1. q * tick < m * tick + tick
      BY <1>1, <1>2, <1>3, <1>4, <1>5, <1>6, <2>2
    <3>2. q <= m
      BY <1>1, <3>1
    <3>3. q * tick <= m * tick
      BY <1>1, <3>2
    <3> QED BY <1>1, <1>2, <1>4, <1>5, <3>3
  <2> QED BY <1>1, <2>1, <2>2
<1>7. ASSUME t <= n, t > n - tick PROVE TickOf(t) = n
  <2>1. m * tick - tick < q * tick
    BY <1>1, <1>2, <1>3, <1>4, <1>5, <1>7
  <2>2. m <= q
    BY <1>1, <2>1
  <2>3. m * tick <= q * tick
    BY <1>1, <2>2
  <2> QED BY <1>1, <1>2, <1>4, <1>5, <1>6, <1>7, <2>3
<1>8. ASSUME t > n PROVE TickOf(t) > n
  BY <1>3, <1>8
<1> QED
  BY <1>6, <1>7, <1>8 DEF tick

\* What is said of the scene alone is said for good.
LEMMA SceneStands ==
  ASSUME UNCHANGED scene
  PROVE  /\ FirstAt' = FirstAt /\ RuleCount' = RuleCount
         /\ \A t : TickOf(t)' = TickOf(t) /\ (OnGrid(t)' <=> OnGrid(t))
         /\ \A i : Opposite(i)' = Opposite(i) /\ Target(i)' = Target(i)
         /\ \A k, i, v : Shows(k, i, v)' <=> Shows(k, i, v)
         /\ \A k, i, at : Completed(k, i, at)' <=> Completed(k, i, at)
         /\ \A d, j, k : ArrivalSeen(d, j, k)' <=> ArrivalSeen(d, j, k)
<1>1. FirstAt' = FirstAt /\ RuleCount' = RuleCount
  BY DEF FirstAt, RuleCount
<1>2. \A t : TickOf(t)' = TickOf(t) /\ (OnGrid(t)' <=> OnGrid(t))
  BY <1>1 DEF TickOf, OnGrid
<1>3. \A i : Opposite(i)' = Opposite(i) /\ Target(i)' = Target(i)
  BY DEF Opposite, Target
<1>4. \A k, i, v : Shows(k, i, v)' <=> Shows(k, i, v)
  BY DEF Shows
<1>5. \A k, i, at : Completed(k, i, at)' <=> Completed(k, i, at)
  BY <1>2, <1>4 DEF Completed
<1>6. \A d, j, k : ArrivalSeen(d, j, k)' <=> ArrivalSeen(d, j, k)
  BY <1>2, <1>3, <1>4 DEF ArrivalSeen
<1> QED
  BY <1>1, <1>2, <1>3, <1>4, <1>5, <1>6

\* What was found stays right while nothing is added to it.
LEMMA DetectedStands ==
  ASSUME DetectedInv, UNCHANGED <<scene, detections>>
  PROVE  DetectedInv'
<1>1. /\ RuleCount' = RuleCount
      /\ \A k, i, at : Completed(k, i, at)' <=> Completed(k, i, at)
      /\ \A d, j, k : ArrivalSeen(d, j, k)' <=> ArrivalSeen(d, j, k)
  BY SceneStands
<1> QED
  BY <1>1 DEF DetectedInv, Appearances

-----------------------------------------------------------------------------
(***************************************************************************)
(* TellInv, action by action.                                              *)
(***************************************************************************)
LEMMA RestartOrder ==
  ASSUME WalkTypeOK
  PROVE  /\ Len(scene.restarts) \in Nat /\ DOMAIN scene.restarts = 1 .. Len(scene.restarts)
         /\ \A m, n \in 1 .. Len(scene.restarts) :
              /\ scene.restarts[m] \in Int
              /\ m <= n => scene.restarts[m] <= scene.restarts[n]
<1>1. /\ scene.restarts \in Seq(Int) /\ Len(scene.restarts) \in Nat
      /\ DOMAIN scene.restarts = 1 .. Len(scene.restarts)
  BY SceneParts
<1>2. \A m, n \in DOMAIN scene.restarts : m < n => scene.restarts[m] <= scene.restarts[n]
  BY DEF WalkTypeOK, Accepted, Replayable, Ascending
<1>3. ASSUME NEW m \in 1 .. Len(scene.restarts), NEW n \in 1 .. Len(scene.restarts)
      PROVE  /\ scene.restarts[m] \in Int
             /\ m <= n => scene.restarts[m] <= scene.restarts[n]
  <2>1. scene.restarts[m] \in Int
    BY <1>1
  <2>2. m = n \/ m < n \/ n < m
    OBVIOUS
  <2> QED BY <1>1, <1>2, <2>1, <2>2
<1> QED
  BY <1>1, <1>3

\* A step that shows a rule nothing leaves what is behind its arming, its latch
\* and its run; only a latch has to be told before the clock goes on.
LEMMA BackedStands ==
  ASSUME UNCHANGED <<scene, has_ticked, last_tick, next_restart>>,
         NEW i, rules'[i] = rules[i],
         TakenUp(i) \in Int, TakenUp(i)' \in Int, TakenUp(i) <= TakenUp(i)',
         has_ticked \/ now' = now,
         rules[i].pending => pc' = "samples" /\ now' = now,
         ArmedBacked(i), LatchBacked(i), RunBacked(i)
  PROVE  ArmedBacked(i)' /\ LatchBacked(i)' /\ RunBacked(i)'
<1>1. /\ \A k, v : Shows(k, i, v)' <=> Shows(k, i, v)
      /\ Opposite(i)' = Opposite(i) /\ Target(i)' = Target(i)
      /\ \A t : TickOf(t)' = TickOf(t)
  BY SceneStands
<1>2. \A k \in 1 .. TakenUp(i) : k \in 1 .. TakenUp(i)'
  OBVIOUS
<1>3. \A j : ThisProcess(j)' <=> ThisProcess(j)
  BY <1>1 DEF ThisProcess
<1>4. ArmedBacked(i)'
  BY <1>1, <1>2, <1>3 DEF ArmedBacked
<1>5. LatchBacked(i)'
  BY <1>1, <1>2, <1>3 DEF LatchBacked
<1>6. RunBacked(i)'
  BY <1>1, <1>2 DEF RunBacked
<1> QED
  BY <1>4, <1>5, <1>6

\* What is known of each rule stays right when time passes and no rule changes.
LEMMA TellStands ==
  ASSUME TellInv, WalkInv',
         UNCHANGED <<scene, rules, rule_count, has_ticked, last_tick, detections, next_restart>>,
         \A i \in Live : TakenUp(i) \in Int /\ TakenUp(i)' \in Int /\ TakenUp(i) <= TakenUp(i)',
         has_ticked \/ now' = now,
         \A i \in Live : rules[i].pending => pc' = "samples" /\ now' = now,
         OnGrid(now)', RestartInv',
         pc' \in {"account", "done", "limit"} => Due(now)' = {}
  PROVE  TellInv'
<1>1. Live' = Live
  BY DEF Live
<1>2. ASSUME NEW i \in Live PROVE ArmedBacked(i)' /\ LatchBacked(i)' /\ RunBacked(i)'
  BY BackedStands DEF TellInv, BackedInv
<1>3. BackedInv'
  BY <1>1, <1>2 DEF BackedInv
<1>4. DetectedInv'
  BY DetectedStands DEF TellInv
<1> QED
  BY <1>3, <1>4 DEF TellInv

\* Nothing is known before the first sample.
LEMMA InitTellInv == RInit => TellInv
<1> SUFFICES ASSUME RInit PROVE TellInv
  OBVIOUS
<1>1. WalkInv
  BY InitWalkInv
<1>2. OnGrid(now)
  <2>1. FirstAt \in Int /\ scene.tick \in Int
    BY <1>1, LoopFacts, SceneFacts
  <2>2. now = FirstAt + 0 * scene.tick
    BY <2>1 DEF RInit
  <2> QED BY <2>2 DEF OnGrid
<1>3. Live = {}
  BY DEF RInit, Init, Live, Slot
<1>4. RestartInv /\ DetectedInv
  BY DEF RInit, RestartInv, DetectedInv
<1>5. pc \notin {"account", "done", "limit"}
  BY DEF RInit
<1> QED
  BY <1>1, <1>2, <1>3, <1>4, <1>5 DEF TellInv, BackedInv

\* Outside the loop over the samples nothing is latched.
LEMMA NothingLatched ==
  ASSUME TellInv, pc # "samples", NEW i \in Live
  PROVE  ~rules[i].pending
BY DEF TellInv, BackedInv, LatchBacked

\* A start of the watch keeps what is known of each rule right.
LEMMA BootKeepsTell ==
  ASSUME TellInv, Boot
  PROVE  TellInv'
<1> DEFINE cfg == scene.rules[rule_count + 1]
<1>1. WalkInv /\ WalkInv'
  BY BootKeepsWalk DEF TellInv
<1>2. pc = "boot" /\ rule_count < RuleCount /\ UNCHANGED walk
  BY DEF Boot
<1>3. \/ AddRuleUnusable(cfg) /\ pc' = "failed"
      \/ AddRuleAppend(cfg) /\ pc' = "boot"
  BY <1>1, BootCall
<1>4. UNCHANGED <<has_ticked, last_tick>>
  BY <1>3 DEF AddRuleUnusable, AddRuleAppend, Refuse, watch
<1>5. \A i \in Live' : \/ i \in Live /\ rules'[i] = rules[i]
                       \/ ~rules'[i].armed /\ ~rules'[i].pending /\ ~rules'[i].run_open
  <2>1. CASE AddRuleUnusable(cfg)
    BY <2>1 DEF AddRuleUnusable, Refuse, watch, Live
  <2>2. CASE AddRuleAppend(cfg)
    <3>1. rule_count \in Slot /\ rules \in [Slot -> Runtime] /\ rule_count \in Nat
      BY <1>1, <2>2, LoopFacts, MaxRulesAssumption
      DEF AddRuleAppend, WalkInv, IInv, TypeOK, Slot
    <3>2. \A i \in Slot : rules'[i] = IF i = rule_count THEN NewRuntime(cfg) ELSE rules[i]
      BY <2>2, <3>1 DEF AddRuleAppend, WriteSlot
    <3>3. \A i \in Live' : i \in Slot /\ ((i \in Live /\ i # rule_count) \/ i = rule_count)
      BY <2>2, <3>1 DEF AddRuleAppend, Live, Slot
    <3>4. ~NewRuntime(cfg).armed /\ ~NewRuntime(cfg).pending /\ ~NewRuntime(cfg).run_open
      BY DEF NewRuntime
    <3> HIDE DEF cfg
    <3> QED BY <3>2, <3>3, <3>4
  <2> QED BY <1>3, <2>1, <2>2
<1>6. ASSUME NEW i \in Live' PROVE ArmedBacked(i)' /\ LatchBacked(i)' /\ RunBacked(i)'
  <2>1. CASE i \in Live /\ rules'[i] = rules[i]
    <3>1. TakenUp(i)' = TakenUp(i) /\ TakenUp(i) \in Int
      BY <1>1, <1>2, LoopFacts DEF TakenUp, walk
    <3>2. ~rules[i].pending
      BY <1>2, <2>1, NothingLatched
    <3>3. UNCHANGED <<scene, has_ticked, last_tick, next_restart, now>>
      BY <1>2, <1>4 DEF walk
    <3>4. ArmedBacked(i) /\ LatchBacked(i) /\ RunBacked(i)
      BY <2>1 DEF TellInv, BackedInv
    <3> QED BY <2>1, <3>1, <3>2, <3>3, <3>4, BackedStands
  <2>2. CASE ~rules'[i].armed /\ ~rules'[i].pending /\ ~rules'[i].run_open
    BY <2>2 DEF ArmedBacked, LatchBacked, RunBacked
  <2> QED BY <1>5, <2>1, <2>2
<1>7. OnGrid(now)' /\ RestartInv' /\ DetectedInv'
  <2>1. UNCHANGED <<scene, now, next_restart, detections>> /\ pc' # "samples"
    BY <1>2, <1>3 DEF walk
  <2> QED BY <2>1, SceneStands, DetectedStands DEF TellInv, OnGrid, FirstAt, RestartInv
<1>8. pc' \notin {"account", "done", "limit"}
  BY <1>3
<1> QED
  BY <1>1, <1>6, <1>7, <1>8 DEF TellInv, BackedInv

\* So does a restart in the middle of the scene,
LEMMA RestartKeepsTell ==
  ASSUME TellInv, Restart
  PROVE  TellInv'
<1>1. WalkInv /\ WalkInv' /\ WalkTypeOK
  BY RestartKeepsWalk, LoopFacts DEF TellInv
<1>2. /\ pc = "boot" /\ pc' \in {"boot", "failed"}
      /\ next_restart < Len(scene.restarts) /\ scene.restarts[next_restart + 1] <= now
      /\ next_restart' = next_restart + 1
      /\ UNCHANGED <<scene, now, next, rule, detections>>
  BY DEF Restart, RestartDue, Goto
<1>3. Live' = {}
  BY DEF Restart, Start, Live, Slot
<1>4. RestartInv'
  <2>1. next_restart \in Nat
    BY <1>1, RestartOrder DEF WalkInv, LoopInv
  <2>2. \A n \in 1 .. next_restart' : n \in 1 .. next_restart \/ n = next_restart + 1
    BY <1>2, <2>1
  <2> QED BY <1>2, <2>2 DEF TellInv, RestartInv
<1>5. OnGrid(now)' /\ DetectedInv'
  BY <1>2, DetectedStands DEF TellInv, OnGrid, FirstAt
<1> QED
  BY <1>1, <1>2, <1>3, <1>4, <1>5 DEF TellInv, BackedInv

\* The steps that leave the watch and the detections alone.
LEMMA QuietKeepsTell ==
  ASSUME TellInv, Restarted \/ Unlabelled \/ SampleDone \/ Finish \/ UNCHANGED rvars
  PROVE  TellInv'
<1>1. WalkInv /\ WalkInv' /\ WalkTypeOK
  BY RestartedKeepsWalk, UnlabelledKeepsWalk, SampleDoneKeepsWalk, FinishKeepsWalk,
     StepWalkInv, LoopFacts
  DEF TellInv
<1>2. UNCHANGED <<vars, scene, now, detections, next_restart>>
  BY DEF Restarted, Unlabelled, SampleDone, Finish, rvars, walk, vars
<1>3. \/ pc' = "samples" /\ pc \in {"boot", "samples"}
      \/ pc' = pc
      \/ pc = "account" /\ pc' \in {"done", "limit"}
  BY DEF Restarted, Unlabelled, SampleDone, Finish, rvars
<1>4. ASSUME NEW i \in Live
      PROVE  TakenUp(i) \in Int /\ TakenUp(i)' \in Int /\ TakenUp(i) <= TakenUp(i)'
  <2>1. /\ next \in Nat /\ rule \in Nat /\ RuleCount \in Nat /\ i \in Nat /\ i < RuleCount
    BY <1>1, LoopFacts DEF WalkInv, LoopInv
  <2>2. CASE SampleDone
    <3>1. rule = RuleCount /\ rule' = 0 /\ next' = next + 1
      BY <2>2 DEF SampleDone
    <3> QED BY <2>1, <3>1 DEF TakenUp
  <2>3. CASE Unlabelled
    <3>1. rule' = rule + 1 /\ next' = next
      BY <2>3 DEF Unlabelled
    <3> QED BY <2>1, <3>1 DEF TakenUp
  <2>4. CASE Restarted \/ Finish \/ UNCHANGED rvars
    <3>1. rule' = rule /\ next' = next
      BY <2>4 DEF Restarted, Finish, rvars, walk
    <3> QED BY <2>1, <3>1 DEF TakenUp
  <2> QED BY <2>2, <2>3, <2>4
<1>5. \A i \in Live : rules[i].pending => pc' = "samples" /\ now' = now
  BY <1>2, <1>3, NothingLatched
<1>6. OnGrid(now)'
  BY <1>2 DEF TellInv, OnGrid, FirstAt
<1>7. RestartInv'
  <2>1. CASE pc = "samples" \/ pc' # "samples"
    BY <1>2, <2>1 DEF TellInv, RestartInv
  <2>2. CASE pc # "samples" /\ pc' = "samples"
    <3>1. ~RestartDue
      BY <2>2 DEF Restarted, Unlabelled, SampleDone, Finish, rvars
    <3>2. ASSUME NEW n \in next_restart + 1 .. Len(scene.restarts)
          PROVE  scene.restarts[n] > now
      <4>1. /\ next_restart \in 0 .. Len(scene.restarts) /\ now \in Int
            /\ Len(scene.restarts) \in Nat
        BY <1>1, LoopFacts, RestartOrder DEF WalkInv, LoopInv
      <4>2. /\ next_restart + 1 \in 1 .. Len(scene.restarts) /\ n \in 1 .. Len(scene.restarts)
            /\ next_restart + 1 <= n /\ next_restart < Len(scene.restarts)
        BY <3>2, <4>1
      <4>3. ~(scene.restarts[next_restart + 1] <= now)
        BY <3>1, <4>2 DEF RestartDue
      <4>4. /\ scene.restarts[next_restart + 1] \in Int /\ scene.restarts[n] \in Int
            /\ scene.restarts[next_restart + 1] <= scene.restarts[n]
        BY <1>1, <4>2, RestartOrder
      <4> QED BY <4>1, <4>3, <4>4
    <3> QED BY <1>2, <3>2 DEF TellInv, RestartInv
  <2> QED BY <2>1, <2>2
<1>8. pc' \in {"account", "done", "limit"} => Due(now)' = {}
  BY <1>2, <1>3 DEF TellInv, Due, Live, vars
<1> QED
  BY <1>1, <1>2, <1>4, <1>5, <1>6, <1>7, <1>8, TellStands DEF vars

\* the account of a sample,
LEMMA AccountKeepsTell ==
  ASSUME TellInv, Account
  PROVE  TellInv'
<1>1. WalkInv /\ WalkInv' /\ WalkTypeOK
  BY AccountKeepsWalk, LoopFacts DEF TellInv
<1>2. /\ pc = "account" /\ pc' = "boot" /\ now' = now + scene.tick
      /\ UNCHANGED <<watch, scene, next, rule, next_restart, detections>>
  BY DEF Account, GetState, Refuse
<1>3. now \in Int /\ scene.tick \in Nat \ {0} /\ FirstAt \in Int
  BY <1>1, LoopFacts, SceneFacts
<1>4. ASSUME NEW i \in Live
      PROVE  /\ TakenUp(i) \in Int /\ TakenUp(i)' \in Int /\ TakenUp(i) <= TakenUp(i)'
             /\ ~rules[i].pending
  BY <1>1, <1>2, LoopFacts, NothingLatched DEF TakenUp
<1>5. OnGrid(now)'
  <2>1. PICK m \in Nat : now = FirstAt + m * scene.tick
    BY DEF TellInv, OnGrid
  <2>2. (m + 1) * scene.tick = m * scene.tick + scene.tick /\ m * scene.tick \in Int
    BY <1>3
  <2>3. now' = FirstAt + (m + 1) * scene.tick
    BY <1>2, <1>3, <2>1, <2>2
  <2>4. FirstAt' = FirstAt /\ scene' = scene /\ m + 1 \in Nat
    BY <1>2 DEF FirstAt
  <2> QED BY <2>3, <2>4 DEF OnGrid
<1>6. RestartInv'
  <2>1. ASSUME NEW n \in 1 .. next_restart PROVE scene.restarts[n] <= now'
    <3>1. scene.restarts[n] <= now
      BY DEF TellInv, RestartInv
    <3>2. n \in 1 .. Len(scene.restarts)
      BY <1>1, RestartOrder DEF WalkInv, LoopInv
    <3>3. scene.restarts[n] \in Int
      BY <1>1, <3>2, RestartOrder
    <3> QED BY <1>2, <1>3, <3>1, <3>3
  <2> QED BY <1>2, <2>1 DEF RestartInv
<1>7. has_ticked
  BY <1>1, <1>2 DEF WalkInv, ClockInv
<1> QED
  BY <1>1, <1>2, <1>4, <1>5, <1>6, <1>7, TellStands DEF watch

\* The sample delivered is taken up at this tick, by this process.
LEMMA DeliverKeepsTell ==
  ASSUME TellInv, Deliver
  PROVE  TellInv'
<1> DEFINE s == scene.samples[next + 1]
<1>1. WalkInv /\ WalkInv' /\ WalkTypeOK
  BY DeliverKeepsWalk, LoopFacts DEF TellInv
<1>2. /\ pc = "samples" /\ pc' = "samples"
      /\ rule \in Live /\ rule < RuleCount /\ Live' = Live
      /\ Answer \in Heard /\ ~Stale(rules[rule], Answer)
      /\ next + 1 \in 1 .. Len(scene.samples) /\ s.t \in Int /\ s.t <= now
      /\ rule \in DOMAIN s.label
      /\ Answer.at = s.t /\ Answer.value = s.label[rule]
      /\ \A i \in Live : rules'[i] = IF i = rule THEN Accept(rules[i], Answer) ELSE rules[i]
      /\ rule' = rule + 1
      /\ UNCHANGED <<rule_count, last_tick, has_ticked, scene, now, next, next_restart,
                     detections>>
  BY <1>1, Delivered
<1> HIDE DEF Answer
<1>3. /\ now \in Int /\ next \in Nat /\ rule \in Nat /\ scene.tick \in Nat \ {0}
      /\ \A i \in Live : i \in Nat
      /\ rules[rule] \in Runtime /\ Usable(rules[rule].cfg) /\ RuntimeInv(rules[rule])
      /\ rules[rule].cfg = scene.rules[rule + 1]
  <2>1. now \in Int /\ next \in Nat /\ rule \in Nat /\ Live = 0 .. rule_count - 1
        /\ rules[rule] \in Runtime /\ Usable(rules[rule].cfg) /\ RuntimeInv(rules[rule])
    BY <1>1, <1>2, LoopFacts
  <2>2. scene.tick \in Nat \ {0}
    BY <1>1, SceneFacts
  <2>3. rules[rule].cfg = scene.rules[rule + 1]
    BY <1>1, <1>2 DEF WalkInv, LoopInv
  <2> QED BY <2>1, <2>2, <2>3
<1>4. s.t > now - scene.tick
  <2>1. next + 1 \in next + 1 .. Len(scene.samples)
    BY <1>2, <1>3
  <2> QED BY <1>1, <2>1 DEF WalkInv, ClockInv
<1>5. TickOf(s.t) = now
  BY <1>1, <1>2, <1>3, <1>4, TickOfNow DEF TellInv
<1>6. ThisProcess(next + 1)
  <2> SUFFICES ASSUME NEW n \in 1 .. next_restart
               PROVE  TickOf(scene.restarts[n]) <= TickOf(scene.samples[next + 1].t)
    BY DEF ThisProcess
  <2>1. n \in 1 .. Len(scene.restarts)
    BY <1>1, RestartOrder DEF WalkInv, LoopInv
  <2>2. scene.restarts[n] \in Int /\ scene.restarts[n] <= now
    BY <1>1, <2>1, RestartOrder DEF TellInv, RestartInv
  <2> QED BY <1>1, <1>3, <1>5, <2>2, TickOfNow DEF TellInv
<1>7. \A v : Shows(next + 1, rule, v) <=> Answer.value = v
  BY <1>2 DEF Shows
<1>8. /\ \A k, i, v : Shows(k, i, v)' <=> Shows(k, i, v)
      /\ \A i : Opposite(i)' = Opposite(i) /\ Target(i)' = Target(i)
      /\ \A t : TickOf(t)' = TickOf(t)
      /\ \A j : ThisProcess(j)' <=> ThisProcess(j)
  BY <1>2, SceneStands DEF ThisProcess
<1>9. ASSUME NEW i \in Live PROVE ArmedBacked(i)' /\ LatchBacked(i)' /\ RunBacked(i)'
  <2>1. ArmedBacked(i) /\ LatchBacked(i) /\ RunBacked(i)
    BY DEF TellInv, BackedInv
  <2>2. CASE i # rule
    <3>1. rules'[i] = rules[i]
      BY <1>2, <2>2
    <3>2. TakenUp(i)' = TakenUp(i) /\ TakenUp(i) \in Int
      <4>1. i \in Nat /\ rule' = rule + 1 /\ next' = next
        BY <1>2, <1>3
      <4>2. i < rule' <=> i < rule
        BY <1>3, <2>2, <4>1
      <4> QED BY <1>3, <4>1, <4>2 DEF TakenUp
    <3> QED BY <1>2, <2>1, <3>1, <3>2, BackedStands
  <2>3. CASE i = rule
    <3> DEFINE r == rules[i]
               e == rules'[i]
    <3>1. /\ e.cfg = r.cfg
          /\ e.armed => r.armed \/ Answer.value = OppositeOf(r.cfg.target)
          /\ e.pending => r.pending \/ (r.armed /\ Answer.value = r.cfg.target)
          /\ e.run_open =>
               \/ r.run_open /\ e.run_start = r.run_start /\ (~e.fired => ~r.fired)
               \/ Answer.value = r.cfg.target /\ e.run_start = Answer.at
      <4>1. e = Accept(rules[rule], Answer)
        BY <1>2, <2>3
      <4> QED BY <1>2, <1>3, <2>3, <4>1, AcceptedStep
    <3>2. Opposite(i) = OppositeOf(r.cfg.target) /\ Target(i) = r.cfg.target
      BY <1>3, <2>3 DEF Opposite, Target
    <3>3. TakenUp(i) = next /\ TakenUp(i)' = next + 1
      BY <1>2, <1>3, <2>3 DEF TakenUp
    <3>4. /\ next + 1 \in 1 .. next + 1 /\ 1 .. (next + 1) - 1 = 1 .. next
          /\ \A k \in 1 .. next : k \in 1 .. next + 1
      BY <1>3
    <3>5. ArmedBacked(i)'
      <4> SUFFICES ASSUME e.armed
                   PROVE  \E j \in 1 .. next + 1 : Shows(j, i, Opposite(i)) /\ ThisProcess(j)
        BY <1>8, <3>3 DEF ArmedBacked
      <4>1. CASE r.armed
        BY <2>1, <3>3, <3>4, <4>1 DEF ArmedBacked
      <4>2. CASE Answer.value = OppositeOf(r.cfg.target)
        BY <1>6, <1>7, <2>3, <3>2, <3>4, <4>2
      <4> QED BY <3>1, <4>1, <4>2
    <3>6. LatchBacked(i)'
      <4> SUFFICES ASSUME e.pending
                   PROVE  \E k \in 1 .. next + 1 :
                            /\ Shows(k, i, Target(i)) /\ TickOf(scene.samples[k].t) = now
                            /\ \E j \in 1 .. k - 1 : Shows(j, i, Opposite(i)) /\ ThisProcess(j)
        BY <1>2, <1>8, <3>3 DEF LatchBacked
      <4>1. CASE r.pending
        BY <2>1, <3>3, <3>4, <4>1 DEF LatchBacked
      <4>2. CASE r.armed /\ Answer.value = r.cfg.target
        <5>1. \E j \in 1 .. next : Shows(j, i, Opposite(i)) /\ ThisProcess(j)
          BY <2>1, <3>3, <4>2 DEF ArmedBacked
        <5>2. \E j \in 1 .. (next + 1) - 1 : Shows(j, i, Opposite(i)) /\ ThisProcess(j)
          BY <3>4, <5>1
        <5>3. Shows(next + 1, i, Target(i))
          BY <1>7, <2>3, <3>2, <4>2
        <5> QED BY <1>5, <3>4, <5>2, <5>3
      <4> QED BY <3>1, <4>1, <4>2
    <3>7. RunBacked(i)'
      <4> SUFFICES ASSUME e.run_open
                   PROVE  /\ \E k \in 1 .. next + 1 :
                               Shows(k, i, Target(i)) /\ e.run_start = scene.samples[k].t
                          /\ ~has_ticked => e.run_start > now - scene.tick
                          /\ has_ticked /\ ~e.fired => last_tick - e.run_start < e.cfg.sustain
        BY <1>2, <1>8, <3>3 DEF RunBacked
      <4>1. CASE r.run_open /\ e.run_start = r.run_start /\ (~e.fired => ~r.fired)
        <5>1. /\ \E k \in 1 .. next :
                   Shows(k, i, Target(i)) /\ r.run_start = scene.samples[k].t
              /\ ~has_ticked => r.run_start > now - scene.tick
              /\ has_ticked /\ ~r.fired => last_tick - r.run_start < r.cfg.sustain
          BY <2>1, <3>3, <4>1 DEF RunBacked
        <5> QED BY <3>1, <3>4, <4>1, <5>1
      <4>2. CASE Answer.value = r.cfg.target /\ e.run_start = Answer.at
        <5>1. Shows(next + 1, i, Target(i)) /\ e.run_start = s.t
          BY <1>2, <1>7, <2>3, <3>2, <4>2
        <5>2. ASSUME has_ticked PROVE last_tick - e.run_start < e.cfg.sustain
          <6>1. last_tick = now - scene.tick
            BY <1>1, <1>2, <5>2 DEF WalkInv, ClockInv
          <6>2. e \in Runtime /\ RuntimeInv(e) /\ Usable(e.cfg)
            BY <1>1, <1>2 DEF WalkInv, IInv, TypeOK, RuleInv, Live
          <6>3. e.cfg.kind = "sustained"
            BY <6>2 DEF RuntimeInv, OpenRunIsBacked, Sustained
          <6>4. e.cfg.sustain \in Int /\ e.cfg.sustain > 0
            BY <6>2, <6>3 DEF Usable, Runtime, Config
          <6>5. last_tick - s.t < 0 /\ last_tick - s.t \in Int
            BY <1>2, <1>3, <1>4, <6>1
          <6> HIDE DEF e, s
          <6> QED BY <5>1, <6>4, <6>5
        <5> QED BY <1>4, <3>4, <5>1, <5>2
      <4> QED BY <3>1, <4>1, <4>2
    <3> QED BY <3>5, <3>6, <3>7
  <2> QED BY <2>2, <2>3
<1>10. BackedInv'
  BY <1>2, <1>9 DEF BackedInv
<1>11. OnGrid(now)' /\ RestartInv' /\ DetectedInv'
  BY <1>2, DetectedStands DEF TellInv, OnGrid, FirstAt, RestartInv
<1> QED
  BY <1>1, <1>2, <1>10, <1>11 DEF TellInv

\* An arrival latched before the tick was taken up at it, and watched from the
\* absence on by the process that is running.
LEMMA ArrivalReported ==
  ASSUME TellInv, pc = "samples", NEW i \in Live, rules[i].pending,
         NEW d, d.rule = i, d.at = now
  PROVE  /\ \E k \in DOMAIN scene.samples : Completed(k, i, now)
         /\ \E j, k \in DOMAIN scene.samples : ArrivalSeen(d, j, k)
<1>1. WalkInv /\ WalkTypeOK /\ now \in Int
  BY LoopFacts DEF TellInv
<1>2. /\ next \in 0 .. Len(scene.samples) /\ Len(scene.samples) \in Nat
      /\ DOMAIN scene.samples = 1 .. Len(scene.samples)
      /\ TakenUp(i) \in 0 .. Len(scene.samples)
  <2>1. next \in 0 .. Len(scene.samples) /\ Len(scene.samples) \in Nat
        /\ DOMAIN scene.samples = 1 .. Len(scene.samples)
    BY <1>1, SceneFacts, SceneParts DEF WalkTypeOK
  <2>2. i < rule => next + 1 \in 1 .. Len(scene.samples)
    <3>1. i < rule => rule # 0
      BY <1>1, LoopFacts
    <3>2. rule # 0 => SampleDue
      BY <1>1 DEF WalkInv, LoopInv
    <3> QED BY <1>1, <3>1, <3>2, DueSample
  <2> QED BY <2>1, <2>2 DEF TakenUp
<1>3. PICK k \in 1 .. TakenUp(i) :
        /\ Shows(k, i, Target(i)) /\ TickOf(scene.samples[k].t) = now
        /\ \E j \in 1 .. k - 1 : Shows(j, i, Opposite(i)) /\ ThisProcess(j)
  BY DEF TellInv, BackedInv, LatchBacked
<1>4. PICK j \in 1 .. k - 1 : Shows(j, i, Opposite(i)) /\ ThisProcess(j)
  BY <1>3
<1>5. j \in DOMAIN scene.samples /\ k \in DOMAIN scene.samples /\ j < k
  BY <1>2
<1>6. Completed(k, i, now)
  <2>1. scene.rules[i + 1].kind # "sustained"
    <3>1. Appeared(rules[i]) /\ rules[i].cfg = scene.rules[i + 1]
      BY <1>1, LoopFacts DEF WalkInv, LoopInv, RuntimeInv, LatchShape
    <3> QED BY <3>1 DEF Appeared
  <2>2. scene.samples[k].t \in Int
    BY <1>1, <1>2, <1>5, SceneFacts
  <2>3. scene.samples[k].t + 0 = scene.samples[k].t
    BY <2>2
  <2> QED BY <1>3, <2>1, <2>3 DEF Completed, Target
<1>7. ASSUME NEW n \in DOMAIN scene.restarts
      PROVE  ~ /\ TickOf(scene.samples[j].t) < TickOf(scene.restarts[n])
               /\ TickOf(scene.restarts[n]) <= TickOf(scene.samples[k].t)
  <2>1. /\ n \in 1 .. Len(scene.restarts) /\ scene.restarts[n] \in Int
        /\ next_restart \in 0 .. Len(scene.restarts) /\ Len(scene.restarts) \in Nat
    BY <1>1, <1>7, RestartOrder DEF WalkInv, LoopInv
  <2>2. TickOf(scene.restarts[n]) \in Int
    BY <1>1, <2>1, TickOfFacts
  <2>3. CASE n \in 1 .. next_restart
    <3>1. TickOf(scene.restarts[n]) <= TickOf(scene.samples[j].t)
      BY <1>4, <2>3 DEF ThisProcess
    <3>2. TickOf(scene.samples[j].t) \in Int
      BY <1>1, <1>2, <1>5, SceneFacts, TickOfFacts
    <3> QED BY <2>2, <3>1, <3>2
  <2>4. CASE n \notin 1 .. next_restart
    <3>1. n \in next_restart + 1 .. Len(scene.restarts)
      BY <2>1, <2>4
    <3>2. scene.restarts[n] > now
      BY <3>1 DEF TellInv, RestartInv
    <3>3. TickOf(scene.restarts[n]) > now
      BY <1>1, <2>1, <3>2, TickOfNow DEF TellInv
    <3> QED BY <1>1, <1>3, <2>2, <3>3
  <2> QED BY <2>3, <2>4
<1>8. ArrivalSeen(d, j, k)
  BY <1>1, <1>3, <1>4, <1>5, <1>7 DEF ArrivalSeen
<1> QED
  BY <1>5, <1>6, <1>8

\* A duration is told at the first tick it has passed.
LEMMA DurationReported ==
  ASSUME TellInv, pc = "samples", NEW i \in Live, Matured(rules[i], now)
  PROVE  /\ \E k \in DOMAIN scene.samples : Completed(k, i, now)
         /\ scene.rules[i + 1].kind = "sustained"
<1> DEFINE start   == rules[i].run_start
           sustain == scene.rules[i + 1].sustain
<1>1. WalkInv /\ WalkTypeOK /\ now \in Int /\ last_tick \in Int /\ scene.tick \in Int
  BY LoopFacts, SceneFacts DEF TellInv
<1>2. /\ rules[i] \in Runtime /\ Usable(rules[i].cfg) /\ rules[i].cfg = scene.rules[i + 1]
  BY <1>1, LoopFacts DEF WalkInv, LoopInv
<1>3. rules[i].run_open /\ ~rules[i].fired /\ now - start >= sustain
      /\ scene.rules[i + 1].kind = "sustained"
  BY <1>2 DEF Matured, Sustained
<1>4. start \in Int /\ sustain \in Int /\ sustain > 0
  BY <1>2, <1>3 DEF Runtime, Config, Usable
<1>5. /\ ~has_ticked => start > now - scene.tick
      /\ has_ticked => last_tick - start < sustain
  BY <1>2, <1>3 DEF TellInv, BackedInv, RunBacked
<1>6. PICK k \in 1 .. TakenUp(i) : Shows(k, i, Target(i)) /\ start = scene.samples[k].t
  BY <1>3 DEF TellInv, BackedInv, RunBacked
<1>7. k \in DOMAIN scene.samples
  <2>1. next \in 0 .. Len(scene.samples) /\ Len(scene.samples) \in Nat
        /\ DOMAIN scene.samples = 1 .. Len(scene.samples)
    BY <1>1, SceneFacts, SceneParts DEF WalkTypeOK
  <2>2. i < rule => next + 1 \in 1 .. Len(scene.samples)
    <3>1. i < rule => rule # 0
      BY <1>1, LoopFacts
    <3>2. rule # 0 => SampleDue
      BY <1>1 DEF WalkInv, LoopInv
    <3> QED BY <1>1, <3>1, <3>2, DueSample
  <2>3. TakenUp(i) \in 0 .. Len(scene.samples)
    BY <2>1, <2>2 DEF TakenUp
  <2> QED BY <1>6, <2>1, <2>3
<1>8. has_ticked => last_tick = now - scene.tick
  BY <1>1 DEF WalkInv, ClockInv
<1> HIDE DEF start, sustain
<1>9. start + sustain \in Int /\ start + sustain <= now /\ start + sustain > now - scene.tick
  BY <1>1, <1>3, <1>4, <1>5, <1>8
<1>10. TickOf(start + sustain) = now
  BY <1>1, <1>9, TickOfNow DEF TellInv
<1>11. Completed(k, i, now)
  BY <1>3, <1>6, <1>10 DEF Completed, Target, start, sustain
<1> QED
  BY <1>3, <1>7, <1>11

\* and a tick, which hands out what was latched.
LEMMA TickKeepsTell ==
  ASSUME TellInv, TickStep
  PROVE  TellInv'
<1>1. WalkInv /\ WalkInv' /\ WalkTypeOK
  BY TickKeepsWalk, LoopFacts DEF TellInv
<1>2. /\ pc = "samples" /\ pc' = "account" /\ rule = 0
      /\ Live' = Live
      /\ \A i \in Live : rules'[i] = Drain(Age(rules[i], now))
      /\ last_tick' = now /\ has_ticked'
      /\ ret'.fired \subseteq Due(now)
      /\ UNCHANGED <<rule_count, scene, now, next, rule, next_restart>>
  BY <1>1, Ticked
<1>3. detections' = detections \cup Recorded(ret'.fired)
  BY DEF TickStep
<1>4. now \in Int
  BY <1>1, LoopFacts
<1>5. ASSUME NEW i \in Live PROVE ArmedBacked(i)' /\ LatchBacked(i)' /\ RunBacked(i)'
  <2> DEFINE r == rules[i]
             e == rules'[i]
  <2>1. /\ ~e.pending
        /\ e.cfg = r.cfg
        /\ e.armed => r.armed
        /\ e.run_open => /\ r.run_open /\ e.run_start = r.run_start
                         /\ ~e.fired => now - r.run_start < r.cfg.sustain
    <3>1. e = Drain(Age(r, now)) /\ r \in Runtime /\ RuntimeInv(r) /\ Usable(r.cfg)
      BY <1>1, <1>2, LoopFacts
    <3> HIDE DEF e, r
    <3> QED BY <1>4, <3>1, TickedStep
  <2>2. ArmedBacked(i) /\ RunBacked(i)
    BY DEF TellInv, BackedInv
  <2>3. /\ \A k, v : Shows(k, i, v)' <=> Shows(k, i, v)
        /\ Opposite(i)' = Opposite(i) /\ Target(i)' = Target(i)
        /\ \A t : TickOf(t)' = TickOf(t)
        /\ \A j : ThisProcess(j)' <=> ThisProcess(j)
        /\ TakenUp(i)' = TakenUp(i)
    BY <1>2, SceneStands DEF ThisProcess, TakenUp
  <2>4. ArmedBacked(i)'
    BY <2>1, <2>2, <2>3 DEF ArmedBacked
  <2>5. LatchBacked(i)'
    BY <2>1 DEF LatchBacked
  <2>6. RunBacked(i)'
    BY <1>2, <2>1, <2>2, <2>3 DEF RunBacked
  <2> QED BY <2>4, <2>5, <2>6
<1>6. DetectedInv'
  <2>1. /\ RuleCount' = RuleCount
        /\ \A k, i, at : Completed(k, i, at)' <=> Completed(k, i, at)
        /\ \A d, j, k : ArrivalSeen(d, j, k)' <=> ArrivalSeen(d, j, k)
    BY <1>2, SceneStands
  <2> SUFFICES ASSUME NEW d \in detections'
               PROVE  /\ d.rule \in 0 .. RuleCount - 1
                      /\ \E k \in DOMAIN scene.samples : Completed(k, d.rule, d.at)
                      /\ scene.rules[d.rule + 1].kind = "appeared" =>
                           \E j, k \in DOMAIN scene.samples : ArrivalSeen(d, j, k)
    BY <1>2, <2>1 DEF DetectedInv, Appearances
  <2>2. CASE d \in detections
    BY <2>2 DEF TellInv, DetectedInv, Appearances
  <2>3. CASE d \in Recorded(ret'.fired)
    <3>1. PICK i \in ret'.fired : d = [rule |-> i, at |-> now]
      BY <2>3 DEF Recorded, Written
    <3>2. d.rule = i /\ d.at = now
      BY <3>1
    <3>3. i \in Live /\ Age(rules[i], now).pending
      BY <1>2 DEF Due
    <3>4. /\ rules[i] \in Runtime /\ RuntimeInv(rules[i]) /\ Usable(rules[i].cfg)
          /\ i \in 0 .. RuleCount - 1
      BY <1>1, <1>2, <3>3, LoopFacts DEF WalkInv, LoopInv
    <3>5. rules[i].pending \/ Matured(rules[i], now)
      BY <1>4, <3>3, <3>4, DueStep
    <3>6. CASE rules[i].pending
      BY <1>2, <3>2, <3>3, <3>4, <3>6, ArrivalReported
    <3>7. CASE Matured(rules[i], now)
      <4>1. scene.rules[i + 1].kind = "sustained"
            /\ \E k \in DOMAIN scene.samples : Completed(k, i, now)
        BY <1>2, <3>3, <3>7, DurationReported
      <4> QED BY <3>2, <3>4, <4>1
    <3> QED BY <3>5, <3>6, <3>7
  <2> QED BY <1>3, <2>2, <2>3
<1>7. Due(now)' = {}
  <2>1. \A i \in Live : ~Age(rules'[i], now).pending
    BY <1>1, <1>2, <1>4, LoopFacts, DueStep
  <2> QED BY <1>2, <2>1 DEF Due
<1>8. OnGrid(now)' /\ RestartInv'
  BY <1>2 DEF TellInv, OnGrid, FirstAt, RestartInv
<1>9. BackedInv'
  BY <1>2, <1>5 DEF BackedInv
<1> QED
  BY <1>1, <1>6, <1>7, <1>8, <1>9 DEF TellInv

\* Every step keeps it.
LEMMA StepTellInv ==
  ASSUME TellInv, [RNext]_rvars
  PROVE  TellInv'
BY BootKeepsTell, RestartKeepsTell, DeliverKeepsTell, TickKeepsTell, AccountKeepsTell,
   QuietKeepsTell
DEF RNext

\* What the replay knows of each rule is what the scene has shown since it was last
\* taken up.
LEMMA TellInvariance == RSpec => []TellInv
BY InitTellInv, StepTellInv, PTL DEF RSpec

\* gw_score.c:62: an appearance is reported only where the scene showed an absence
\* and then an arrival to one and the same process.
THEOREM AppearancesAreWatched == RSpec => []DetectionsAreWatched
<1>1. TellInv => DetectionsAreWatched
  <2> SUFFICES ASSUME TellInv, NEW d \in Appearances
               PROVE  \E j, k \in DOMAIN scene.samples :
                        /\ j < k
                        /\ Shows(j, d.rule, OppositeOf(scene.rules[d.rule + 1].target))
                        /\ Shows(k, d.rule, scene.rules[d.rule + 1].target)
                        /\ TickOf(scene.samples[k].t) = d.at
                        /\ \A n \in DOMAIN scene.restarts :
                             ~ /\ TickOf(scene.samples[j].t) < TickOf(scene.restarts[n])
                               /\ TickOf(scene.restarts[n]) <= TickOf(scene.samples[k].t)
    BY DEF DetectionsAreWatched, Watched
  <2>1. d \in detections
    BY DEF Appearances
  <2> QED BY <2>1 DEF TellInv, DetectedInv, ArrivalSeen, Opposite, Target
<1> QED
  BY <1>1, TellInvariance, PTL

\* gw_score.c:109: a detection is dated by the first tick that could know of it,
\* and a walk that ends has told everything that was due.
THEOREM DetectionsAreOnTime == RSpec => []DetectedOnTime
<1>1. TellInv => DetectedOnTime
  BY DEF TellInv, DetectedInv, DetectedOnTime
<1> QED
  BY <1>1, TellInvariance, PTL
-----------------------------------------------------------------------------
(***************************************************************************)
(* What is behind observed time.                                           *)
(***************************************************************************)
\* After sample j another one of the first n named rule i, not too late for a tick
\* in between to expire it.
Resumed(j, i, n) ==
  \E m \in j + 1 .. n :
    Named(m, i)
      /\ scene.samples[m].t - scene.samples[j].t <= rules[i].cfg.max_gap + scene.tick

\* What a rule believes was shown to this process, and every answer since was
\* followed by another in time, down to the one heard last.
SightBacked(i) ==
  rules[i].confirmed # "unknown" =>
    \E k \in 1 .. TakenUp(i) :
      /\ Shows(k, i, rules[i].confirmed) /\ ThisProcess(k)
      /\ \A j \in k .. TakenUp(i) :
           Named(j, i) =>
             scene.samples[j].t = rules[i].last_obs \/ Resumed(j, i, TakenUp(i))

SightInv == TellInv /\ \A i \in Live : SightBacked(i)

\* How far the samples have been taken up.
LEMMA TakenUpIs ==
  ASSUME WalkInv, NEW i \in Live
  PROVE  TakenUp(i) \in Nat /\ i \in Nat /\ i < RuleCount
BY LoopFacts DEF TakenUp, WalkInv, LoopInv

\* A rule that is shown nothing and goes on believing the same is backed as before.
LEMMA SightStands ==
  ASSUME NEW i, UNCHANGED <<scene, next_restart>>,
         rules'[i].confirmed = rules[i].confirmed,
         rules'[i].last_obs = rules[i].last_obs, rules'[i].cfg = rules[i].cfg,
         TakenUp(i) \in Nat, TakenUp(i)' \in Nat, TakenUp(i) <= TakenUp(i)',
         \A j \in TakenUp(i) + 1 .. TakenUp(i)' : ~Named(j, i),
         SightBacked(i)
  PROVE  SightBacked(i)'
<1> SUFFICES ASSUME rules[i].confirmed # "unknown"
             PROVE  \E k \in 1 .. TakenUp(i)' :
                      /\ Shows(k, i, rules[i].confirmed) /\ ThisProcess(k)
                      /\ \A j \in k .. TakenUp(i)' :
                           Named(j, i) => \/ scene.samples[j].t = rules[i].last_obs
                                          \/ Resumed(j, i, TakenUp(i)')
  <2>1. /\ \A k, v : Shows(k, i, v)' <=> Shows(k, i, v)
        /\ \A t : TickOf(t)' = TickOf(t)
    BY SceneStands
  <2>2. \A j : (ThisProcess(j)' <=> ThisProcess(j)) /\ (Named(j, i)' <=> Named(j, i))
    BY <2>1 DEF ThisProcess, Named
  <2>3. \A j : Resumed(j, i, TakenUp(i))' <=> Resumed(j, i, TakenUp(i)')
    BY <2>2 DEF Resumed
  <2> QED BY <2>1, <2>2, <2>3 DEF SightBacked
<1>1. PICK k \in 1 .. TakenUp(i) :
        /\ Shows(k, i, rules[i].confirmed) /\ ThisProcess(k)
        /\ \A j \in k .. TakenUp(i) :
             Named(j, i) => \/ scene.samples[j].t = rules[i].last_obs
                            \/ Resumed(j, i, TakenUp(i))
  BY DEF SightBacked
<1>2. k \in 1 .. TakenUp(i)'
  OBVIOUS
<1>3. ASSUME NEW j \in k .. TakenUp(i)', Named(j, i)
      PROVE  scene.samples[j].t = rules[i].last_obs \/ Resumed(j, i, TakenUp(i)')
  <2>1. j \in k .. TakenUp(i)
    BY <1>3
  <2>2. Resumed(j, i, TakenUp(i)) => Resumed(j, i, TakenUp(i)')
    BY DEF Resumed
  <2> QED BY <1>1, <1>3, <2>1, <2>2
<1> QED
  BY <1>1, <1>2, <1>3

\* A start of the watch adds a rule that believes nothing.
LEMMA BootKeepsSight ==
  ASSUME SightInv, Boot, NEW i \in Live'
  PROVE  SightBacked(i)'
<1> DEFINE cfg == scene.rules[rule_count + 1]
<1>1. WalkInv /\ UNCHANGED walk
  BY DEF SightInv, TellInv, Boot
<1>2. AddRuleUnusable(cfg) \/ AddRuleAppend(cfg)
  BY <1>1, BootCall
<1>3. (i \in Live /\ rules'[i] = rules[i]) \/ rules'[i].confirmed = "unknown"
  <2>1. CASE AddRuleUnusable(cfg)
    BY <2>1 DEF AddRuleUnusable, Refuse, watch, Live
  <2>2. CASE AddRuleAppend(cfg)
    <3>1. rule_count \in Slot /\ rules \in [Slot -> Runtime] /\ rule_count \in Nat
      BY <1>1, <2>2, LoopFacts, MaxRulesAssumption
      DEF AddRuleAppend, WalkInv, IInv, TypeOK, Slot
    <3>2. \A n \in Slot : rules'[n] = IF n = rule_count THEN NewRuntime(cfg) ELSE rules[n]
      BY <2>2, <3>1 DEF AddRuleAppend, WriteSlot
    <3>3. i \in Slot /\ ((i \in Live /\ i # rule_count) \/ i = rule_count)
      BY <2>2, <3>1 DEF AddRuleAppend, Live, Slot
    <3>4. NewRuntime(cfg).confirmed = "unknown"
      BY DEF NewRuntime
    <3> HIDE DEF cfg
    <3> QED BY <3>2, <3>3, <3>4
  <2> QED BY <1>2, <2>1, <2>2
<1>4. CASE i \in Live /\ rules'[i] = rules[i]
  <2>1. TakenUp(i)' = TakenUp(i) /\ TakenUp(i) \in Nat
    BY <1>1, <1>4, TakenUpIs DEF TakenUp, walk
  <2>2. \A j \in TakenUp(i) + 1 .. TakenUp(i)' : ~Named(j, i)
    BY <2>1
  <2>3. UNCHANGED <<scene, next_restart>>
    BY <1>1 DEF walk
  <2> QED BY <1>4, <2>1, <2>2, <2>3, SightStands DEF SightInv
<1> QED
  BY <1>3, <1>4 DEF SightBacked

\* The steps that leave the watch alone show no rule anything.
LEMMA QuietKeepsSight ==
  ASSUME SightInv, NEW i \in Live,
         Restarted \/ Unlabelled \/ SampleDone \/ Account \/ Finish \/ UNCHANGED rvars
  PROVE  SightBacked(i)'
<1>1. WalkInv /\ WalkTypeOK
  BY LoopFacts DEF SightInv, TellInv
<1>2. UNCHANGED <<rules, scene, next_restart>>
  BY DEF Restarted, Unlabelled, SampleDone, Account, GetState, Refuse, Finish, rvars, walk,
         vars, watch
<1>3. /\ TakenUp(i) \in Nat /\ i \in Nat /\ next \in Nat /\ rule \in Nat
      /\ RuleCount \in Nat /\ i < RuleCount
  BY <1>1, TakenUpIs, LoopFacts
<1>4. /\ TakenUp(i)' \in Nat /\ TakenUp(i) <= TakenUp(i)'
      /\ \A j \in TakenUp(i) + 1 .. TakenUp(i)' : ~Named(j, i)
  <2>1. CASE SampleDone
    <3>1. rule = RuleCount /\ rule' = 0 /\ next' = next + 1
      BY <2>1 DEF SampleDone
    <3> QED BY <1>3, <3>1 DEF TakenUp
  <2>2. CASE Unlabelled
    <3>1. rule' = rule + 1 /\ next' = next /\ SampleDue /\ rule \notin DOMAIN Sample.label
      BY <2>2 DEF Unlabelled
    <3>2. ~Named(next + 1, rule)
      BY <1>1, <3>1, DueSample DEF Named
    <3>3. CASE i = rule
      <4>1. TakenUp(i) = next /\ TakenUp(i)' = next + 1
        BY <1>3, <3>1, <3>3 DEF TakenUp
      <4> QED BY <1>3, <3>2, <3>3, <4>1
    <3>4. CASE i # rule
      <4>1. TakenUp(i)' = TakenUp(i)
        BY <1>3, <3>1, <3>4 DEF TakenUp
      <4> QED BY <1>3, <4>1
    <3> QED BY <3>3, <3>4
  <2>3. CASE Restarted \/ Account \/ Finish \/ UNCHANGED rvars
    <3>1. rule' = rule /\ next' = next
      BY <2>3 DEF Restarted, Account, Finish, rvars, walk
    <3>2. TakenUp(i)' = TakenUp(i)
      BY <3>1 DEF TakenUp
    <3> QED BY <1>3, <3>2
  <2> QED BY <2>1, <2>2, <2>3
<1> QED
  BY <1>2, <1>3, <1>4, SightStands DEF SightInv

\* A tick makes a rule believe nothing new.
LEMMA TickKeepsSight ==
  ASSUME SightInv, TickStep, NEW i \in Live
  PROVE  SightBacked(i)'
<1>1. WalkInv /\ now \in Int
  BY LoopFacts DEF SightInv, TellInv
<1>2. /\ rules'[i] = Drain(Age(rules[i], now))
      /\ UNCHANGED <<scene, next, rule, next_restart>>
  BY <1>1, Ticked
<1>3. rules[i] \in Runtime /\ RuntimeInv(rules[i]) /\ Usable(rules[i].cfg)
  BY <1>1, LoopFacts
<1>4. /\ rules'[i].confirmed \in {rules[i].confirmed, "unknown"}
      /\ rules'[i].last_obs = rules[i].last_obs /\ rules'[i].cfg = rules[i].cfg
  BY <1>1, <1>2, <1>3, TickedStep
<1>5. TakenUp(i)' = TakenUp(i) /\ TakenUp(i) \in Nat
  BY <1>1, <1>2, TakenUpIs DEF TakenUp
<1>6. \A j \in TakenUp(i) + 1 .. TakenUp(i)' : ~Named(j, i)
  BY <1>5
<1>7. CASE rules'[i].confirmed = rules[i].confirmed
  BY <1>2, <1>4, <1>5, <1>6, <1>7, SightStands DEF SightInv
<1>8. CASE rules'[i].confirmed = "unknown"
  BY <1>8 DEF SightBacked
<1> QED
  BY <1>4, <1>7, <1>8

\* An answer either comes in time after the one before or finds a rule that believes
\* nothing; what the rule believes after it, it believed before or was just shown.
LEMMA DeliverKeepsSight ==
  ASSUME SightInv, Deliver, NEW i \in Live
  PROVE  SightBacked(i)'
<1> DEFINE s == scene.samples[next + 1]
<1>1. WalkInv /\ WalkInv' /\ WalkTypeOK /\ TellInv
  BY DeliverKeepsWalk, LoopFacts DEF SightInv, TellInv
<1>2. /\ pc = "samples" /\ SampleDue
      /\ rule \in Live /\ Live' = Live
      /\ Answer \in Heard /\ ~Stale(rules[rule], Answer)
      /\ next + 1 \in 1 .. Len(scene.samples) /\ s.t \in Int /\ s.t <= now
      /\ rule \in DOMAIN s.label
      /\ Answer.at = s.t /\ Answer.value = s.label[rule]
      /\ \A n \in Live : rules'[n] = IF n = rule THEN Accept(rules[n], Answer) ELSE rules[n]
      /\ rule' = rule + 1
      /\ UNCHANGED <<scene, now, next, next_restart>>
  BY <1>1, Delivered
<1>3. Sample = s
  BY <1>1, <1>2, DueSample
<1> HIDE DEF Answer
<1>4. /\ now \in Int /\ next \in Nat /\ rule \in Nat /\ scene.tick \in Nat \ {0}
      /\ TakenUp(i) \in Nat /\ i \in Nat
  BY <1>1, LoopFacts, SceneFacts, TakenUpIs
<1>5. CASE i # rule
  <2>1. rules'[i] = rules[i]
    BY <1>2, <1>5
  <2>2. TakenUp(i)' = TakenUp(i)
    BY <1>2, <1>4, <1>5 DEF TakenUp
  <2>3. \A j \in TakenUp(i) + 1 .. TakenUp(i)' : ~Named(j, i)
    BY <1>4, <2>2
  <2> QED BY <1>2, <1>4, <2>1, <2>2, <2>3, SightStands DEF SightInv
<1>6. CASE i = rule
  <2> DEFINE r == rules[i]
             e == rules'[i]
  <2>1. /\ r \in Runtime /\ Usable(r.cfg) /\ RuntimeInv(r)
        /\ r.last_obs \in Int /\ r.cfg.max_gap \in Int
    BY <1>1, LoopFacts
  <2>2. e.last_obs = s.t /\ e.cfg = r.cfg /\ e.confirmed \in {r.confirmed, Answer.value}
    <3>1. e = Accept(r, Answer)
      BY <1>2, <1>6
    <3> QED BY <1>2, <1>6, <2>1, <3>1, AcceptedStep
  <2>3. TakenUp(i) = next /\ TakenUp(i)' = next + 1
    BY <1>2, <1>4, <1>6 DEF TakenUp
  <2>4. ThisProcess(next + 1)
    <3>1. s.t > now - scene.tick
      <4>1. next + 1 \in next + 1 .. Len(scene.samples)
        BY <1>2, <1>4
      <4> QED BY <1>1, <4>1 DEF WalkInv, ClockInv
    <3>2. TickOf(s.t) = now
      BY <1>1, <1>2, <1>4, <3>1, TickOfNow DEF TellInv
    <3> SUFFICES ASSUME NEW n \in 1 .. next_restart
                 PROVE  TickOf(scene.restarts[n]) <= TickOf(scene.samples[next + 1].t)
      BY DEF ThisProcess
    <3>3. n \in 1 .. Len(scene.restarts)
      BY <1>1, RestartOrder DEF WalkInv, LoopInv
    <3>4. scene.restarts[n] \in Int /\ scene.restarts[n] <= now
      BY <1>1, <3>3, RestartOrder DEF TellInv, RestartInv
    <3> QED BY <1>1, <1>4, <3>2, <3>4, TickOfNow DEF TellInv
  <2>5. Shows(next + 1, i, Answer.value) /\ Named(next + 1, i)
    BY <1>2, <1>6 DEF Shows, Named
  <2>6. /\ \A k, v : Shows(k, i, v)' <=> Shows(k, i, v)
        /\ \A j : (ThisProcess(j)' <=> ThisProcess(j)) /\ (Named(j, i)' <=> Named(j, i))
        /\ \A j : Resumed(j, i, TakenUp(i))' <=> Resumed(j, i, next + 1)
    <3>1. /\ \A k, v : Shows(k, i, v)' <=> Shows(k, i, v)
          /\ \A t : TickOf(t)' = TickOf(t)
      BY <1>2, SceneStands
    <3>2. \A j : (ThisProcess(j)' <=> ThisProcess(j)) /\ (Named(j, i)' <=> Named(j, i))
      BY <1>2, <3>1 DEF ThisProcess, Named
    <3>3. \A j : Resumed(j, i, TakenUp(i))' <=> Resumed(j, i, next + 1)
      BY <1>2, <2>2, <2>3, <3>2 DEF Resumed
    <3> QED BY <3>1, <3>2, <3>3
  <2> SUFFICES ASSUME e.confirmed # "unknown"
               PROVE  \E k \in 1 .. next + 1 :
                        /\ Shows(k, i, e.confirmed) /\ ThisProcess(k)
                        /\ \A j \in k .. next + 1 :
                             Named(j, i) => s.t = scene.samples[j].t \/ Resumed(j, i, next + 1)
    BY <1>2, <2>2, <2>3, <2>6 DEF SightBacked
  <2> HIDE DEF e
  <2>7. CASE e.confirmed = Answer.value
    <3>1. next + 1 \in 1 .. next + 1 /\ \A j \in next + 1 .. next + 1 : j = next + 1
      BY <1>4
    <3> QED BY <2>4, <2>5, <2>7, <3>1
  <2>8. CASE e.confirmed = r.confirmed
    <3>1. PICK k \in 1 .. next :
            /\ Shows(k, i, r.confirmed) /\ ThisProcess(k)
            /\ \A j \in k .. next :
                 Named(j, i) => scene.samples[j].t = r.last_obs \/ Resumed(j, i, next)
      BY <2>3, <2>8 DEF SightInv, SightBacked
    <3>2. s.t - r.last_obs <= r.cfg.max_gap + scene.tick
      <4>1. r.has_obs
        BY <2>1, <2>8 DEF RuntimeInv, EvidenceBacksBelief
      <4>2. ~Lost(r)
        BY <2>8 DEF Lost
      <4>3. ~ReturnsAfter(r.cfg.max_gap + scene.tick)
        BY <1>1, <1>6, <4>2, OutageTicked DEF LongOutageNoticed
      <4>4. ~(s.t - r.last_obs > r.cfg.max_gap + scene.tick)
        BY <1>2, <1>3, <1>6, <4>1, <4>3 DEF ReturnsAfter
      <4> QED BY <1>2, <1>4, <2>1, <4>4
    <3>3. ASSUME NEW j \in k .. next + 1, Named(j, i)
          PROVE  s.t = scene.samples[j].t \/ Resumed(j, i, next + 1)
      <4>1. CASE j = next + 1
        BY <4>1
      <4>2. CASE j # next + 1
        <5>1. j \in k .. next /\ next + 1 \in j + 1 .. next + 1
          BY <1>4, <3>3, <4>2
        <5>2. CASE scene.samples[j].t = r.last_obs
          BY <2>5, <3>2, <5>1, <5>2 DEF Resumed
        <5>3. CASE Resumed(j, i, next)
          <6>1. \A m \in j + 1 .. next : m \in j + 1 .. next + 1
            BY <1>4
          <6> QED BY <5>3, <6>1 DEF Resumed
        <5> QED BY <3>1, <3>3, <5>1, <5>2, <5>3
      <4> QED BY <4>1, <4>2
    <3>4. k \in 1 .. next + 1
      BY <1>4
    <3> QED BY <2>8, <3>1, <3>3, <3>4
  <2> QED BY <2>2, <2>7, <2>8 DEF e
<1> QED
  BY <1>5, <1>6

\* What a rule believes goes back to the scene, without a gap.
LEMMA SightInvariance == RSpec => []SightInv
<1>1. RInit => SightInv
  <2>1. RInit => Live = {}
    BY DEF RInit, Init, Live, Slot
  <2> QED BY <2>1, InitTellInv DEF SightInv
<1>2. ASSUME SightInv, [RNext]_rvars PROVE SightInv'
  <2>1. TellInv' /\ WalkInv
    BY <1>2, StepTellInv DEF SightInv, TellInv
  <2>2. ASSUME NEW i \in Live' PROVE SightBacked(i)'
    <3>1. CASE Boot
      BY <1>2, <3>1, BootKeepsSight
    <3>2. CASE Restart
      <4>1. Live' = {}
        BY <3>2 DEF Restart, Start, Live, Slot
      <4> QED BY <4>1
    <3>3. CASE Deliver
      <4>1. Live' = Live
        BY <2>1, <3>3, Delivered
      <4> QED BY <1>2, <3>3, <4>1, DeliverKeepsSight
    <3>4. CASE TickStep
      <4>1. Live' = Live
        BY <2>1, <3>4, Ticked
      <4> QED BY <1>2, <3>4, <4>1, TickKeepsSight
    <3>5. CASE Restarted \/ Unlabelled \/ SampleDone \/ Account \/ Finish \/ UNCHANGED rvars
      <4>1. Live' = Live
        BY <3>5 DEF Restarted, Unlabelled, SampleDone, Account, GetState, Refuse, Finish,
                    rvars, vars, watch, Live
      <4> QED BY <1>2, <3>5, <4>1, QuietKeepsSight
    <3> QED BY <1>2, <3>1, <3>2, <3>3, <3>4, <3>5 DEF RNext
  <2> QED BY <2>1, <2>2 DEF SightInv
<1> QED
  BY <1>1, <1>2, PTL DEF RSpec

\* gw_score.c:25, :123: an interval is credited to a rule only where the running
\* process was shown a yes or a no for it and has seen no outage since, with any
\* answers in between, for any scene, ticks and restarts.
THEOREM OutagesAreUnknown == RSpec => OutageIsUnknown
<1>1. ASSUME SightInv, [RNext]_rvars
      PROVE  [ observed' > observed =>
                 \E k \in 1 .. next, v \in {"no", "yes"} :
                   /\ Shows(k, AvailRule, v)
                   /\ ThisProcess(k)
                   /\ InSightSince(k, AvailRule) ]_rvars
  <2> DEFINE r == rules[AvailRule]
  <2> SUFFICES ASSUME RNext, observed' > observed
               PROVE  \E k \in 1 .. next, v \in {"no", "yes"} :
                        Shows(k, AvailRule, v) /\ ThisProcess(k) /\ InSightSince(k, AvailRule)
    BY <1>1
  <2>1. WalkInv /\ observed \in Int
    BY <1>1 DEF SightInv, TellInv, WalkInv, AccountInv, WalkTypeOK
  <2>2. observed' # observed
    BY <2>1
  <2>3. Account /\ StateOf(r, now).confirmed # "unknown"
    BY <2>2 DEF RNext, Boot, Restart, Restarted, Deliver, Unlabelled, SampleDone, TickStep,
                Account, Finish, walk
  <2>4. AvailRule \in Live /\ rule = 0
    <3>1. pc = "account" /\ ~SampleDue
      BY <2>1, <2>3 DEF Account, WalkInv, AccountInv
    <3>2. AvailRule < rule_count /\ rule = 0
      BY <2>1, <3>1 DEF WalkInv, LoopInv
    <3>3. Live = 0 .. rule_count - 1 /\ rule_count \in Nat
      BY <2>1, LoopFacts
    <3> QED BY <3>2, <3>3, AvailRuleAssumption
  <2>5. ~Expired(r, now) /\ r.confirmed # "unknown"
    BY <2>3 DEF StateOf
  <2>6. /\ r.confirmed \in {"no", "yes"}
        /\ ~(now - r.last_obs > r.cfg.max_gap)
    <3>1. r \in Runtime
      BY <2>1, <2>4, LoopFacts
    <3> QED BY <2>5, <3>1 DEF Expired, Runtime, Value
  <2>7. TakenUp(AvailRule) = next
    BY <2>4, AvailRuleAssumption DEF TakenUp
  <2>8. PICK k \in 1 .. next :
          /\ Shows(k, AvailRule, r.confirmed) /\ ThisProcess(k)
          /\ \A j \in k .. next :
               Named(j, AvailRule) => \/ scene.samples[j].t = r.last_obs
                                      \/ Resumed(j, AvailRule, next)
    BY <1>1, <2>4, <2>5, <2>7 DEF SightInv, SightBacked
  <2>9. now \in Int /\ r.last_obs \in Int /\ r.cfg.max_gap \in Int
    BY <2>1, <2>4, LoopFacts
  <2>10. InSightSince(k, AvailRule)
    BY <2>6, <2>8, <2>9 DEF InSightSince, Resumed
  <2> QED BY <2>6, <2>8, <2>10
<1> QED
  BY <1>1, SightInvariance, PTL DEF RSpec, OutageIsUnknown
=============================================================================
