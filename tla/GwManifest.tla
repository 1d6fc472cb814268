----------------------------- MODULE GwManifest -----------------------------
(***************************************************************************)
(* gw_scene_parse of src/gw_manifest.c: a manifest is read line by line    *)
(* into a scene, and refused at the first line that says something it      *)
(* cannot mean.                                                            *)
(*                                                                         *)
(* A line is its keyword and its tokens' values.  `well' tells whether its *)
(* tokens are what the keyword takes: numbers that are numbers, known      *)
(* words, names that fit.  An optional number is a sequence of none or one.*)
(* Comments and blank lines change nothing and are left out.  Times stand  *)
(* for both the milliseconds of the text and the nanoseconds of the scene, *)
(* small enough for the product to fit.  CompleteBeforeDefault is a bug    *)
(* put in place of Complete, to show that the property notices.            *)
(***************************************************************************)
EXTENDS GwRule, GwScene

CONSTANTS
  Lines,        \* the lines a manifest may have
  MaxRules,     \* GW_MAX_RULES
  MaxTruth,     \* GW_BENCH_MAX_TRUTH
  MaxSamples,   \* GW_BENCH_MAX_SAMPLES
  MaxRestarts,  \* GW_BENCH_MAX_RESTARTS
  DefaultTick   \* 1000 ms

VARIABLES
  pc,           \* reading, accepted or refused
  scene,        \* what `out' holds so far
  saw_version,
  window        \* default_after_ns and default_before_ns

mvars == <<pc, scene, saw_version, window>>

Keywords ==
  { "version", "scene", "camera", "split", "match_window", "tick_ms", "rule",
    "truth", "restart", "sample", "other" }

\* Tokens that are what their keyword takes.
Tokens(l) ==
  /\ l.kw = "match_window" => l.after \in Int /\ l.before \in Seq(Int)
  /\ l.kw = "tick_ms" => l.ms \in Int
  /\ l.kw = "rule" =>
       /\ l.id \in Ids /\ CopyIdStatus(l.id) = "OK"
       /\ l.kind \in {"appeared", "sustained"} /\ l.target \in Value
       /\ l.count \in 0 .. CountMax /\ l.window \in Int /\ l.gap \in Int
       /\ l.sustain \in Seq(Int)
  /\ l.kw = "truth" => l.at \in Int /\ l.after \in Seq(Int)
  /\ l.kw = "restart" => l.at \in Int
  /\ l.kw = "sample" =>
       /\ l.t \in Int
       /\ \A k \in DOMAIN l.labels : l.labels[k].value \in Value

ASSUME LinesAssumption ==
  \A l \in Lines : l.kw \in Keywords /\ l.well \in BOOLEAN /\ (l.well => Tokens(l))
ASSUME LimitsAssumption ==
  {MaxRules, MaxTruth, MaxSamples, MaxRestarts} \subseteq Nat
ASSUME DefaultTickAssumption == DefaultTick \in Nat \ {0}

\* The empty string of a name not yet given.
NoWord == ""

MInit ==
  /\ pc = "reading"
  /\ scene = [ name |-> NoWord, camera |-> NoWord, split |-> "dev", tick |-> 0,
               rules |-> <<>>, truth |-> <<>>, samples |-> <<>>, restarts |-> <<>> ]
  /\ saw_version = FALSE
  /\ window = [before |-> 0, after |-> 0]

-----------------------------------------------------------------------------
\* The rules declared so far under the name id: the place find_rule returns.
Declared(id) == \E i \in DOMAIN scene.rules : scene.rules[i].id = id
IndexOf(id)  == (CHOOSE i \in DOMAIN scene.rules : scene.rules[i].id = id) - 1

\* Whether something at time t may follow the last element of s.
NotBefore(s, Key(_), t) == s # <<>> => Key(s[Len(s)]) <= t

Optional(token, default) == IF token = <<>> THEN default ELSE token[1]

-----------------------------------------------------------------------------
(***************************************************************************)
(* What each keyword asks of its line beyond being well formed.            *)
(***************************************************************************)
MatchWindowMeans(l) == l.after >= 0 /\ Optional(l.before, 0) >= 0

\* A sustained rule takes a duration and an appearance none; whether gw_add_rule
\* accepts the numbers is not asked.
RuleMeans(l) ==
  /\ Len(scene.rules) < MaxRules
  /\ ~Declared(l.id)
  /\ l.target # "unknown"
  /\ l.kind = "sustained" <=> l.sustain # <<>>

TruthMeans(l) ==
  /\ Len(scene.truth) < MaxTruth
  /\ Declared(l.id)
  /\ Optional(l.after, 0) >= 0
  /\ Optional(l.after, window.after) > 0
  /\ NotBefore(scene.truth, LAMBDA event : event.at, l.at)

RestartMeans(l) ==
  /\ Len(scene.restarts) < MaxRestarts
  /\ l.at >= 0
  /\ NotBefore(scene.restarts, LAMBDA restart : restart, l.at)

SampleMeans(l) ==
  /\ scene.rules # <<>>
  /\ Len(scene.samples) < MaxSamples
  /\ NotBefore(scene.samples, LAMBDA sample : sample.t, l.t)
  /\ \A k \in DOMAIN l.labels : Declared(l.labels[k].id)
  /\ \A j, k \in DOMAIN l.labels : l.labels[j].id = l.labels[k].id => j = k

\* A line that can be taken up; `version 1' comes before every other.
Means(l) ==
  /\ l.well
  /\ l.kw = "version" \/ saw_version
  /\ CASE l.kw = "version"                      -> l.n = 1
       [] l.kw \in {"scene", "camera", "split"} -> TRUE
       [] l.kw = "match_window"                 -> MatchWindowMeans(l)
       [] l.kw = "tick_ms"                      -> l.ms > 0
       [] l.kw = "rule"                         -> RuleMeans(l)
       [] l.kw = "truth"                        -> TruthMeans(l)
       [] l.kw = "restart"                      -> RestartMeans(l)
       [] l.kw = "sample"                       -> SampleMeans(l)
       [] OTHER                                 -> FALSE

-----------------------------------------------------------------------------
Line(l, keyword) == pc = "reading" /\ l.kw = keyword /\ Means(l)

Keep(field, value) ==
  /\ scene' = [scene EXCEPT ![field] = value]
  /\ UNCHANGED <<pc, saw_version, window>>

Version(l) ==
  /\ Line(l, "version")
  /\ saw_version' = TRUE
  /\ UNCHANGED <<pc, scene, window>>

\* scene, camera and split each keep one word.
Name(l) ==
  \/ Line(l, "scene")  /\ Keep("name", l.word)
  \/ Line(l, "camera") /\ Keep("camera", l.word)
  \/ Line(l, "split")  /\ Keep("split", l.word)

\* The window of the truth lines below it.
MatchWindow(l) ==
  /\ Line(l, "match_window")
  /\ window' = [before |-> Optional(l.before, 0), after |-> l.after]
  /\ UNCHANGED <<pc, scene, saw_version>>

TickMs(l) == Line(l, "tick_ms") /\ Keep("tick", l.ms)

Rule(l) ==
  /\ Line(l, "rule")
  /\ Keep("rules", Append(scene.rules,
       [ id |-> l.id, kind |-> l.kind, target |-> l.target,
         confirm_count |-> l.count, confirm_window |-> l.window, max_gap |-> l.gap,
         sustain |-> Optional(l.sustain, 0) ]))

Truth(l) ==
  /\ Line(l, "truth")
  /\ Keep("truth", Append(scene.truth,
       [ rule |-> IndexOf(l.id), at |-> l.at, before |-> window.before,
         after |-> Optional(l.after, window.after) ]))

Restart(l) == Line(l, "restart") /\ Keep("restarts", Append(scene.restarts, l.at))

\* The label of a sample line, whose tokens are [id, value] pairs.
Label(l) ==
  [ i \in {IndexOf(l.labels[k].id) : k \in DOMAIN l.labels} |->
      (CHOOSE token \in {l.labels[k] : k \in DOMAIN l.labels} :
         IndexOf(token.id) = i).value ]

Sample(l) ==
  /\ Line(l, "sample")
  /\ Keep("samples", Append(scene.samples, [t |-> l.t, label |-> Label(l)]))

\* Any other line ends the reading: the parser does not skip what it cannot mean.
Refuse(l) ==
  /\ pc = "reading" /\ ~Means(l)
  /\ pc' = "refused"
  /\ UNCHANGED <<scene, saw_version, window>>

Tick == IF scene.tick = 0 THEN DefaultTick ELSE scene.tick

\* Mutant: a coarse tick is refused only if the manifest sets one.
CompleteBeforeDefault ==
  /\ saw_version /\ scene.name # NoWord /\ scene.camera # NoWord
  /\ scene.rules # <<>> /\ scene.samples # <<>>
  /\ \A i \in DOMAIN scene.rules : scene.tick <= scene.rules[i].max_gap

Complete ==
  /\ saw_version /\ scene.name # NoWord /\ scene.camera # NoWord
  /\ scene.rules # <<>> /\ scene.samples # <<>>
  /\ \A i \in DOMAIN scene.rules : Tick <= scene.rules[i].max_gap

\* The end of the text.
End ==
  /\ pc = "reading"
  /\ IF Complete THEN pc' = "accepted" /\ scene' = [scene EXCEPT !.tick = Tick]
                 ELSE pc' = "refused" /\ UNCHANGED scene
  /\ UNCHANGED <<saw_version, window>>

Read(l) ==
  \/ Version(l) \/ Name(l) \/ MatchWindow(l) \/ TickMs(l)
  \/ Rule(l) \/ Truth(l) \/ Restart(l) \/ Sample(l)
  \/ Refuse(l)

MNext == End \/ \E l \in Lines : Read(l)

MSpec == MInit /\ [][MNext]_mvars

-----------------------------------------------------------------------------
\* A scene that is accepted is one the replay and the scoring can rely on,
\* wherever in the manifest its lines stand: samples, restarts and events in
\* time order, a window on every event, one rule to a name, names gw_add_rule
\* has room for, labels and events of declared rules, and a tick, set or
\* default, that no rule's max_gap is shorter than.
AcceptedIsUsable ==
  pc = "accepted" =>
    /\ Replayable(scene, Value)
    /\ Scorable(scene.truth)
    /\ Len(scene.rules) <= MaxRules
    /\ \A i \in DOMAIN scene.rules : CopyIdStatus(scene.rules[i].id) = "OK"
    /\ \A i, j \in DOMAIN scene.rules : scene.rules[i].id = scene.rules[j].id => i = j
    /\ \A k \in DOMAIN scene.truth : scene.truth[k].rule \in 0 .. Len(scene.rules) - 1
=============================================================================
