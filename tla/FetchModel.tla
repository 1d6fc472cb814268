----------------------------- MODULE FetchModel -----------------------------
(***************************************************************************)
(* tools/fetch-model.sh: a pinned model is staged beside its destination,  *)
(* verified, and renamed into place.  Any number of runs of the script for *)
(* the same model name, one per process, share the filesystem; each may be *)
(* killed or fail at any command, and process ids come round again.        *)
(*                                                                         *)
(* Every command that reads or writes a path another run can reach is one  *)
(* step.  The manifest has already been read: what it pins is a content    *)
(* for each of its files, content standing for size and digest together.   *)
(* An rm -rf that is cut short is taken as one that did not begin: what it *)
(* leaves is a directory like any other in the way of the next run.        *)
(*                                                                         *)
(* Definitions marked "Mutant:" are one-line bugs put in place of the      *)
(* operator that follows them, to show that a property notices.            *)
(***************************************************************************)
EXTENDS Naturals

CONSTANTS
  Pids,       \* process ids; one run of the script at a time under each
  N,          \* files in the manifest, the same paths in every revision
  Contents,   \* contents of a file
  Manifests,  \* revisions of the model
  Found,      \* what a user may have at the destination before the first run
  Absent      \* no directory

VARIABLES
  dest,       \* $DEST, the directory the runtime loads
  stage,      \* $DEST.staging.$$, by process
  old,        \* $DEST.old.$$, by process
  pc, manifest, next, bad,       \* the state of each run
  said,       \* how the last run of each process ended
  alone       \* no other run has been under way at any time during this one

fs   == <<dest, stage, old>>
fvars == <<dest, stage, old, pc, manifest, next, bad, said, alone>>

Index   == 1 .. N
Missing == "missing"
Files   == [Index -> Contents \cup {Missing}]

ASSUME NAssumption         == N \in Nat \ {0}
ASSUME ManifestsAssumption == Manifests \subseteq [Index -> Contents]
ASSUME FoundAssumption     == Found \subseteq Files

\* What follows the model's name in the last part of a path: nothing in $DEST,
\* .staging.$$ in $STAGE.
DestName     == <<>>
StageName(p) == <<p>>
Names        == {DestName} \cup {StageName(p) : p \in Pids}

\* A directory: its files, and what was moved inside it under its own name by
\* an mv whose target it turned out to be.  Nothing looks deeper than that.
Dir == [files : Files, inside : SUBSET (Names \X Files)]

ASSUME AbsentAssumption == Absent \notin Dir

Holding(files) == [files |-> files, inside |-> {}]
Empty == Holding([k \in Index |-> Missing])

\* d with content c in its k-th file.
Put(d, k, c) == [d EXCEPT !.files = [@ EXCEPT ![k] = c]]

IsDir(d) == d # Absent

\* What stands under `path' after mv to it of directory d, which is called
\* `name': d itself, or d inside the directory that is already there.
Moved(name, d, path) ==
  IF IsDir(path) THEN [path EXCEPT !.inside = @ \cup {<<name, d.files>>}] ELSE d

\* mv refuses to put a directory where one of the same name is not empty.
Movable(name, d, path) ==
  IsDir(d) /\ (IsDir(path) => \A e \in path.inside : e[1] # name)

Jobs == {"verify", "install", "force"}   \* --verify-only, neither, --force

FInit ==
  /\ dest \in {Absent} \cup {Holding(f) : f \in Found}
  /\ stage = [p \in Pids |-> Absent]
  /\ old   = [p \in Pids |-> Absent]
  /\ pc    = [p \in Pids |-> "idle"]
  /\ manifest \in [Pids -> Manifests]
  /\ next  = [p \in Pids |-> 1]
  /\ bad   = [p \in Pids |-> FALSE]
  /\ said  = [p \in Pids |-> "nothing"]
  /\ alone = [p \in Pids |-> FALSE]

At(p, label)   == pc[p] = label
Goto(p, label) == pc' = [pc EXCEPT ![p] = label]

\* The run ends and its last word is w.
Exit(p, w) ==
  /\ Goto(p, "idle")
  /\ said' = [said EXCEPT ![p] = w]

\* Mutant: the EXIT trap removes the directory set aside as well.
TrapOld(p) ==
  /\ stage' = [stage EXCEPT ![p] = Absent]
  /\ old'   = [old EXCEPT ![p] = Absent]
  /\ UNCHANGED dest

\* The EXIT trap removes the staging directory, once there is one to remove.
Trap(p) ==
  /\ stage' = [stage EXCEPT ![p] = IF pc[p] \in {"checking", "staging"} THEN @ ELSE Absent]
  /\ UNCHANGED <<dest, old>>

Die(p) == Exit(p, "failed") /\ Trap(p)

-----------------------------------------------------------------------------
\* A run starts and looks whether something is installed.
Launch(p) ==
  /\ At(p, "idle")
  /\ \E j \in Jobs, m \in Manifests :
       /\ manifest' = [manifest EXCEPT ![p] = m]
       /\ CASE j = "verify" /\ ~IsDir(dest)  -> Exit(p, "failed")
            [] j # "force"  /\ IsDir(dest)   -> Goto(p, "checking") /\ UNCHANGED said
            [] OTHER                         -> Goto(p, "staging") /\ UNCHANGED said
  /\ next' = [next EXCEPT ![p] = 1]
  /\ bad'  = [bad EXCEPT ![p] = FALSE]
  /\ alone' = [q \in Pids |-> q = p /\ \A r \in Pids \ {p} : At(r, "idle")]
  /\ UNCHANGED fs

Matches(p, dir) == IsDir(dir) /\ dir.files[next[p]] = manifest[p][next[p]]

\* verify_dir reads one file; each is looked up afresh under the path.
CheckFile(p) ==
  /\ At(p, "checking") \/ At(p, "verifying")
  /\ next[p] <= N
  /\ bad'  = [bad EXCEPT ![p] = @ \/ ~Matches(p, IF At(p, "checking") THEN dest ELSE stage[p])]
  /\ next' = [next EXCEPT ![p] = @ + 1]
  /\ UNCHANGED <<fs, pc, manifest, said, alone>>

\* verify_dir of what is installed decides an offline run.
Checked(p) ==
  /\ At(p, "checking") /\ next[p] > N
  /\ IF bad[p] THEN Die(p) ELSE Exit(p, "verified") /\ UNCHANGED fs
  /\ UNCHANGED <<manifest, next, bad, alone>>

MakeStage(p) ==
  /\ At(p, "staging")
  /\ stage' = [stage EXCEPT ![p] = Empty]
  /\ Goto(p, "fetching")
  /\ UNCHANGED <<dest, old, manifest, next, bad, said, alone>>

\* cp or curl; the source has what it has, or has no such file.
Fetch(p) ==
  /\ At(p, "fetching") /\ next[p] <= N
  /\ \/ \E c \in Contents : stage' = [stage EXCEPT ![p] = Put(@, next[p], c)]
        /\ next' = [next EXCEPT ![p] = @ + 1]
        /\ UNCHANGED <<dest, old, pc, said>>
     \/ Die(p) /\ UNCHANGED next
  /\ UNCHANGED <<manifest, bad, alone>>

Fetched(p) ==
  /\ At(p, "fetching") /\ next[p] > N
  /\ Goto(p, "verifying")
  /\ next' = [next EXCEPT ![p] = 1]
  /\ UNCHANGED <<fs, manifest, bad, said, alone>>

\* Mutant: what is staged is published whatever verify_dir says of it.
VerifiedUnread(p) ==
  /\ At(p, "verifying") /\ next[p] > N
  /\ Goto(p, "publishing") /\ UNCHANGED <<fs, said>>
  /\ UNCHANGED <<manifest, next, bad, alone>>

Verified(p) ==
  /\ At(p, "verifying") /\ next[p] > N
  /\ IF bad[p] THEN Die(p) ELSE Goto(p, "publishing") /\ UNCHANGED <<fs, said>>
  /\ UNCHANGED <<manifest, next, bad, alone>>

\* Mutant: an install in the way is not noticed.
LookBlind(p) ==
  /\ At(p, "publishing")
  /\ Goto(p, "installing")
  /\ UNCHANGED <<fs, manifest, next, bad, said, alone>>

\* if [ -d "$DEST" ]
Look(p) ==
  /\ At(p, "publishing")
  /\ Goto(p, IF IsDir(dest) THEN "setting aside" ELSE "installing")
  /\ UNCHANGED <<fs, manifest, next, bad, said, alone>>

\* mv "$DEST" "$OLD"
SetAside(p) ==
  /\ At(p, "setting aside")
  /\ IF Movable(DestName, dest, old[p])
     THEN /\ old'  = [old EXCEPT ![p] = Moved(DestName, dest, @)]
          /\ dest' = Absent
          /\ Goto(p, "replacing")
          /\ UNCHANGED <<stage, said>>
     ELSE Die(p)
  /\ UNCHANGED <<manifest, next, bad, alone>>

\* mv "$STAGE" "$DEST", on both branches.
Publish(p) ==
  /\ At(p, "replacing") \/ At(p, "installing")
  /\ IF Movable(StageName(p), stage[p], dest)
     THEN /\ dest'  = Moved(StageName(p), stage[p], dest)
          /\ stage' = [stage EXCEPT ![p] = Absent]
          /\ IF At(p, "replacing") THEN Goto(p, "cleaning") /\ UNCHANGED said
                                   ELSE Exit(p, "installed")
          /\ UNCHANGED old
     ELSE Die(p)
  /\ UNCHANGED <<manifest, next, bad, alone>>

\* rm -rf "$OLD"
Clean(p) ==
  /\ At(p, "cleaning")
  /\ old' = [old EXCEPT ![p] = Absent]
  /\ Exit(p, "installed")
  /\ UNCHANGED <<dest, stage, manifest, next, bad, alone>>

\* A command fails and set -e ends the run through its trap, or the run is
\* killed and nothing is cleaned up.
Fail(p) ==
  /\ ~At(p, "idle")
  /\ Die(p)
  /\ UNCHANGED <<manifest, next, bad, alone>>

Kill(p) ==
  /\ ~At(p, "idle")
  /\ Exit(p, "killed")
  /\ UNCHANGED <<fs, manifest, next, bad, alone>>

Step(p) ==
  \/ Launch(p)
  \/ CheckFile(p) \/ Checked(p)
  \/ MakeStage(p) \/ Fetch(p) \/ Fetched(p) \/ Verified(p)
  \/ Look(p) \/ SetAside(p) \/ Publish(p) \/ Clean(p)
  \/ Fail(p) \/ Kill(p)

FNext == \E p \in Pids : Step(p)

FSpec == FInit /\ [][FNext]_fvars

-----------------------------------------------------------------------------
Labels ==
  { "idle", "checking", "staging", "fetching", "verifying", "publishing",
    "setting aside", "replacing", "installing", "cleaning" }

Says == {"nothing", "failed", "killed", "verified", "installed"}

FTypeOK ==
  /\ dest \in Dir \cup {Absent}
  /\ stage \in [Pids -> Dir \cup {Absent}]
  /\ old \in [Pids -> Dir \cup {Absent}]
  /\ pc \in [Pids -> Labels]
  /\ manifest \in [Pids -> Manifests]
  /\ next \in [Pids -> 1 .. N + 1]
  /\ bad \in [Pids -> BOOLEAN]
  /\ said \in [Pids -> Says]
  /\ alone \in [Pids -> BOOLEAN]

Whole(files) == files \in Manifests

\* fetch-model.sh:18 "a half-finished install never exists under the final
\* path": what stands at the destination is what the user had there at first,
\* or matches one manifest in every file.
DestComplete ==
  IsDir(dest) => dest.files \in Found \/ Whole(dest.files)

\* README.md:60 "an interrupted setup leaves the previous install or nothing":
\* and when it leaves nothing, the previous install is still whole beside it.
\* Once a whole install exists, at the destination or set aside, one does for
\* ever, however runs are interleaved, failed, killed and repeated.
Kept(d) == IsDir(d) /\ (Whole(d.files) \/ \E e \in d.inside : Whole(e[2]))

SomeKept ==
  \/ IsDir(dest) /\ Whole(dest.files)
  \/ \E p \in Pids : Kept(old[p])

NothingLost == [][SomeKept => SomeKept']_fvars

\* What a run reports is so, as long as no other run was under way: installed
\* or verified means that every file at the destination matches its manifest,
\* whatever earlier runs left behind.
TrueWhenAlone ==
  [][ \A p \in Pids :
        /\ ~At(p, "idle") /\ pc'[p] = "idle"
        /\ said'[p] \in {"installed", "verified"}
        /\ alone[p]
        => IsDir(dest') /\ dest'.files = manifest[p] ]_fvars
=============================================================================
