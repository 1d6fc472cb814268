----------------------------- MODULE MCGwTools ------------------------------
(* The parts of the program that share no state and read one input each: one *)
(* of them runs, chosen at the start, and the others stay as they are.       *)
EXTENDS MCGwManifest, MCGwReport, MCReplayCommand, MCGwSentence, MCGwEvent

VARIABLE tool

tvars == <<tool, mvars, gvars, svars, pvars, cvars, evars>>

MCIdsOfTools == MCIds \cup MCRuleNames

NoCommand == Started /\ command = Asked(<<>>, NoFloor, NoFloor)
NoRequest == request = Ask(<<>>) /\ result = Pending /\ frame = <<0, 0>> /\ rect = NoRect
NoEvents ==
  /\ todo = <<>> /\ cap = 0
  /\ buffer = <<>> /\ required = 0 /\ status = "none" /\ sent = <<>>

TInit ==
  /\ tool \in {"manifest", "report", "score", "replay", "sentence", "event"}
  /\ MInit /\ GInit
  /\ IF tool = "replay" THEN PInit ELSE NoCommand
  /\ IF tool = "score"  THEN SInit ELSE NothingToScore
  /\ IF tool = "sentence" THEN CInit ELSE NoRequest
  /\ IF tool = "event"    THEN EInit ELSE NoEvents

TNext ==
  \/ tool = "manifest" /\ MNext /\ UNCHANGED <<tool, gvars, svars, pvars, cvars, evars>>
  \/ tool = "report"   /\ GNext /\ UNCHANGED <<tool, mvars, svars, pvars, cvars, evars>>
  \/ tool = "score"    /\ SNext /\ UNCHANGED <<tool, mvars, gvars, pvars, cvars, evars>>
  \/ tool = "replay"   /\ PNext /\ UNCHANGED <<tool, mvars, gvars, cvars, evars>>
  \/ tool = "sentence" /\ CNext /\ UNCHANGED <<tool, mvars, gvars, svars, pvars, evars>>
  \/ tool = "event"    /\ ENext /\ UNCHANGED <<tool, mvars, gvars, svars, pvars, cvars>>

TSpec == TInit /\ [][TNext]_tvars
=============================================================================
