--------------------------- MODULE AutonomyPolicy ---------------------------
(***************************************************************************)
(* The classifier of the agentic gate (autonomy-policy.ts): the tier of    *)
(* one tool call.  "silent" runs without asking, "ask" waits for the user, *)
(* "deny" never runs.                                                      *)
(*                                                                         *)
(* A call is a record of the features the classifier tests for, each of    *)
(* them a regular expression, a table of words or a path check in the      *)
(* code.  A shell command is the sequence of the commands it joins, each   *)
(* one reduced to the class of its first words.                            *)
(***************************************************************************)
EXTENDS Naturals, Sequences

\* tierRank
Rank == [silent |-> 0, ask |-> 1, deny |-> 2]

\* What the first words of one shell command are, by the tables of the file.
LocalWord == {"env builtin", "git add or commit", "git read", "gh read", "gog read",
              "gog draft", "notion read", "read-only verb"}
OutwardWord == {"git push or merge", "git reset --hard", "git other", "gh other",
                "gog other", "notion other", "network", "mutation", "publish",
                "runs code", "unlisted"}

----------------------------------------------------------------------------
(* Edits: the target counts as inside only when its text and its resolved  *)
(* links both say so.  A mount that does not exist leaves only the text.   *)

InsideMount(path) ==
  /\ path.given
  /\ path.textInside
  /\ path.mountMissing \/ (path.resolves /\ path.realInside)

ClassifyEdit(call) == IF InsideMount(call.path) THEN "silent" ELSE "ask"

----------------------------------------------------------------------------
(* Shell commands                                                          *)

ClassifySingle(word) == IF word \in LocalWord THEN "silent" ELSE "ask"

\* Faulty variant: the last part decides.
LastPart(words) == ClassifySingle(words[Len(words)])

\* A command of several parts is as strict as its strictest part.
Strictest(words) ==
  LET tiers == {ClassifySingle(words[k]) : k \in DOMAIN words}
  IN CHOOSE tier \in tiers : \A other \in tiers : Rank[other] <= Rank[tier]

ClassifyBash(call) ==
  IF call.words = <<>> THEN "ask"
  ELSE IF call.destructive THEN "deny"
  ELSE IF call.unprovable THEN "ask"
  ELSE Strictest(call.words)

----------------------------------------------------------------------------
(* Tools of MCP servers, by the shape of their names                       *)

ClassifyBrowser(call) ==
  CASE call.shape = "navigate" -> IF call.publicUrl THEN "silent" ELSE "ask"
    [] call.shape = "capture" ->
         IF ~call.path.given \/ InsideMount(call.path) THEN "silent" ELSE "ask"
    [] call.shape = "inspect" -> "silent"
    [] OTHER -> "ask"   \* acts on the page, opens tabs, or is not known

ClassifyMcp(call) ==
  IF call.shape = "draft" THEN "silent"
  ELSE IF call.browser THEN ClassifyBrowser(call)
  ELSE IF call.shape = "read" THEN "silent" ELSE "ask"

\* What is not known, a subagent among it, is asked about.
Classify(call) ==
  CASE call.tool = "read-only" -> "silent"
    [] call.tool = "edit" -> ClassifyEdit(call)
    [] call.tool = "bash" -> ClassifyBash(call)
    [] call.tool = "mcp" -> ClassifyMcp(call)
    [] OTHER -> "ask"
=============================================================================
