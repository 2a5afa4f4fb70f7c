---------------------------- MODULE VendorGates ----------------------------
(***************************************************************************)
(* The pure decisions of the adapters.  Before a spawn: which binary of a  *)
(* vendor is started, with which environment, and whether its version is   *)
(* acceptable (resolveVendorCli, matchesVersionConstraint and the drivers' *)
(* own resolve...BinaryPath, defaultEnv and mergeCallerEnv).  Of a tool    *)
(* call: validatePathInWorktree and validateShellCommand of the base       *)
(* package and the permission handlers of the vendors, which choose        *)
(* between the two by the tool's name.  A state holds one question; the    *)
(* invariants answer it by a reference.                                    *)
(***************************************************************************)
EXTENDS Integers, Sequences, SequencesExt

CONSTANTS
    MaxNumber,  \* bound: the numbers of a version are 0..MaxNumber
    MaxPath,    \* bound: segments of a path that is asked about
    MaxTokens   \* bound: tokens of a command that is asked about

ASSUME GatesBounds == MaxNumber \in Nat /\ MaxPath \in Nat /\ MaxTokens \in Nat

VARIABLES askedCli, askedVersion, askedEnv

inputVars == <<askedCli, askedVersion, askedEnv>>

-----------------------------------------------------------------------------
(* Which binary.  A configured path is unset, or set and there or missing. *)

Given == {"unset", "missing", "there"}

CliQuestion ==
    [binaries : BOOLEAN,  \* FALSE: a descriptor without a binary, as echo's
     explicit : Given, env : Given, config : Given,
     candidates : [1..2 -> {"missing", "there"}],
     lastChance : {"absent", "null", "missing", "there", "throws"},
     version : {"unprobed", "accepted", "refused"}]

NoPath == "VendorCliNotFoundError"
BadVersion == "VendorCliVersionMismatchError"

\* verifyVersion: no probe, no runner, or a runner that throws, skip the check.
verifyVersion(q, source) == IF q.version = "refused" THEN BadVersion ELSE source

\* One of the three configured sources, where set: it decides, or the search ends.
Configured(q, given, source) ==
    IF given = "there" THEN verifyVersion(q, source) ELSE NoPath

\* The descriptor's candidates in their order; pathLookup is the last of them.
FirstCandidate(q) == SelectInSeq(q.candidates, LAMBDA c : c = "there")

\* lastChance: a throw, null and a missing path all end in the error, and so does a
\* version that is refused, since verifyVersion throws within the same try.
LastChance(q) ==
    IF q.lastChance = "there" /\ verifyVersion(q, "lastChance") # BadVersion THEN "lastChance" ELSE NoPath

resolveVendorCli(q) ==
    CASE ~q.binaries -> "unused"
      [] q.binaries /\ q.explicit # "unset" -> Configured(q, q.explicit, "explicit")
      [] q.binaries /\ q.explicit = "unset" /\ q.env # "unset" -> Configured(q, q.env, "env")
      [] OTHER -> IF q.config # "unset" THEN Configured(q, q.config, "config")
                  ELSE IF FirstCandidate(q) # 0
                         THEN verifyVersion(q, IF FirstCandidate(q) = 2 THEN "pathLookup" ELSE "candidate")
                         ELSE LastChance(q)

\* The drivers' own search, which has no config and no version.
DriverResolve(explicit, env, found) ==
    CASE explicit # "unset" -> IF explicit = "there" THEN "explicit" ELSE "SpawnError"
      [] explicit = "unset" /\ env # "unset" -> IF env = "there" THEN "env" ELSE "SpawnError"
      [] OTHER -> IF found THEN "found" ELSE "SpawnError"

\* found: whether Bun.which or a directory of PATH, for Cursor the default path, has it.
resolveGeminiBinaryPath(q) == DriverResolve(q.explicit, q.env, q.candidates[2] = "there")
resolveCursorBinaryPath(q) == DriverResolve(q.explicit, q.env, q.candidates[1] = "there")
resolvePiBinaryPath(q) == DriverResolve(q.explicit, q.env, q.candidates[2] = "there")
resolveAmpBinaryPath(q) == DriverResolve(q.explicit, q.env, q.candidates[2] = "there")

\* Codex takes a configured path as it is, else the key of its environment.
resolveCodexAuth(q) ==
    IF q.explicit # "unset" THEN "cli" ELSE IF q.env # "unset" THEN "api-key" ELSE "CodexAuthMissingError"

-----------------------------------------------------------------------------
(* Which version.  A version is three numbers; a text without them is none. *)

Version == [1..3 -> 0..MaxNumber]
NoVersion == <<>>
Operators == {">=", "<=", ">", "<", "=", "^", "~", ""}
VersionQuestion ==
    [version : Version \cup {NoVersion}, operator : Operators, base : Version \cup {NoVersion}]

\* The first number in which the two differ.
FirstDifference(v, w) == SelectInSeq([i \in 1..3 |-> v[i] # w[i]], LAMBDA d : d)

\* compareSemver: 0 too where one of the two cannot be read.
compareSemver(v, w) ==
    IF v = NoVersion \/ w = NoVersion \/ FirstDifference(v, w) = 0 THEN 0
    ELSE v[FirstDifference(v, w)] - w[FirstDifference(v, w)]

Between(v, low, high) == compareSemver(v, low) >= 0 /\ compareSemver(v, high) < 0

\* Mutant: ^0.y.z as wide as ^x.y.z.
CaretWide(v, base) == Between(v, base, <<base[1] + 1, 0, 0>>)

Caret(v, base) ==
    CASE base[1] # 0 -> Between(v, base, <<base[1] + 1, 0, 0>>)
      [] base[1] = 0 /\ base[2] # 0 -> Between(v, base, <<0, base[2] + 1, 0>>)
      [] OTHER -> compareSemver(v, base) = 0

Tilde(v, base) == Between(v, base, <<base[1], base[2] + 1, 0>>)

matchesSingleRange(v, operator, base) ==
    /\ v # NoVersion
    /\ CASE operator = ">=" -> compareSemver(v, base) >= 0
         [] operator = "<=" -> compareSemver(v, base) <= 0
         [] operator = ">" -> compareSemver(v, base) > 0
         [] operator = "<" -> compareSemver(v, base) < 0
         [] operator = "=" -> compareSemver(v, base) = 0
         [] operator = "^" -> base # NoVersion /\ Caret(v, base)
         [] operator = "~" -> base # NoVersion /\ Tilde(v, base)
         [] operator = "" -> base # NoVersion /\ compareSemver(v, base) = 0

\* Every part of the constraint must match.
matchesVersionConstraint(v, parts) ==
    v # NoVersion /\ \A k \in DOMAIN parts : matchesSingleRange(v, parts[k].operator, parts[k].base)

-----------------------------------------------------------------------------
(* Which environment.  Of one key and one vendor: whether the daemon's     *)
(* environment has the key and what vendorOpts.env and SpawnOpts.env say.  *)

GeminiKeys == {"PATH", "HOME", "LANG", "USER", "XDG_CONFIG_HOME", "XDG_CACHE_HOME"}
CursorKeys == GeminiKeys
ProviderKeys == {"ANTHROPIC_API_KEY", "OPENAI_API_KEY", "GOOGLE_AI_API_KEY", "GEMINI_API_KEY", "GROQ_API_KEY",
                 "CEREBRAS_API_KEY"}
PiKeys == GeminiKeys \cup {"XDG_DATA_HOME"} \cup ProviderKeys
AmpKeys == GeminiKeys \cup {"AMP_API_KEY"}
ClaudeKeys == {"PATH", "HOME", "LANG", "USER"}
LOOSE_ENV_ALLOWLIST == {"PATH", "HOME", "LANG", "USER"}

\* The keys whose value in the daemon's environment a vendor passes on.
Passed ==
    [gemini |-> GeminiKeys, cursor |-> CursorKeys, pi |-> PiKeys, amp |-> AmpKeys,
     claude |-> ClaudeKeys, codex |-> PiKeys \cup AmpKeys]

EnvQuestion ==
    [agent : DOMAIN Passed, key : PiKeys \cup AmpKeys, ambient : BOOLEAN,
     vendor : {"unset", "set"}, spawn : {"unset", "empty", "set"}, apiKey : BOOLEAN]

Ambient(q, keys) == IF q.ambient /\ q.key \in keys THEN "ambient" ELSE "unset"

\* mergeCallerEnv: an empty value deletes what the vendor options said.
mergeCallerEnv(q) ==
    CASE q.spawn = "set" -> "spawn"
      [] q.spawn = "empty" -> "unset"
      [] q.spawn = "unset" /\ q.vendor = "set" -> "vendor"
      [] OTHER -> "unset"

\* defaultEnv: the daemon's value of an allowed key, under the merged one.
defaultEnv(q) == IF mergeCallerEnv(q) # "unset" THEN mergeCallerEnv(q) ELSE Ambient(q, Passed[q.agent])

\* Amp's: the apiKey of the options over all.
ampEnv(q) == IF q.apiKey /\ q.key = "AMP_API_KEY" THEN "option" ELSE defaultEnv(q)

\* Claude and Codex merge SpawnOpts.env over the daemon's keys: empty deletes those too.
OverlaidEnv(q) ==
    CASE q.spawn = "set" -> "spawn"
      [] q.spawn = "empty" -> "unset"
      [] OTHER -> Ambient(q, Passed[q.agent])

\* What a vendor's process sees.
EnvOf(q) ==
    CASE q.agent \in {"claude", "codex"} -> OverlaidEnv(q)
      [] q.agent = "amp" -> ampEnv(q)
      [] OTHER -> defaultEnv(q)

\* resolveEnv of the base package: in loose mode its list, under what is supplied, empty or not.
resolveEnv(q, mode) ==
    IF q.spawn # "unset" THEN "spawn" ELSE Ambient(q, IF mode = "loose" THEN LOOSE_ENV_ALLOWLIST ELSE {})

-----------------------------------------------------------------------------

InputInit == askedCli = <<>> /\ askedVersion = <<>> /\ askedEnv = <<>>

AskCli == askedCli = <<>> /\ askedCli' \in CliQuestion /\ UNCHANGED <<askedVersion, askedEnv>>
AskVersion == askedVersion = <<>> /\ askedVersion' \in VersionQuestion /\ UNCHANGED <<askedCli, askedEnv>>
AskEnv == askedEnv = <<>> /\ askedEnv' \in EnvQuestion /\ UNCHANGED <<askedCli, askedVersion>>

InputNext == InputInit /\ (AskCli \/ AskVersion \/ AskEnv)

InputSpec == InputInit /\ [][InputNext]_inputVars

\* The sources by precedence, with what each says.
Sources(q) ==
    <<q.explicit, q.env, q.config,
      IF q.candidates[1] = "there" THEN "there" ELSE "unset",
      IF q.candidates[2] = "there" THEN "there" ELSE "unset",
      IF q.lastChance = "there" THEN "there" ELSE "unset">>

\* The binary is that of the first source that says anything, and only if it exists
\* and its version is accepted.  A refused version is reported as one, except that of
\* lastChance, whose error is caught and reported as a binary that is not found.  Where
\* only the command line and the environment are set, the resolver and every driver
\* agree, and Codex takes the same path.
CliOfFirstSource ==
    askedCli # <<>> /\ askedCli.binaries =>
        LET first == SelectInSeq(Sources(askedCli), LAMBDA s : s # "unset")
            answer == resolveVendorCli(askedCli)
            found == first # 0 /\ Sources(askedCli)[first] = "there"
            refused == found /\ askedCli.version = "refused"
        IN /\ (answer = NoPath) = (~found \/ (refused /\ first = 6))
           /\ (answer = BadVersion) = (refused /\ first # 6)
           /\ askedCli.explicit # "unset" \/ askedCli.env # "unset" =>
                \A driver \in {resolveGeminiBinaryPath(askedCli), resolveCursorBinaryPath(askedCli),
                               resolvePiBinaryPath(askedCli), resolveAmpBinaryPath(askedCli)} :
                    (driver = "SpawnError") = ~found
           /\ resolveCodexAuth(askedCli) = "cli" /\ found => answer \in {"explicit", BadVersion}

\* The place of the first number that is not zero, which ^ must keep.
Leading(base) == IF base[1] # 0 THEN 1 ELSE IF base[2] # 0 THEN 2 ELSE 3

Same(v, base, k) == \A i \in 1..k : v[i] = base[i]

\* ^ keeps the numbers up to the first that is not zero, ~ the first two; both, and
\* the comparisons, order by the first number that differs.
RangesMeanSemver ==
    askedVersion # <<>> /\ askedVersion.version # NoVersion /\ askedVersion.base # NoVersion =>
        LET v == askedVersion.version
            b == askedVersion.base
            least == v = b \/ \E i \in 1..3 : v[i] > b[i] /\ \A j \in 1..(i - 1) : v[j] = b[j]
        IN /\ matchesSingleRange(v, "^", b) = (least /\ Same(v, b, Leading(b)))
           /\ matchesSingleRange(v, "~", b) = (least /\ Same(v, b, 2))
           /\ matchesSingleRange(v, ">=", b) = least
           /\ matchesVersionConstraint(v, <<[operator |-> ">=", base |-> b], [operator |-> "<=", base |-> b]>>) = (v = b)

\* What the caller sets reaches the process whatever the vendor, unless Amp's apiKey is
\* over it; what the caller empties never comes from the vendor's options (it may still
\* come from the daemon's own environment: see the README); and a provider's key in the
\* daemon's environment reaches only pi, and Codex, which inherits everything.
EnvFromCaller ==
    askedEnv # <<>> =>
        LET result == EnvOf(askedEnv)
        IN /\ askedEnv.spawn = "set" => result \in {"spawn", "option"}
           /\ result = "option" => askedEnv.agent = "amp"
           /\ askedEnv.spawn = "empty" => result \notin {"vendor", "spawn"}
           /\ askedEnv.key \in ProviderKeys /\ result = "ambient" => askedEnv.agent \in {"pi", "codex"}
           /\ \A mode \in {"loose", "strict"} :
                resolveEnv(askedEnv, mode) = "ambient" => mode = "loose" /\ askedEnv.key \notin ProviderKeys

InputsSound == CliOfFirstSource /\ RangesMeanSemver /\ EnvFromCaller

-----------------------------------------------------------------------------
(* What a tool call must pass.                                             *)

\* A fold from the left, by the lengths of the prefixes: a recursive function can be
\* unfolded in a proof.
Folded(op(_, _), base, seq) ==
    LET upTo[n \in 0..Len(seq)] == IF n = 0 THEN base ELSE op(upTo[n - 1], seq[n])
    IN upTo[Len(seq)]

VARIABLES askedPath, askedCommand, askedTool

gateVars == <<askedPath, askedCommand, askedTool>>

-----------------------------------------------------------------------------
(* Paths are sequences of names from the root of the file system.  A link  *)
(* is replaced by its whole target, which is followed to its end; a link   *)
(* dangles if its target does not exist.                                   *)

CONSTANTS
    Names,        \* names a path is made of, ".." one of them
    Directories,  \* the paths that exist and have no link on them
    Links,        \* the target of each symbolic link
    Roots         \* worktree roots a handler may be given, links to one among them

ASSUME FileSystem ==
    /\ <<>> \in Directories /\ Directories \subseteq Seq(Names)
    /\ \A d \in Directories \ {<<>>} : Front(d) \in Directories
    /\ \A l \in DOMAIN Links : /\ l \in Seq(Names) \ {<<>>} /\ Front(l) \in Directories
                              /\ l \notin Directories /\ Links[l] \in Seq(Names) \ DOMAIN Links
    /\ Roots \subseteq Seq(Names)

PathQuestion == [root : Roots, absolute : BOOLEAN, path : UNION {[1..n -> Names] : n \in 0..MaxPath}]

\* path.resolve: each name in turn, .. by text alone.
Step(base, name) ==
    IF name # ".." THEN Append(base, name) ELSE IF base = <<>> THEN base ELSE Front(base)
Resolve(base, path) == Folded(Step, base, path)

\* realpath of a path that exists: the name that is a link is replaced by its target.
Follow(base, name) ==
    LET p == Append(base, name) IN IF p \in DOMAIN Links THEN Links[p] ELSE p
RealPath(path) == Folded(Follow, <<>>, path)

Exists(path) == RealPath(path) \in Directories

\* The longest ancestor that exists is resolved, what does not exist is appended.
realpathOfDeepestExistingAncestor(path) ==
    LET cut == CHOOSE n \in 0..Len(path) :
                 /\ Exists(SubSeq(path, 1, n))
                 /\ \A k \in (n + 1)..Len(path) : ~Exists(SubSeq(path, 1, k))
    IN RealPath(SubSeq(path, 1, cut)) \o SubSeq(path, cut + 1, Len(path))

isUnder(root, path) == IsPrefix(root, path)

\* The root is compared as its real path, where it exists.
resolvedRoot(root) == IF Exists(root) THEN RealPath(root) ELSE Resolve(<<>>, root)

\* A relative candidate starts in the root, an absolute one is taken as it is written.
preResolved(q) == Resolve(IF q.absolute THEN <<>> ELSE resolvedRoot(q.root), q.path)

\* The two checks, before and after links are followed.
validatePathInWorktree(q) ==
    LET root == resolvedRoot(q.root)
    IN CASE q.path = <<>> -> "not_under_worktree"
         [] q.path # <<>> /\ ~isUnder(root, preResolved(q)) ->
              IF q.absolute THEN "absolute_outside_worktree" ELSE "parent_traversal_escapes_worktree"
         [] OTHER -> IF isUnder(root, realpathOfDeepestExistingAncestor(preResolved(q))) THEN "ok"
                     ELSE "symlink_escapes_worktree"

-----------------------------------------------------------------------------
(* Commands are sequences of tokens: words by what the gate tells apart,   *)
(* and the operators of shell-quote, of which ( stands for ) too and > for  *)
(* every redirection.  A newline is white space to it and leaves no token.  *)

Separators == {";", "&"}          \* and && and ||
\* "sub": a word with a backtick or $(; "dollar": one that ends in $.
Words == {"ls", "rm", "sh", "eval", "-c", "sub", "dollar"}
\* What ends a stage; |& and ;; do not, they stay inside it.
Breaks == Separators \cup {"|"}
CommandTokens == Words \cup Breaks \cup {"|&", ";;", "(", ">", ">("}
CommandQuestion == UNION {[1..n -> CommandTokens] : n \in 0..MaxTokens}
ShellBinaries == {"sh", "eval"}
Policies ==
    [allow : {{}, {"ls", "sh"}}, deny : {{}, {"rm"}}, pipeToShell : BOOLEAN,
     commandSubstitution : BOOLEAN, processSubstitution : BOOLEAN]

\* A stage without a token and a segment without a stage are dropped.
PushStage(acc) ==
    IF acc.stage = <<>> THEN acc
    ELSE [acc EXCEPT !.segment = Append(@, acc.stage), !.stage = <<>>]
PushSegment(acc) ==
    LET pushed == PushStage(acc)
    IN IF pushed.segment = <<>> THEN pushed
       ELSE [pushed EXCEPT !.segments = Append(@, pushed.segment), !.segment = <<>>]
TakeToken(acc, token) ==
    CASE token \in Separators -> PushSegment(acc)
      [] token = "|" -> PushStage(acc)
      [] OTHER -> [acc EXCEPT !.stage = Append(@, token)]

NothingTaken == [segments |-> <<>>, segment |-> <<>>, stage |-> <<>>]
splitSegments(tokens) == PushSegment(Folded(TakeToken, NothingTaken, tokens)).segments

\* $( and >( may come as one token or as two.
detectSubstitutionViolation(tokens, policy) ==
    \E i \in DOMAIN tokens :
        LET opens == i < Len(tokens) /\ tokens[i + 1] = "("
        IN \/ (tokens[i] = "sub" \/ (tokens[i] = "dollar" /\ opens)) /\ ~policy.commandSubstitution
           \/ (tokens[i] = ">(" \/ (tokens[i] = ">" /\ opens)) /\ ~policy.processSubstitution

\* The first word of a stage, be it the target of a redirection that stands before it.
headOfStage(stage) ==
    LET k == SelectInSeq(stage, LAMBDA t : t \in Words) IN IF k = 0 THEN "none" ELSE stage[k]

\* One stage, the n-th of its segment.
RefusesStage(stage, n, policy) ==
    LET head == headOfStage(stage)
    IN \/ head = "none"
       \/ n > 1 /\ head \in ShellBinaries /\ ~policy.pipeToShell
       \/ head \in policy.deny
       \/ head = "eval" /\ ~policy.pipeToShell
       \/ head \in ShellBinaries /\ (\E k \in DOMAIN stage : stage[k] = "-c") /\ ~policy.pipeToShell
       \/ policy.allow # {} /\ head \notin policy.allow

\* Mutant: only the first stage of a pipeline is looked at.
checkPolicyFirst(segments, policy) ==
    \A s \in DOMAIN segments : ~RefusesStage(segments[s][1], 1, policy)

checkPolicy(segments, policy) ==
    \A s \in DOMAIN segments : \A n \in DOMAIN segments[s] : ~RefusesStage(segments[s][n], n, policy)

validateShellCommand(tokens, policy) ==
    /\ tokens # <<>>
    /\ ~detectSubstitutionViolation(tokens, policy)
    /\ checkPolicy(splitSegments(tokens), policy)

-----------------------------------------------------------------------------
(* Tool calls: a vendor's dictionary puts the name to one of the gates or   *)
(* to none.  Of the command under each key the gate accepts it, refuses it  *)
(* or it is absent; a path under each key is inside, outside or absent.     *)

\* cmd stands for cmd and script; path for path, filename, target and destination;
\* abs_path for it and absolutePath; files, a list, for files, paths, patches and
\* Codex's changes, outside if one of them is.
ToolNames ==
    {"Bash", "sh", "terminal", "run_shell_command", "Write", "Read", "rename", "write_file", "edit_file",
     "create_file", "replace_in_file", "WriteFile", "NotebookEdit", "Grep", "command_execution", "file_change"}
OfCommand == {"absent", "accepted", "refused"}
OfPath == {"absent", "inside", "outside"}
ToolQuestion ==
    [name : ToolNames, command : OfCommand, cmd : OfCommand, file_path : OfPath, path : OfPath,
     abs_path : OfPath, notebook_path : OfPath, files : OfPath]

toLowerCase(name) ==
    CASE name = "Bash" -> "bash" [] name = "Write" -> "write" [] name = "Read" -> "read"
      [] name = "WriteFile" -> "writefile" [] name = "NotebookEdit" -> "notebookedit"
      [] name = "Grep" -> "grep" [] OTHER -> name

\* What the dictionaries of the five vendors that match by lower case have in common.
SharedShell == {"bash", "shell", "run", "exec", "sh"}
SharedPath == {"write", "edit", "read", "create", "delete", "patch", "apply_patch", "update", "rename"}

SHELL_TOOL_NAMES ==
    [gemini |-> SharedShell \cup {"terminal", "run_shell_command"},
     cursor |-> SharedShell \cup {"terminal"},
     pi |-> SharedShell \cup {"terminal"},
     amp |-> SharedShell \cup {"terminal"},
     opencode |-> SharedShell]

PATH_TOOL_NAMES ==
    [gemini |-> SharedPath \cup {"write_file", "edit_file", "read_file", "replaceinfile", "replace_in_file"},
     cursor |-> SharedPath \cup {"write_file", "edit_file", "read_file"},
     pi |-> SharedPath \cup {"write_file", "edit_file", "read_file"},
     amp |-> SharedPath \cup {"create_file", "edit_file"},
     opencode |-> SharedPath]

\* gatherPaths of the five: all but Amp and OpenCode read the absolute keys.
PathKeys ==
    [v \in DOMAIN PATH_TOOL_NAMES |->
        {"file_path", "path", "files"} \cup IF v \in {"amp", "opencode"} THEN {} ELSE {"abs_path"}]

\* A missing command is the empty one, which the gate refuses.
ByShell(command) == IF command = "accepted" THEN "allowed" ELSE "denied"
ByPath(q, keys) == IF \E k \in keys : q[k] = "outside" THEN "denied" ELSE "allowed"

\* pickString: the first key that has one.
Command(q) == IF q.command # "absent" THEN q.command ELSE q.cmd

Decide(q, v, otherwise) ==
    CASE toLowerCase(q.name) \in SHELL_TOOL_NAMES[v] -> ByShell(Command(q))
      [] toLowerCase(q.name) \in PATH_TOOL_NAMES[v] -> ByPath(q, PathKeys[v])
      [] OTHER -> otherwise

decideGeminiPermission(q) == Decide(q, "gemini", "unknown")
decideCursorPermission(q) == Decide(q, "cursor", "unknown")
decidePiPermission(q) == Decide(q, "pi", "null")
decideAmpPermission(q) == Decide(q, "amp", "null")
decideOpencodePermission(q) == Decide(q, "opencode", "null")

\* Claude's names are matched as they are written, and each has one field at most.
PathFieldsFor(name) ==
    CASE name \in {"Read", "Edit", "Write", "MultiEdit"} -> {"file_path"}
      [] name = "NotebookEdit" -> {"notebook_path"}
      [] name \in {"Grep", "Glob"} -> {"path"}
      [] OTHER -> {}
createPermissionHandler(q) == IF q.name = "Bash" THEN ByShell(q.command) ELSE ByPath(q, PathFieldsFor(q.name))

\* Codex's items have a type, not a name.
decideCodexPermission(q) ==
    CASE q.name = "command_execution" -> ByShell(q.command)
      [] q.name = "file_change" -> ByPath(q, {"files"})
      [] OTHER -> "null"

\* ACP's answer to the agent: the first offered option of the intent, else cancelled.
Options == {"allow_once", "allow_always", "reject_once", "reject_always"}
PickDecision(intent, offered) ==
    LET order == IF intent = "allow" THEN <<"allow_once", "allow_always">> ELSE <<"reject_once", "reject_always">>
        k == SelectInSeq(order, LAMBDA o : o \in offered)
    IN IF k = 0 THEN "cancelled" ELSE order[k]

GeminiAnswer(q, offered) ==
    PickDecision(IF decideGeminiPermission(q) = "denied" THEN "deny" ELSE "allow", offered)
CursorAnswer(q, offered) ==
    PickDecision(IF decideCursorPermission(q) = "denied" THEN "deny" ELSE "allow", offered)

-----------------------------------------------------------------------------

GateInit == askedPath = <<>> /\ askedCommand = <<>> /\ askedTool = <<>>

AskPath == askedPath' \in PathQuestion /\ UNCHANGED <<askedCommand, askedTool>>
AskCommand ==
    /\ \E tokens \in CommandQuestion, policy \in Policies :
         askedCommand' = [tokens |-> tokens, policy |-> policy]
    /\ UNCHANGED <<askedPath, askedTool>>
AskTool == askedTool' \in ToolQuestion /\ UNCHANGED <<askedPath, askedCommand>>

GateNext == GateInit /\ (AskPath \/ AskCommand \/ AskTool)

GateSpec == GateInit /\ [][GateNext]_gateVars

\* A link without a target is met on the path.
Dangles(path) ==
    \E n \in 1..Len(path) :
        LET p == Append(RealPath(SubSeq(path, 1, n - 1)), path[n])
        IN p \in DOMAIN Links /\ Links[p] \notin Directories

\* A path on which no link dangles is accepted exactly if it stays in the real worktree
\* both as it is written and when every link on it is followed, whether or not its last
\* names exist; so one that names the worktree by another link to it is refused if it is
\* absolute.  Over a link that dangles only the text is promised to stay inside:
\* existsSync does not see such a link, and it may point out of the worktree.
PathsStayInside ==
    askedPath # <<>> =>
        LET root == resolvedRoot(askedPath.root)
            pre == preResolved(askedPath)
            ok == validatePathInWorktree(askedPath) = "ok"
        IN /\ ~Dangles(pre) => ok = (askedPath.path # <<>> /\ IsPrefix(root, pre) /\ IsPrefix(root, RealPath(pre)))
           /\ ok => askedPath.path # <<>> /\ IsPrefix(root, pre)

\* In an accepted line every command that stands directly at the start of the line or
\* behind ;, &, && , || or | is one the policy permits; a shell is fed by a pipe or given
\* -c only if the policy says so.  Nothing is promised of what stands behind a newline,
\* |&, ;; or an opening parenthesis, nor of a command written after its redirection: the
\* gate reads these as arguments, or takes the redirection's target for the command.
CommandsPermitted ==
    askedCommand # <<>> /\ validateShellCommand(askedCommand.tokens, askedCommand.policy) =>
        LET tokens == askedCommand.tokens
            policy == askedCommand.policy
        IN \A i \in DOMAIN tokens :
             tokens[i] \in Words /\ (i = 1 \/ tokens[i - 1] \in Breaks) =>
                /\ tokens[i] \notin policy.deny
                /\ policy.allow = {} \/ tokens[i] \in policy.allow
                /\ tokens[i] = "eval" => policy.pipeToShell
                /\ tokens[i] = "sh" /\ i > 2 /\ tokens[i - 1] = "|" /\ tokens[i - 2] \notin Breaks =>
                     policy.pipeToShell
                /\ tokens[i] = "sh" /\ i < Len(tokens) /\ tokens[i + 1] = "-c" => policy.pipeToShell

\* The dictionaries are copies that were extended one by one: what OpenCode denies every
\* other of the five denies; Cursor and Pi agree, and Gemini denies what they deny; only
\* create_file is denied by Amp and not by Gemini; and a name that all share is judged
\* alike unless the path stands under a key Amp and OpenCode do not read.  Claude judges
\* its own tools, and Codex its items, as OpenCode judges the same call.  A name in no
\* dictionary is let through, Gemini's own WriteFile in lower case among them.  What is
\* denied is never answered with an option that allows.
GatesNested ==
    askedTool # <<>> =>
        LET q == askedTool
            name == toLowerCase(q.name)
            gemini == decideGeminiPermission(q) = "denied"
            cursor == decideCursorPermission(q) = "denied"
            pi == decidePiPermission(q) = "denied"
            amp == decideAmpPermission(q) = "denied"
            opencode == decideOpencodePermission(q) = "denied"
            claude == createPermissionHandler(q) = "denied"
            codex == decideCodexPermission(q) = "denied"
        IN /\ opencode => amp /\ cursor
           /\ cursor = pi
           /\ cursor => gemini
           /\ amp /\ ~gemini => name = "create_file"
           /\ gemini /\ ~opencode => name \notin SharedShell \cup SharedPath \/ q.abs_path = "outside"
           /\ q.name = "Bash" /\ q.cmd = "absent" => claude = opencode
           /\ q.name \in {"Read", "Write"} /\ q.path = "absent" /\ q.files = "absent" => claude = opencode
           /\ q.name = "command_execution" =>
                codex = (decideOpencodePermission([q EXCEPT !.name = "Bash", !.cmd = "absent"]) = "denied")
           /\ q.name = "file_change" =>
                codex = (decideOpencodePermission([q EXCEPT !.name = "Write", !.file_path = "absent", !.path = "absent"])
                           = "denied")
           /\ \A offered \in SUBSET Options :
                /\ gemini => GeminiAnswer(q, offered) \notin {"allow_once", "allow_always"}
                /\ cursor => CursorAnswer(q, offered) \notin {"allow_once", "allow_always"}

GatesSound == PathsStayInside /\ CommandsPermitted /\ GatesNested
=============================================================================
