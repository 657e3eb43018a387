----------------------------- MODULE ClientFiles -----------------------------
(***************************************************************************)
(* Installation into the configuration files of agent clients (clients/):  *)
(* which files a registration is written to, in which order, and what a    *)
(* refusal or a death between two writes leaves.  An installation is the   *)
(* sequence of states its writes pass through; each write is atomic.       *)
(*                                                                         *)
(* A file has our entry or not, entries of the user's own, or cannot be    *)
(* read as the object it should be.                                        *)
(***************************************************************************)
EXTENDS RuleInput, Integers, Sequences, FiniteSets

ConfigFile == [shape : {"absent", "object"}, ours : {FALSE}, theirs : {FALSE}]
              \cup [shape : {"object"}, ours : BOOLEAN, theirs : BOOLEAN]
              \cup [shape : {"malformed"}, ours : {FALSE}, theirs : {FALSE}]
Malformed(f) == f.shape = "malformed"
\* Mutant: the event's handlers are replaced.
MergedAlone(f) == [shape |-> "object", ours |-> TRUE, theirs |-> FALSE]
Merged(f) == [shape |-> "object", ours |-> TRUE, theirs |-> f.theirs]
\* Mutant: nothing is stripped.
StrippedNever(f) == f
Stripped(f) == [shape |-> f.shape, ours |-> FALSE, theirs |-> f.theirs]
\* A file of our own is written whole, and removed whole.
Whole(f) == [shape |-> "object", ours |-> TRUE, theirs |-> FALSE]
Removed(f) == [shape |-> "absent", ours |-> FALSE, theirs |-> FALSE]
OtherLevel(level) == IF level = "user" THEN "project" ELSE "user"

\* What an installation did: the states after its writes, and whether it ended.
Stopped(trace) == [ok |-> FALSE, trace |-> trace]
Done(trace) == [ok |-> TRUE, trace |-> trace]
Passed(fs, did) == {fs} \cup {did.trace[i] : i \in DOMAIN did.trace}
Left(fs, did) == IF did.trace = <<>> THEN fs ELSE did.trace[Len(did.trace)]

(***************************************************************************)
(* Hooks.  user and project are files of the client; Muse has a managed    *)
(* file too, which its settings may point to.                              *)
(***************************************************************************)
Fires(fs) == {s \in {"user", "project"} : fs[s].ours}
             \cup IF fs.pointer # "none" /\ fs.managed.ours THEN {"managed"} ELSE {}

\* Claude Code and Codex: the other level is displaced, then the target is read.
JsonHooks(fs, level) ==
    LET o == OtherLevel(level)
        apart == [fs EXCEPT ![o] = Stripped(@)]
        first == IF fs[o].ours THEN <<apart>> ELSE <<>>
        base == IF fs[o].ours THEN apart ELSE fs IN
    IF fs[o].ours /\ level = "project" THEN Stopped(<<>>)
    ELSE IF Malformed(fs[level]) THEN Stopped(first)
    ELSE Done(Append(first, [base EXCEPT ![level] = Merged(@)]))

\* Mutant: the plugin of the other level stays.
PluginHooksBeside(fs, level) ==
    IF fs[OtherLevel(level)].ours /\ level = "project" THEN Stopped(<<>>)
    ELSE Done(<<[fs EXCEPT ![level] = Whole(@)]>>)
\* OpenCode and Pi: the plugin is a file of its own.  It is told from another
\* file by the command in it, written whole over whatever stood there, and at
\* the other level removed, with anything the user had put into it.
PluginHooks(fs, level) ==
    LET o == OtherLevel(level)
        apart == [fs EXCEPT ![o] = Removed(@)]
        base == IF fs[o].ours THEN apart ELSE fs IN
    IF fs[o].ours /\ level = "project" THEN Stopped(<<>>)
    ELSE Done((IF fs[o].ours THEN <<apart>> ELSE <<>>)
              \o <<[base EXCEPT ![level] = Whole(@)]>>)

\* Mutant: the other level is stripped before the target is written.
CursorHooksApart(fs, level) ==
    LET o == OtherLevel(level) IN
    IF Malformed(fs[level]) \/ Malformed(fs[o]) \/ (fs[o].ours /\ level = "project") THEN Stopped(<<>>)
    ELSE LET apart == [fs EXCEPT ![o] = Stripped(@)] IN
         Done(<<apart, [apart EXCEPT ![level] = Merged(@)]>>)
\* Cursor: both files are read before anything is written, the target first.
CursorHooks(fs, level) ==
    LET o == OtherLevel(level)
        with == [fs EXCEPT ![level] = Merged(@)] IN
    IF Malformed(fs[level]) \/ Malformed(fs[o]) \/ (fs[o].ours /\ level = "project") THEN Stopped(<<>>)
    ELSE Done(<<with>> \o IF fs[o].ours THEN <<[with EXCEPT ![o] = Stripped(@)]>> ELSE <<>>)

\* Muse: with credentials the hooks stand in a managed file of ours.
MuseHooks(fs, level, credentialed) ==
    LET path == IF level = "project" THEN "project" ELSE IF credentialed THEN "managed" ELSE "user"
        sources == {"user", "project"} \cup IF fs.pointer # "none" THEN {"managed"} ELSE {}
        others == {s \in sources \ {path} : fs[s].ours}
        pointer == IF credentialed THEN "ours" ELSE fs.pointer
        with == [fs EXCEPT ![path] = Merged(@)]
        \* the user's settings carry the pointer: one write changes both
        after(done, s) == [done EXCEPT ![s] = Stripped(@),
                                       !.pointer = IF s = "user" THEN pointer ELSE @]
        due(s) == IF s \in others THEN <<s>> ELSE <<>>
        order == due("managed") \o due("user") \o due("project")
                 \o IF credentialed /\ "user" \notin others THEN <<"user">> ELSE <<>> IN
    IF \/ Malformed(fs.user) \/ \E s \in sources \cup {path} : Malformed(fs[s])
       \/ credentialed /\ (level = "project" \/ fs.pointer = "foreign")
       \/ others # {} /\ level = "project"
       \/ "managed" \in others /\ fs.pointer = "foreign"
    THEN Stopped(<<>>)
    ELSE LET at[n \in 0..Len(order)] == IF n = 0 THEN with ELSE after(at[n - 1], order[n]) IN
         Done([i \in 1..Len(order) + 1 |-> at[i - 1]])

Hooks(kind, fs, level, credentialed) ==
    CASE kind = "json" -> JsonHooks(fs, level)
      [] kind = "plugin" -> PluginHooks(fs, level)
      [] kind = "cursor" -> CursorHooks(fs, level)
      [] kind = "muse" -> MuseHooks(fs, level, credentialed)

\* status: a note when the hooks are in several files at once.
DoubleFire(fs) == Cardinality(Fires(fs)) >= 2

\* Where an installation reads everything before it writes, hooks that fired
\* keep firing at each of its writes, and at a refusal.  (Muse, taking up a
\* managed file, strips the project before its settings name that file.)
HooksNotLost ==
    Is("hooks") =>
      LET r == input.in
          did == Hooks(r.kind, r.fs, r.level, r.credentialed) IN
      /\ r.kind \in {"cursor", "muse"} /\ Fires(r.fs) # {}
      /\ r.credentialed => r.fs.pointer = "ours"
      =>
         \A fs \in Passed(r.fs, did) : Fires(fs) # {}

\* Where it displaces first, no turn is recorded twice, not even for a moment.
HooksNotDoubled ==
    Is("hooks") =>
      LET r == input.in
          did == Hooks(r.kind, r.fs, r.level, r.credentialed) IN
      r.kind \in {"json", "plugin"} /\ ~DoubleFire(r.fs) =>
         \A fs \in Passed(r.fs, did) : ~DoubleFire(fs)

\* Where hooks are entries of a shared file, entries that are not ours survive at
\* every write, and a file that cannot be read is left as it is.  A plugin is a
\* file of ours: what the user put into it goes with it, but a file of the other
\* level that is not our plugin is not touched.
HandlersKept ==
    Is("hooks") =>
      LET r == input.in
          did == Hooks(r.kind, r.fs, r.level, r.credentialed) IN
      \A fs \in Passed(r.fs, did) : \A s \in {"user", "project", "managed"} :
         /\ r.kind # "plugin" => fs[s].theirs = r.fs[s].theirs
         /\ r.kind # "plugin" /\ Malformed(r.fs[s]) => fs[s] = r.fs[s]
         /\ r.kind = "plugin" /\ s # r.level /\ ~r.fs[s].ours => fs[s] = r.fs[s]

\* An installation for the user that died at any write is completed by the same
\* command: one file carries the hooks, the one that was asked for.
InstallSettles ==
    Is("hooks") =>
      LET r == input.in
          did == Hooks(r.kind, r.fs, r.level, r.credentialed) IN
      r.level = "user" /\ did.ok =>
         \A fs \in Passed(r.fs, did) :
            LET again == Hooks(r.kind, fs, r.level, r.credentialed) IN
            /\ again.ok
            /\ Fires(Left(fs, again)) = {IF r.kind = "muse" /\ r.credentialed THEN "managed" ELSE "user"}

(***************************************************************************)
(* MCP servers, in the files of the two levels.                            *)
(***************************************************************************)
\* Claude Desktop and OpenCode displace, then read; Pi reads first; Muse and
\* Cursor displace nothing.
McpInstall(kind, fs, level) ==
    LET displaces == kind \in {"plain", "pi"} /\ level = "user" /\ fs.project.ours
        apart == [fs EXCEPT !.project = Stripped(@)]
        first == IF displaces THEN <<apart>> ELSE <<>>
        base == IF displaces THEN apart ELSE fs IN
    IF kind # "plain" /\ Malformed(fs[level]) THEN Stopped(<<>>)
    ELSE IF Malformed(fs[level]) THEN Stopped(first)
    ELSE Done(Append(first, [base EXCEPT ![level] = Merged(@)]))

\* Mutant: the project is displaced whatever the client's command said.
McpCommandAlways(fs, add, remove, again) ==
    Done(<<[fs EXCEPT !.project = Stripped(@), !.user.ours = @ \/ add \/ again]>>)
\* setup runs the client's own command; when it fails, removes and adds again,
\* and displaces the project once the command succeeded.
McpCommand(fs, add, remove, again) ==
    LET fails == ~add /\ ~again
        removed == IF remove THEN [fs EXCEPT !.user = Stripped(@)] ELSE fs
        added(f) == [f EXCEPT !.user = Merged(@)]
        with == IF add THEN added(fs) ELSE added(removed)
        steps == IF add THEN <<with>> ELSE IF again THEN <<removed, with>> ELSE <<removed>> IN
    IF fails THEN Stopped(steps)
    ELSE Done(steps \o IF with.project.ours THEN <<[with EXCEPT !.project = Stripped(@)]>> ELSE <<>>)

Registered(fs) == {s \in {"user", "project"} : fs[s].ours}
\* The client's command leaves a project's server in place until the user's
\* stands, whichever of its calls fail or time out.
CommandDisplacesLast ==
    Is("command") =>
      LET r == input.in
          did == McpCommand(r.fs, r.add, r.remove, r.again) IN
      /\ r.fs.project.ours => \A fs \in Passed(r.fs, did) : Registered(fs) # {}
      /\ did.ok => Registered(Left(r.fs, did)) = {"user"}
      /\ \A fs \in Passed(r.fs, did) : fs.project.theirs = r.fs.project.theirs

\* setup for one client: what may refuse is tried without writing first, then
\* the server and the hooks are written; the exit code is the whole of it.
Setup(kind, mcp, hooks, level) ==
    LET mk == IF kind = "json" THEN "cursor" ELSE IF kind = "plugin" THEN "pi" ELSE kind
        dryMcp == ~Malformed(mcp[level])
        dryHooks == CASE kind = "cursor" -> CursorHooks(hooks, level).ok
                      [] kind = "muse" -> MuseHooks(hooks, level, FALSE).ok
                      [] OTHER -> ~(hooks[OtherLevel(level)].ours /\ level = "project")
        didMcp == McpInstall(mk, mcp, level)
        didHooks == Hooks(kind, hooks, level, FALSE) IN
    IF ~(dryMcp /\ dryHooks) THEN [failed |-> TRUE, dry |-> TRUE, mcp |-> mcp, hooks |-> hooks]
    ELSE [failed |-> ~(didMcp.ok /\ didHooks.ok), dry |-> FALSE,
          mcp |-> Left(mcp, didMcp), hooks |-> Left(hooks, didHooks)]
\* Mutant: the exit code is the server's alone.
SetupOfServer(kind, mcp, hooks, level) ==
    LET s == Setup(kind, mcp, hooks, level) IN
    [s EXCEPT !.failed = ~s.mcp[level].ours]

SetupReport(kind, mcp, hooks, level) == Setup(kind, mcp, hooks, level)

\* status: the project's server speaks before the user's, the user's hooks
\* before the project's.
ClientStatus(mcp, hooks) ==
    LET servers == Registered(mcp)
        fires == Fires(hooks)
        speaking(found, first) == IF found = {} THEN Unset ELSE IF first \in found THEN first
                                  ELSE CHOOSE l \in found : TRUE
        seen == servers \cup fires IN
    [server |-> speaking(servers, "project"), hook |-> speaking(fires, "user"),
     level |-> CASE {"user", "project"} \subseteq seen -> "both"
                 [] seen = {} -> "none"
                 [] OTHER -> CHOOSE l \in seen : TRUE,
     double |-> DoubleFire(hooks)]

\* setup succeeds only when both registrations stand at the level asked for and
\* fire once, and status says so; when its trial refuses, no file was touched.
SetupTellsTheTruth ==
    Is("setup") =>
      LET r == input.in
          s == SetupReport(r.kind, r.mcp, r.hooks, r.level)
          seen == ClientStatus(s.mcp, s.hooks) IN
      /\ ~s.failed => s.mcp[r.level].ours /\ Fires(s.hooks) = {r.level}
      /\ ~s.failed => seen.hook = r.level /\ seen.level \in {r.level, "both"} /\ ~seen.double
      /\ s.dry => s.mcp = r.mcp /\ s.hooks = r.hooks

(***************************************************************************)
(* The upkeep skill of Codex: two files and a receipt of what was written. *)
(* Content is a version we shipped, or the user's own.                     *)
(***************************************************************************)
Parts == {1, 2}
NoReceipt == [enabled |-> FALSE, files |-> Unset]
\* Mutant: whatever the receipt knows nothing of is replaced.
SkillForeignAny(s, version) == FALSE
SkillForeign(s, version) ==
    \/ s.receipt = NoReceipt /\ \E p \in Parts : s.files[p] # "none"
    \/ \E p \in Parts : /\ s.files[p] \notin {"none", version}
                        /\ s.receipt.files # Unset => s.files[p] # s.receipt.files[p]
SkillInstall(s, mode, version) ==
    LET enabled == IF mode = "on" THEN TRUE ELSE IF mode = "off" THEN FALSE
                   ELSE s.receipt = NoReceipt \/ s.receipt.enabled
        new == [enabled |-> enabled, files |-> [p \in Parts |-> version]]
        owned == IF s.receipt = NoReceipt THEN [s EXCEPT !.receipt = new] ELSE s
        off == [s EXCEPT !.receipt = [enabled |-> FALSE,
                    files |-> IF s.receipt = NoReceipt THEN new.files ELSE s.receipt.files]]
        text == IF enabled THEN version ELSE "none"
        base == IF enabled THEN owned ELSE off
        one == [base EXCEPT !.files[1] = text]
        both == [one EXCEPT !.files[2] = text] IN
    IF SkillForeign(s, version) THEN Stopped(<<>>)
    ELSE Done((IF s.receipt = NoReceipt THEN <<owned>> ELSE <<>>)
              \o (IF enabled THEN <<>> ELSE <<off>>) \o <<one, both, [both EXCEPT !.receipt = new]>>)

\* Runs of setup, each dying after some of its writes (none: refused or died
\* before the first).
Died(s, did, writes) ==
    IF writes = 0 \/ did.trace = <<>> THEN s
    ELSE did.trace[IF writes < Len(did.trace) THEN writes ELSE Len(did.trace)]
SkillRun(s, runs) ==
    LET after[n \in 0..Len(runs)] ==
          IF n = 0 THEN s
          ELSE Died(after[n - 1], SkillInstall(after[n - 1], runs[n].mode, runs[n].version), runs[n].writes) IN
    after[Len(runs)]

\* Two runs that died anywhere, of the same or of two versions, are completed
\* by repeating the last; and what the user changed is refused, not replaced.
SkillResumes ==
    Is("skill") =>
      LET r == input.in
          none == [receipt |-> NoReceipt, files |-> [p \in Parts |-> "none"]]
          s == SkillRun(none, r.runs)
          last == r.runs[Len(r.runs)]
          again == SkillInstall(s, last.mode, last.version)
          edited == [s EXCEPT !.files[r.edits] = "edited"] IN
      /\ again.ok
      /\ LET e == Left(s, again) IN
         \A p \in Parts : e.files[p] = IF e.receipt.enabled THEN last.version ELSE "none"
      /\ LET did == SkillInstall(edited, last.mode, last.version) IN
         \A t \in Passed(edited, did) : t.files[r.edits] = "edited"

(***************************************************************************)
(* The status line of Claude Code, wrapped to observe its cache.  line is   *)
(* the setting of each level, saved what the level's directory keeps of it, *)
(* off the user's choice about the plugin.                                 *)
(***************************************************************************)
Wrapper == [user |-> "user wrapped", project |-> "project wrapped"]
StatusPrior(s, level) ==
    LET source == IF level = "project" /\ s.line.project = "none" THEN "user" ELSE level
        found == s.line[source] IN
    IF s.saved[source] # Unset /\ found = Wrapper[source] THEN s.saved[source].original ELSE found
StatusDisable(s, level) ==
    [s EXCEPT !.off[level] = TRUE,
              !.line[level] = IF s.saved[level] # Unset /\ @ = Wrapper[level]
                              THEN s.saved[level].restore ELSE @]
\* Mutant: what stands is saved, be it our own wrapper.
StatusInstallAgain(s, level, dies) ==
    LET saved == [s EXCEPT !.saved[level] = [original |-> StatusPrior(s, level), restore |-> s.line[level]]] IN
    IF s.off[level] THEN StatusDisable(s, level)
    ELSE IF dies THEN saved ELSE [saved EXCEPT !.line[level] = Wrapper[level]]
\* What stood is saved, then the setting is written; the process may die between.
StatusInstall(s, level, dies) ==
    LET ours == s.saved[level] # Unset /\ s.line[level] = Wrapper[level]
        saved == [s EXCEPT !.saved[level] =
                    [original |-> StatusPrior(s, level),
                     restore |-> IF ours THEN s.saved[level].restore ELSE s.line[level]]] IN
    IF s.off[level] THEN StatusDisable(s, level)
    ELSE IF dies THEN saved ELSE [saved EXCEPT !.line[level] = Wrapper[level]]

\* One event: a setup (whole or cut short), a disabling, or the user's edit.
StatusStep(s, e) ==
    CASE e.do = "install" -> StatusInstall(s, e.level, FALSE)
      [] e.do = "dies" -> StatusInstall(s, e.level, TRUE)
      [] e.do = "disable" -> StatusDisable(s, e.level)
      [] e.do = "enable" -> [s EXCEPT !.off[e.level] = FALSE]
      [] OTHER -> [s EXCEPT !.line[e.level] = e.do, !.chosen[e.level] = e.do]
StatusAfter(s, events) ==
    LET after[n \in 0..Len(events)] == IF n = 0 THEN s ELSE StatusStep(after[n - 1], events[n]) IN
    after[Len(events)]

\* Whatever setups, deaths and edits came before, disabling gives each level back
\* the status line the user last chose for it, and a wrapper never wraps itself.
StatuslineRestored ==
    Is("statusline") =>
      LET levels == {"user", "project"}
          first == [line |-> [l \in levels |-> "none"], saved |-> [l \in levels |-> Unset],
                    off |-> [l \in levels |-> FALSE], chosen |-> [l \in levels |-> "none"]]
          s == StatusAfter(first, input.in)
          off == StatusDisable(StatusDisable(s, "project"), "user") IN
      /\ off.line = s.chosen
      /\ \A l \in levels : s.saved[l] # Unset => s.saved[l].original # Wrapper[l]

ClientInputs ==
    LET plain == [user : ConfigFile, project : ConfigFile,
                  managed : {[shape |-> "absent", ours |-> FALSE, theirs |-> FALSE]}, pointer : {"none"}] IN
    Of("hooks", [kind : {"json", "plugin", "cursor"}, fs : plain, level : {"user", "project"},
                 credentialed : {FALSE}])
    \cup Of("hooks", [kind : {"muse"}, level : {"user", "project"}, credentialed : BOOLEAN,
                      fs : [user : ConfigFile, project : ConfigFile, managed : ConfigFile,
                            pointer : {"none", "ours", "foreign"}]])
    \cup Of("command", [fs : [user : ConfigFile, project : ConfigFile], add : BOOLEAN,
                        remove : BOOLEAN, again : BOOLEAN])
    \cup Of("setup", [kind : {"json", "plugin", "cursor", "muse"}, level : {"user", "project"},
                      mcp : [user : ConfigFile, project : ConfigFile], hooks : plain])
    \cup Of("skill",
        LET whole(v) == {[mode |-> "auto", version |-> v, writes |-> 9]}
            died == [mode : {"on", "off", "auto"}, version : {"v1", "v2"}, writes : 0..5] IN
        [edits : Parts,
         runs : {<<a1, a2>> : a1 \in died, a2 \in {d \in died : d.version = "v2"}}
                \cup {<<w, d>> : w \in whole("v1"), d \in died}])
    \cup Of("statusline",
        [1..4 -> [do : {"install", "dies", "disable"}, level : {"user", "project"}]
                 \cup [do : {"enable", "mine"}, level : {"user", "project"}]])

\* A client's files end as the last command asked, wherever earlier ones died,
\* and what the user put into a file that is not ours stays.
ClientRules ==
    /\ HooksNotLost
    /\ HooksNotDoubled
    /\ HandlersKept
    /\ InstallSettles
    /\ CommandDisplacesLast
    /\ SetupTellsTheTruth
    /\ SkillResumes
    /\ StatuslineRestored
=============================================================================
