------------------------------- MODULE Skills -------------------------------
(***************************************************************************)
(* Skills (skill/, memory/skill.rs): instruction documents with supporting  *)
(* files and required skills, bound by digests; packages on disk; selection *)
(* and pins of a profile.  A digest is modelled by what it is a digest of.  *)
(* The limits of bytes, files and nodes are left out.                       *)
(***************************************************************************)
EXTENDS Knowledge, TLC

(***************************************************************************)
(* A supporting file is the sequence of the names on its path.              *)
(***************************************************************************)
Folded(name) == CASE name = "A" -> "a" [] name = "SKILL.md" -> "skill.md" [] OTHER -> name
FoldedPath(f) == [k \in DOMAIN f |-> Folded(f[k])]
Below(f, g) == Len(f) < Len(g) /\ SubSeq(g, 1, Len(f)) = f
\* The first place where two paths differ only by case, all before it being equal.
SplitsByCase(f, g) ==
    \E k \in DOMAIN f \cap DOMAIN g :
       /\ f[k] # g[k] /\ Folded(f[k]) = Folded(g[k])
       /\ \A j \in 1..(k - 1) : f[j] = g[j]
\* Mutant: only whole names are compared without case.
SpecOfWholeNames(files) ==
    /\ \A f, g \in files : f # g => FoldedPath(f) # FoldedPath(g) /\ ~Below(f, g)
    /\ \A f \in files : Folded(f[1]) # "skill.md"
SpecValid(files) ==
    /\ \A f, g \in files : f # g => FoldedPath(f) # FoldedPath(g) /\ ~Below(f, g) /\ ~SplitsByCase(f, g)
    /\ \A f \in files : Folded(f[1]) # "skill.md"
\* Files a skill may list can be written side by side on a disk that folds case:
\* none is another, none is a directory of another, none is the skill's own file.
FilesArePortable ==
    Is("files") /\ SpecValid(input.in.files) =>
      \A f \in input.in.files :
         /\ FoldedPath(f)[1] # "skill.md"
         /\ \A g \in input.in.files \ {f} : FoldedPath(f) # FoldedPath(g) /\ ~Below(FoldedPath(f), FoldedPath(g))

(***************************************************************************)
(* A skill is a root document [body, status, files, requires] at <<name>>    *)
(* and supporting documents [body, status] at <<name, file>>.  docs maps a   *)
(* scope and a path to Unset or [text, version, redacted]; mount says which  *)
(* scope and source the profile's mount is bound to.                        *)
(***************************************************************************)
MaxDepth == 3    \* 8 in the code
Text(body, status) == [body |-> body, status |-> status]
Revision(d) == [version |-> d.version, text |-> d.text]
\* The document at a path, in the package being imported or in the store.
ReadFor(s, c, p) ==
    IF p \in DOMAIN c.overlay THEN [text |-> c.overlay[p], version |-> 0]
    ELSE LET d == s.docs[s.mount.scope][p] IN
         IF d = Unset \/ d.redacted \/ (c.selected /\ ~Accepts(s.policy, d.text.status)) THEN Unset
         ELSE [text |-> d.text, version |-> d.version]
PinMatches(s, path, d) ==
    LET pin == s.pins[path] IN
    pin # Unset => /\ pin.source = s.mount.source /\ pin.scope = s.mount.scope
                   /\ pin.version = d.version /\ pin.text = d.text
\* Mutant: a supporting file need only be there.
SupportingThere(s, c, path, text) ==
    \A f \in DOMAIN text.files : ReadFor(s, c, <<path, f>>) # Unset
Supporting(s, c, path, text) ==
    \A f \in DOMAIN text.files :
       LET d == ReadFor(s, c, <<path, f>>) IN d # Unset /\ d.text.body = text.files[f]
RECURSIVE Visit(_, _, _, _, _)
\* Everything a skill stands on, or Unset where the check refuses it: a cycle, too
\* deep, not selected, no longer as pinned or required, a supporting file changed.
Visit(s, c, stack, path, d) ==
    LET fetched == [r \in d.text.requires |-> ReadFor(s, c, <<r.skill>>)]
        below == [r \in d.text.requires |->
                    IF fetched[r] = Unset \/ (r.revision # Unset /\ r.revision # Revision(fetched[r])) THEN Unset
                    ELSE Visit(s, c, Append(stack, path), r.skill, fetched[r])] IN
    IF \/ c.selected /\ ~Accepts(s.policy, d.text.status)
       \/ Len(stack) >= MaxDepth
       \/ \E k \in DOMAIN stack : stack[k] = path
       \/ c.selected /\ (path \notin s.selected \/ ~PinMatches(s, path, d))
       \/ ~Supporting(s, c, path, d.text)
       \/ \E r \in d.text.requires : below[r] = Unset
    THEN Unset
    ELSE [root |-> d.text, files |-> [f \in DOMAIN d.text.files |-> ReadFor(s, c, <<path, f>>).text.body],
          needs |-> {[bound |-> r.revision # Unset, whole |-> below[r]] : r \in d.text.requires}]
SkillCheck(s, path, selected) ==
    LET c == [selected |-> selected, overlay |-> <<>>]
        d == s.docs[s.mount.scope][<<path>>] IN
    IF d = Unset \/ d.redacted THEN Unset ELSE Visit(s, c, <<>>, path, d)
RECURSIVE Held(_)
\* The part of it that a pin of the root holds: what carries a digest.
Held(w) == [root |-> w.root, files |-> w.files, needs |-> {Held(n.whole) : n \in {n \in w.needs : n.bound}}]

(***************************************************************************)
(* Changes.  Versions a scope keeps are in past, for reverts.               *)
(***************************************************************************)
SkillPut(s, p, text) ==
    LET scope == s.mount.scope
        old == s.docs[scope][p]
        new == [text |-> text, version |-> IF old = Unset THEN 1 ELSE old.version + 1, redacted |-> FALSE] IN
    [s EXCEPT !.docs[scope][p] = new, !.past[scope] = @ \cup {<<p, new.version, text>>}]
\* A package [root, files]: its items in the order they are written, the root last.
Items(path, package) ==
    (IF "f" \in DOMAIN package.files THEN <<[path |-> <<path, "f">>, text |-> Text(package.files["f"], "unmanaged")]>> ELSE <<>>)
    \o <<[path |-> <<path>>, text |-> package.root]>>
Overlay(items) == [p \in {items[k].path : k \in DOMAIN items} |-> (CHOOSE k \in DOMAIN items : items[k].path = p)]
\* Mutant: what is imported is not checked together with what it will find there.
AdmitsUnchecked(s, path, items, replace) ==
    \A k \in DOMAIN items :
       LET d == s.docs[s.mount.scope][items[k].path] IN
       d # Unset => ~d.redacted /\ (replace \/ d.text = items[k].text)
Admits(s, path, items, replace) ==
    LET at == Overlay(items)
        c == [selected |-> FALSE, overlay |-> [p \in DOMAIN at |-> items[at[p]].text]] IN
    /\ Visit(s, c, <<>>, path, [text |-> items[at[<<path>>]].text, version |-> 0]) # Unset
    /\ \A k \in DOMAIN items :
          LET d == s.docs[s.mount.scope][items[k].path] IN
          d # Unset => ~d.redacted /\ (replace \/ d.text = items[k].text)
RECURSIVE Write(_, _)
Write(s, items) ==
    IF items = <<>> THEN s
    ELSE LET d == s.docs[s.mount.scope][Head(items).path] IN
         Write(IF d # Unset /\ d.text = Head(items).text THEN s ELSE SkillPut(s, Head(items).path, Head(items).text),
               Tail(items))
\* dies is how many of the items are written; done tells whether it was completed.
SkillImport(s, path, items, replace, dies) ==
    IF ~Admits(s, path, items, replace) THEN [s EXCEPT !.done = FALSE]
    ELSE [Write(s, SubSeq(items, 1, IF dies < Len(items) THEN dies ELSE Len(items)))
            EXCEPT !.done = dies >= Len(items)]
\* The content a version of a skill had, or Unset.
Historical(s, path, version) ==
    LET rows == {h \in s.past[s.mount.scope] : h[1] = <<path>> /\ h[2] = version} IN
    IF rows = {} THEN Unset ELSE (CHOOSE h \in rows : TRUE)[3]
\* A new body or an old version, for the version the caller saw.
SkillEdit(s, e) ==
    LET d == s.docs[s.mount.scope][<<e.skill>>]
        old == IF e.do = "revert" THEN Historical(s, e.skill, e.version) ELSE Unset
        text == IF e.do = "revert" THEN old ELSE [d.text EXCEPT !.body = e.body] IN
    IF d = Unset \/ d.redacted \/ d.version # e.expect \/ (e.do = "revert" /\ old = Unset)
    THEN [s EXCEPT !.done = FALSE]
    ELSE SkillImport(s, e.skill, <<[path |-> <<e.skill>>, text |-> text]>>, TRUE, 1)
\* What a pin will hold is read first, without the lock of the profile...
PinRead(s, path) ==
    LET d == s.docs[s.mount.scope][<<path>>]
        whole == SkillCheck(s, path, FALSE) IN
    IF path \notin s.selected \/ whole = Unset THEN s
    ELSE [s EXCEPT !.reading = [path |-> path, whole |-> Held(whole),
                                pin |-> [source |-> s.mount.source, scope |-> s.mount.scope,
                                         version |-> d.version, text |-> d.text]]]
\* ... and written to the profile as it is by then, if the skill is still selected.
PinWrite(s) ==
    IF s.reading = Unset \/ s.reading.path \notin s.selected THEN s
    ELSE [s EXCEPT !.pins[s.reading.path] = s.reading.pin, !.held[s.reading.path] = s.reading.whole, !.reading = Unset]
SkillEvent(s, e) ==
    CASE e.do = "put" -> SkillPut(s, e.path, e.text)
      [] e.do = "redact" -> IF s.docs[s.mount.scope][e.path] = Unset THEN s
                            ELSE [s EXCEPT !.docs[s.mount.scope][e.path].redacted = TRUE,
                                           !.past[s.mount.scope] = {h \in @ : h[1] # e.path}]
      [] e.do = "bind" -> [s EXCEPT !.mount = e.mount]
      [] e.do = "unselect" -> [s EXCEPT !.selected = @ \ {e.skill}, !.pins[e.skill] = Unset]
      [] e.do = "select" -> [s EXCEPT !.selected = @ \cup {e.skill}]
      [] e.do = "pin" -> PinRead(s, e.skill)
      [] e.do = "pinned" -> PinWrite(s)
      [] e.do = "import" -> SkillImport([s EXCEPT !.known = @ \cup {[body |-> e.package.root.body, files |-> e.package.files]}],
                                        e.skill, Items(e.skill, e.package), e.replace, e.dies)
      [] e.do \in {"edit", "revert"} ->
           LET t == SkillEdit(s, e) IN
           IF t.done THEN [t EXCEPT !.known = @ \cup {[body |-> t.docs[t.mount.scope][<<e.skill>>].text.body,
                                                       files |-> t.docs[t.mount.scope][<<e.skill>>].text.files]}]
           ELSE t
RECURSIVE SkillLife(_, _)
SkillLife(s, events) ==
    IF events = <<>> THEN s ELSE SkillLife(SkillEvent([s EXCEPT !.done = FALSE], Head(events)), Tail(events))

SkillNames == {"app", "lib"}
SkillPaths == {<<"app">>, <<"app", "f">>, <<"lib">>, <<"lib", "f">>}
Root(body, files, requires) == [body |-> body, status |-> "unmanaged", files |-> files, requires |-> requires]
LibText == Root(1, "f" :> 1, {})
AppText(bound) ==
    Root(1, "f" :> 1, {[skill |-> "lib", revision |-> IF bound THEN [version |-> 1, text |-> LibText] ELSE Unset]})
\* Two skills with a file each, app requiring lib, the same in both scopes.
Stored(app) ==
    LET row(text) == [text |-> text, version |-> 1, redacted |-> FALSE]
        docs == [p \in SkillPaths |-> IF p = <<"app">> THEN row(app) ELSE IF p = <<"lib">> THEN row(LibText)
                                      ELSE row(Text(1, "unmanaged"))] IN
    [docs |-> [sc \in {"s1", "s2"} |-> docs],
     past |-> [sc \in {"s1", "s2"} |-> {<<<<"app">>, 1, app>>, <<<<"lib">>, 1, LibText>>}],
     mount |-> [scope |-> "s1", source |-> "x"], policy |-> "effective", selected |-> SkillNames,
     pins |-> [n \in SkillNames |-> Unset], held |-> [n \in SkillNames |-> Unset], reading |-> Unset,
     known |-> {[body |-> 1, files |-> "f" :> 1]}, done |-> FALSE]

\* A pinned skill that still loads is, with its supporting files and every skill
\* it requires at a revision, what was read when it was pinned: whatever was
\* edited, redacted, unselected or bound elsewhere since.
PinHoldsTheWhole ==
    Is("pin") =>
      LET r == input.in
          s == SkillLife(Stored(AppText(r.bound)), r.events)
          whole == SkillCheck(s, "app", TRUE) IN
      s.pins["app"] # Unset /\ whole # Unset => Held(whole) = s.held["app"]

\* What loads is one skill that was imported or edited as a whole, never the
\* files of one import under the instructions of another, wherever an import
\* died; and a change that was completed leaves a skill that loads.
LoadsOneSkill ==
    Is("upgrade") =>
      LET r == input.in
          s == SkillLife(Stored(AppText(FALSE)), r.events)
          whole == SkillCheck(s, "app", FALSE) IN
      /\ whole # Unset => [body |-> whole.root.body, files |-> whole.files] \in s.known
      /\ s.done => whole # Unset

(***************************************************************************)
(* Packages.  A directory maps file names to their text; its manifest, once  *)
(* written, is the specification [files, requires] of the skill.            *)
(***************************************************************************)
Main == "SKILL.md"
Manifest(text) == [files |-> text.files, requires |-> text.requires]
\* What an export writes, in order: the check, then every document again, then the
\* manifest of the checked root.  rival is a put before the k-th read.
Exported(s, path, rival, dies) ==
    LET whole == SkillCheck(s, path, FALSE)
        at(k) == IF rival.at <= k THEN SkillPut(s, rival.path, rival.text) ELSE s
        docAt(k, p) == at(k).docs[s.mount.scope][p].text
        root == docAt(1, <<path>>)
        file == docAt(2, <<path, "f">>)
        rows == <<[name |-> Main, text |-> root]>>
                \o (IF "f" \in DOMAIN whole.files THEN <<[name |-> "f", text |-> file]>> ELSE <<>>)
        put == SubSeq(rows, 1, IF dies < Len(rows) THEN dies ELSE Len(rows)) IN
    [files |-> [n \in {put[k].name : k \in DOMAIN put} |-> (CHOOSE k \in DOMAIN put : put[k].name = n)],
     rows |-> put, manifest |-> IF dies > Len(rows) THEN Manifest(whole.root) ELSE Unset]
\* Mutant: files the skill lists need not all be there.
LoadWithoutMissing(dir) ==
    IF Main \notin DOMAIN dir.files THEN Unset
    ELSE LET root == dir.rows[dir.files[Main]].text
             spec == IF dir.manifest # Unset THEN dir.manifest ELSE Manifest(root)
             names == DOMAIN dir.files \ {Main} IN
         IF \E f \in names : f \notin DOMAIN spec.files \/ dir.rows[dir.files[f]].text.body # spec.files[f] THEN Unset
         ELSE [body |-> root.body, requires |-> spec.requires, files |-> [f \in names |-> dir.rows[dir.files[f]].text.body]]
\* A package on disk: with a manifest, or a root that carries one, the files must be
\* those it lists, with the digests it lists.
LoadPackage(dir) ==
    IF Main \notin DOMAIN dir.files THEN Unset
    ELSE LET root == dir.rows[dir.files[Main]].text
             spec == IF dir.manifest # Unset THEN dir.manifest ELSE Manifest(root)
             names == DOMAIN dir.files \ {Main} IN
         IF names # DOMAIN spec.files \/ \E f \in names : dir.rows[dir.files[f]].text.body # spec.files[f] THEN Unset
         ELSE [body |-> root.body, requires |-> spec.requires, files |-> [f \in names |-> dir.rows[dir.files[f]].text.body]]
\* A package that loads is the skill that was checked, however far its export came
\* and whatever was edited meanwhile; only an edit of the root itself, between the
\* check and the second read, puts its instructions beside the checked manifest.
PackageIsTheSkill ==
    Is("package") =>
      LET r == input.in
          s == Stored(AppText(r.bound))
          package == LoadPackage(Exported(s, "app", r.rival, r.dies))
          app == AppText(r.bound) IN
      package # Unset =>
        /\ package.files = app.files
        /\ r.rival.path # <<"app">> => package.body = app.body /\ package.requires = app.requires

(***************************************************************************)
(* Listing and loading.  Two mounts in order, each with skills; a shipped    *)
(* skill has no mount.  profile is Unset or the sequence of its selection.   *)
(***************************************************************************)
Address(mount, name) == <<mount, name>>
Builtin(name) == <<"builtin:", name>>
Bare(name) == <<"", name>>
\* An entry for a document below a mount, or Unset: a name with a slash is a
\* supporting file, a redacted document is none.
SkillEntry(w, mount, name) ==
    IF name \notin w.flat \/ w.docs[mount][name] \in {Unset, "redacted"} THEN Unset
    ELSE [name |-> Bare(name), path |-> Address(mount, name), text |-> w.docs[mount][name]]
Shipped(name) == [name |-> Bare(name), path |-> Unset, text |-> "shipped"]
RECURSIVE Present(_)
Present(entries) ==
    IF entries = <<>> THEN <<>>
    ELSE (IF Head(entries) = Unset THEN <<>> ELSE <<Head(entries)>>) \o Present(Tail(entries))
\* What a profile's selection shows, each under the name it was selected by.
Selection(w, chosen) ==
    LET entry == IF chosen[1] = "builtin:" THEN IF chosen[2] \in w.shipped THEN Shipped(chosen[2]) ELSE Unset
                 ELSE SkillEntry(w, chosen[1], chosen[2]) IN
    IF entry = Unset THEN [name |-> chosen, path |-> chosen, text |-> "unavailable"]
    ELSE [entry EXCEPT !.name = chosen]
ListSkills(w) ==
    IF w.profile # Unset THEN [k \in DOMAIN w.profile |-> Selection(w, w.profile[k])]
    ELSE LET names == <<"app", "lib", "app/f">>
             below(mount) == Present([k \in DOMAIN names |-> SkillEntry(w, mount, names[k])])
             shipped == Present([k \in DOMAIN names |-> IF names[k] \in w.shipped THEN Shipped(names[k]) ELSE Unset]) IN
         below("m") \o below("n") \o shipped
FirstWith(entries) == IF entries = <<>> THEN Unset ELSE Head(entries)
LoadAnywhere(w, asked) ==
    CASE asked[1] = "builtin:" -> IF asked[2] \in w.shipped THEN Shipped(asked[2]) ELSE Unset
      [] asked[1] \in {"m", "n"} -> SkillEntry(w, asked[1], asked[2])
      [] OTHER ->
           FirstWith(Present(<<SkillEntry(w, "m", asked[2]), SkillEntry(w, "n", asked[2]),
                               IF asked[2] \in w.shipped THEN Shipped(asked[2]) ELSE Unset>>))
\* Mutant: the selection of a profile is not asked.
LoadPastProfile(w, asked) == LoadAnywhere(w, asked)
LoadSkill(w, asked) ==
    IF w.profile # Unset THEN FirstWith(SelectSeq(ListSkills(w), LAMBDA e : e.name = asked))
    ELSE LoadAnywhere(w, asked)
\* What can be loaded is what is listed: every listed entry loads by its address,
\* its name loads the first entry listed under it, and nothing else loads.
ListedIsLoaded ==
    Is("skill_list") =>
      LET w == input.in
          listed == ListSkills(w)
          asked == {Bare(n) : n \in {"app", "lib", "app/f"}} \cup {Address(m, n) : m \in {"m", "n"}, n \in {"app", "lib", "app/f"}}
                   \cup {Builtin("lib")} IN
      /\ \A k \in DOMAIN listed :
            LoadSkill(w, listed[k].name) = FirstWith(SelectSeq(listed, LAMBDA e : e.name = listed[k].name))
      /\ \A k \in DOMAIN listed : w.profile = Unset /\ listed[k].path # Unset => LoadSkill(w, listed[k].path) = listed[k]
      /\ \A q \in asked : LoadSkill(w, q) # Unset => \E k \in DOMAIN listed : LoadSkill(w, q) = listed[k]

SkillInputs ==
    LET texts(path) == IF path \in {<<"app">>} THEN {AppText(TRUE), Root(2, "f" :> 1, {})}
                       ELSE IF path \in {<<"lib">>} THEN {LibText, Root(2, "f" :> 1, {}), Root(1, "f" :> 2, {})}
                       ELSE {Text(1, "draft"), Text(2, "unmanaged")}
        puts == UNION {[do : {"put"}, path : {p}, text : texts(p)] : p \in SkillPaths}
        others == [do : {"redact"}, path : {<<"lib">>, <<"app", "f">>}]
                  \cup [do : {"bind"}, mount : [scope : {"s1", "s2"}, source : {"x", "y"}]]
                  \cup [do : {"select", "unselect"}, skill : SkillNames]
        pin == [do |-> "pin", skill |-> "app"]
        write == [do |-> "pinned", skill |-> "app"]
        packages == {[root |-> Root(b, f, {}), files |-> f] : b \in {2, 3}, f \in {"f" :> 1, "f" :> 2, <<>>}}
        changes == [do : {"import"}, skill : {"app"}, package : packages, replace : BOOLEAN, dies : {1, 2}]
                   \cup [do : {"edit"}, skill : {"app"}, body : {4}, expect : {1, 2}]
                   \cup [do : {"revert"}, skill : {"app"}, version : {1, 2}, expect : {2, 3}]
                   \cup [do : {"redact"}, path : {<<"app">>, <<"app", "f">>}]
                   \cup [do : {"put"}, path : {<<"app", "f">>}, text : {Text(2, "unmanaged")}]
        entries == {"one", "redacted", Unset}
        paths == {<<"a">>, <<"A">>, <<"a", "b">>, <<"A", "b">>, <<"a", "A">>, <<"b", "SKILL.md">>, <<"SKILL.md">>, <<"skill.md", "a">>, <<"a", "b", "a">>} IN
    Of("files", [files : {f \in SUBSET paths : Cardinality(f) \in 1..3}])
    \cup Of("pin", [bound : BOOLEAN, events : {<<pin, x, write, y, z>> : x, y, z \in puts \cup others}])
    \cup Of("upgrade", [events : [1..3 -> changes] \cup [1..2 -> changes]])
    \cup Of("package", [bound : BOOLEAN, dies : 0..3,
                        rival : UNION {[at : 1..3, path : {p}, text : texts(p)] : p \in {<<"app">>, <<"app", "f">>}}])
    \cup Of("skill_list", [docs : [{"m", "n"} -> [{"app", "lib", "app/f"} -> entries]], flat : {{"app", "lib"}}, shipped : {{}, {"lib"}},
                        profile : {Unset, <<>>, <<Address("n", "app")>>, <<Builtin("lib"), Address("m", "lib")>>}])

\* A skill is loaded whole, as it was imported, pinned or packed, or not at all.
SkillRules ==
    /\ FilesArePortable
    /\ PinHoldsTheWhole
    /\ LoadsOneSkill
    /\ PackageIsTheSkill
    /\ ListedIsLoaded
=============================================================================
