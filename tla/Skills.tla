------------------------------- MODULE Skills -------------------------------
(* What an agent is taught: the microagents of memory/memory.py and          *)
(* microagent/ (the older server, "v0") and the skills of                    *)
(* app_server/app_conversation/skill_loader.py ("v1"), loaded from one place *)
(* after another, a later place over an earlier one.                         *)
EXTENDS Naturals, Sequences

CONSTANT SkillDirs   \* what a directory may hold: sets of [name, kind, named]

\* The files of a directory are kept by name: of two of a name the one read last.
ASSUME SkillDirsAssumption == \A files \in SkillDirs : \A f, g \in files : f.name = g.name => f = g

\* The places in the order they are loaded in.
Places == [v0 |-> <<"global", "home", "system", "org", "legacy", "repo">>,
           v1 |-> <<"sandbox", "global", "home", "special", "skills", "microagents">>]
RepoPlaces == {"special", "skills", "microagents"}

VARIABLES
    skillServer,   \* "v0" or "v1"
    roots,         \* directories with an agents.md in them: of the server's disk, the home, the repository
    placesLeft,    \* places still to be loaded
    found,         \* history: place -> the skills it gave
    active,        \* the dictionaries: key -> skill
    workspace,     \* v0: what the sandbox gave so far; v1: what the repository did
    skillState,    \* "loading", "ready" or "failed"
    recalled       \* the answer to a recall: [asked, skills]
skillVars == <<skillServer, roots, placesLeft, found, active, workspace, skillState, recalled>>

NoSkills == [k \in {} |-> <<>>]
NotAsked == [asked |-> {}, skills |-> {}]

-----------------------------------------------------------------------------
(* A file: BaseMicroagent.load *)

\* Inputs make it a task, triggers knowledge, neither a text that is always there.  A task
\* is triggered by the name in its header, which is "default" if the header has none.
Trigger(f) ==
    CASE f.kind = "task" -> <<"/", IF f.named THEN f.name ELSE "default">>
      [] f.kind = "knowledge" -> <<"", f.name>>
      [] OTHER -> <<"", "">>
Load(f, p) == [name |-> f.name, kind |-> f.kind, trigger |-> Trigger(f), place |-> p]
Text(name, p) == [name |-> name, kind |-> "repo", trigger |-> <<"", "">>, place |-> p]

\* Texts and the others are kept in two dictionaries by the older server, in one list by
\* the newer one.
Key(s) == <<IF skillServer = "v1" THEN "any" ELSE IF s.kind = "repo" THEN "repo" ELSE "knowledge", s.name>>
AsDict(skills) == [k \in {Key(s) : s \in skills} |-> CHOOSE s \in skills : Key(s) = k]
Over(old, new) == [k \in DOMAIN old \cup DOMAIN new |-> IF k \in DOMAIN new THEN new[k] ELSE old[k]]

SkillsInit ==
    /\ skillServer \in {"v0", "v1"} /\ roots \in SUBSET {"server", "home", "repo"}
    /\ placesLeft = Places[skillServer] /\ found = [p \in {} |-> {}] /\ active = NoSkills /\ workspace = NoSkills
    /\ skillState = "loading" /\ recalled = NotAsked

AtPlace(version, p) == skillServer = version /\ skillState = "loading" /\ placesLeft # <<>> /\ Head(placesLeft) = p
Gives(p, skills) ==
    /\ placesLeft' = Tail(placesLeft) /\ found' = [q \in DOMAIN found \cup {p} |-> IF q = p THEN skills ELSE found[q]]
    /\ UNCHANGED <<skillServer, roots, recalled>>

-----------------------------------------------------------------------------
(* v0: load_microagents_from_dir *)

HasBadFile(files) == \E f \in files : f.kind = "bad"
\* The agents.md two levels up is loaded first: that of the home for its directory, and
\* that of the server's own root for a directory copied out of the sandbox.
SpecialFile(p) ==
    CASE p = "home" /\ "home" \in roots -> {Text("agents", "home")}
      [] p \in {"system", "org", "repo"} /\ "server" \in roots -> {Text("agents", p)}
      [] OTHER -> {}
LoadDir(files, p) ==
    LET own == {Load(f, p) : f \in files} IN own \cup {s \in SpecialFile(p) : ~\E t \in own : Key(t) = Key(s)}

\* A bad file among those of the installation keeps every session from starting.
LoadsGlobal(files) ==
    /\ AtPlace("v0", "global") /\ UNCHANGED workspace
    /\ IF HasBadFile(files)
       THEN skillState' = "failed" /\ Gives("global", {}) /\ UNCHANGED active
       ELSE Gives("global", LoadDir(files, "global")) /\ active' = Over(active, AsDict(LoadDir(files, "global"))) /\ UNCHANGED skillState
\* One in the home keeps out the rest of the home.
LoadsHome(files) ==
    LET skills == IF HasBadFile(files) THEN {} ELSE LoadDir(files, "home") IN
    /\ AtPlace("v0", "home") /\ Gives("home", skills) /\ active' = Over(active, AsDict(skills)) /\ UNCHANGED <<workspace, skillState>>

\* _load_microagents_from_directory: an empty directory is not looked at any further, one
\* that cannot be read as a whole is left out.
Remembers(new) ==
    IF Len(placesLeft) > 1 THEN workspace' = Over(workspace, new) /\ UNCHANGED <<active, skillState>>
    ELSE workspace' = NoSkills /\ active' = Over(active, Over(workspace, new)) /\ skillState' = "ready"
LoadsFromSandbox(p, files) ==
    LET skills == IF files = {} \/ HasBadFile(files) THEN {} ELSE LoadDir(files, p) IN
    AtPlace("v0", p) /\ Gives(p, skills) /\ Remembers(AsDict(skills))
LoadsLegacy(there) ==
    LET skills == IF there THEN {Text("repo_legacy", "legacy")} ELSE {} IN
    AtPlace("v0", "legacy") /\ Gives("legacy", skills) /\ Remembers(AsDict(skills))
\* The sandbox does not answer: only the organisation's part is guarded.
SandboxSilent ==
    /\ skillServer = "v0" /\ skillState = "loading" /\ placesLeft # <<>> /\ Head(placesLeft) \in {"system", "org", "legacy", "repo"}
    /\ Gives(Head(placesLeft), {}) /\ UNCHANGED <<active, workspace>>
    /\ skillState' = (IF Head(placesLeft) = "org" THEN skillState ELSE "failed")

\* A recall: every text for the first message of the user, and the skills whose trigger is
\* in the message.
Triggered(words) == {active[k] : k \in {j \in DOMAIN active : j[1] = "knowledge" /\ active[j].trigger \in words}}
RecallsSkills(words, first) ==
    /\ skillServer = "v0" /\ skillState = "ready" /\ recalled = NotAsked
    /\ recalled' = [asked |-> words, skills |-> Triggered(words) \cup
                        (IF first THEN {active[k] : k \in {j \in DOMAIN active : j[1] = "repo"}} ELSE {})]
    /\ UNCHANGED <<skillServer, roots, placesLeft, found, active, workspace, skillState>>

-----------------------------------------------------------------------------
(* v1: _load_and_merge_all_skills *)

\* A bad file is left out on its own.
GoodFiles(files) == {f \in files : f.kind # "bad"}
LoadsHosts(exposed) ==
    LET skills == IF exposed THEN {Text("work_hosts", "sandbox")} ELSE {} IN
    /\ AtPlace("v1", "sandbox") /\ Gives("sandbox", skills) /\ active' = AsDict(skills) /\ UNCHANGED <<workspace, skillState>>
LoadsSkillFiles(p, files) ==
    LET skills == {Load(f, p) : f \in GoodFiles(files)} IN
    /\ AtPlace("v1", p) /\ p \in {"global", "home"} /\ Gives(p, skills) /\ active' = Over(active, AsDict(skills))
    /\ UNCHANGED <<workspace, skillState>>

\* The repository's own, read file by file through the sandbox: any of them may be missed.
MutMergeRepoSkills(old, new) == Over(old, new)
MergeRepoSkills(old, new) == Over(new, old)
ReadsRepo(p, skills) ==
    /\ AtPlace("v1", p) /\ Gives(p, skills)
    /\ IF Len(placesLeft) > 1 THEN workspace' = MergeRepoSkills(workspace, AsDict(skills)) /\ UNCHANGED <<active, skillState>>
       ELSE /\ active' = Over(active, MergeRepoSkills(workspace, AsDict(skills)))
            /\ workspace' = NoSkills /\ skillState' = "ready"
LoadsSpecialFiles(read) ==
    ReadsRepo("special", IF read /\ "repo" \in roots THEN {Text("agents", "special")} ELSE {})
LoadsRepoDir(p, files) ==
    \E read \in SUBSET GoodFiles(files) : ReadsRepo(p, {Load(f, p) : f \in read})

SkillsNext ==
    \/ \E files \in SkillDirs :
          \/ LoadsGlobal(files) \/ LoadsHome(files)
          \/ \E p \in {"system", "org", "repo"} : LoadsFromSandbox(p, files)
          \/ \E p \in {"global", "home"} : LoadsSkillFiles(p, files)
          \/ \E p \in {"skills", "microagents"} : LoadsRepoDir(p, files)
    \/ \E yes \in BOOLEAN : LoadsLegacy(yes) \/ LoadsHosts(yes) \/ LoadsSpecialFiles(yes)
    \/ SandboxSilent
    \/ \E words \in SUBSET {<<"", "a">>, <<"/", "a">>, <<"/", "default">>}, first \in BOOLEAN : RecallsSkills(words, first)

-----------------------------------------------------------------------------
\* How near a place is to the task: the later it is loaded the nearer, but for the three
\* of a repository, of which the first is the nearest.
Nearness(p) ==
    LET order == Places[skillServer]
        i == CHOOSE n \in DOMAIN order : order[n] = p
    IN  IF skillServer = "v1" /\ p \in RepoPlaces THEN 20 - i ELSE i
Nearer(s, t) == Nearness(t.place) < Nearness(s.place)
AllFound == UNION {found[p] : p \in DOMAIN found}

\* Once all is loaded every skill that a place gave is there under its key, unless a nearer
\* place gave another one, which is; and no other.
NearestWins ==
    skillState = "ready" =>
        {active[k] : k \in DOMAIN active}
            = {s \in AllFound : ~\E t \in AllFound : Key(t) = Key(s) /\ Nearer(t, s)}
\* A message is answered with skills that it asks for or that are always there, never with
\* one that a nearer place replaced.  The older server replaces within a kind only.
RecallsNearest ==
    \A s \in recalled.skills :
        /\ s.kind = "repo" \/ s.trigger \in recalled.asked
        /\ ~\E t \in AllFound : t.name = s.name /\ (t.kind = "repo" <=> s.kind = "repo") /\ Nearer(t, s)
\* The agent is taught what is nearest to its task, whichever files could not be read.
SkillsKept == NearestWins /\ RecallsNearest
=============================================================================
