------------------------------- MODULE Embed --------------------------------
(***************************************************************************)
(* From the sources of the page to the files the Go binary embeds:         *)
(* scripts/build-web.ts compiles them, scripts/web-assets.ts puts them in  *)
(* the place of those embedded before, and scripts/check-port-ui.ts shows  *)
(* that each of the checks refuses something.  One script runs at a time;  *)
(* it may be stopped at any file and in the middle of one, the sources may *)
(* be edited under it, its second half may be run by hand, and so may the  *)
(* Go compiler; the binary refuses to start without its files.             *)
(*                                                                         *)
(* The content of a file is the revision it was made from; 0 is an empty   *)
(* file, Truncated a part of one, and Extensionless a module with an       *)
(* import no browser resolves.                                             *)
(***************************************************************************)
EXTENDS Naturals, Sequences, SequencesExt, Functions, FiniteSets

CONSTANTS
  Compiled,      \* the modules the compiler writes next to app.js, in order
  Copied,        \* index.html and style.css, in order
  Leftover,      \* a file of an earlier release
  Extensionless, \* the content of a module with an extensionless import
  Truncated,     \* the content of a file whose writing was cut short
  MaxRevision    \* bound: revisions of the sources

VARIABLES
  revision,   \* of the sources
  since,      \* the revision at which the script under way began to build, or 0
  contract,   \* web/dist/contract.js, as a set of at most one content
  dist,       \* web/dist/ui
  static,     \* webembed/static
  script,     \* "idle", "compile", "copy", "check", "clear", "put", "verify", "build"
  todo        \* the files the step under way has left, in order

embedVars == <<revision, since, contract, dist, static, script, todo>>

CONTRACT == "contract.js"
REQUIRED_UI_ASSETS == Compiled \o Copied \o <<CONTRACT>>
Required == ToSet(REQUIRED_UI_ASSETS)
Modules  == ToSet(Compiled) \cup {CONTRACT}

\* assertUiAssets, assertJsModuleSpecifiers, assertSameHashes.
UiAssets(dir) == \A name \in Required : name \in DOMAIN dir /\ dir[name] # 0
ModuleSpecifiers(dir) == \A name \in Modules : name \in DOMAIN dir /\ dir[name] # Extensionless
SameHashes(left, right) ==
  \A name \in Required : name \in DOMAIN left /\ name \in DOMAIN right /\ left[name] = right[name]

ASSUME EmbedAssumption ==
  /\ Compiled \in Seq(ToSet(Compiled)) /\ Copied \in Seq(ToSet(Copied))
  /\ Extensionless \notin Nat /\ Truncated \notin Nat /\ Extensionless # Truncated

With(dir, name, content) == [n \in DOMAIN dir \cup {name} |-> IF n = name THEN content ELSE dir[n]]
Empty == [n \in {} |-> 0]

EmbedInit ==
  /\ revision = 1 /\ since = 0 /\ contract = {} /\ dist = Empty
  /\ static = [n \in Required \cup {Leftover} |-> 1]
  /\ script = "idle" /\ todo = << >>

Edit ==
  /\ revision < MaxRevision /\ revision' = revision + 1
  /\ UNCHANGED <<since, contract, dist, static, script, todo>>

Begin(step, files, built) ==
  /\ script = "idle" /\ script' = step /\ todo' = files
  /\ since' = IF built THEN revision ELSE 0
  /\ UNCHANGED <<revision, contract, dist, static>>
StartBuild == Begin("compile", Compiled, TRUE)
StartSync  == Begin("check", << >>, FALSE)

(***************************************************************************)
(* build-web.ts.  Each file is made of the sources as they are when it is  *)
(* read.  A module may come out empty or such that no browser loads it, or *)
(* not at all.                                                             *)
(***************************************************************************)
rebuilt == since > 0
Revisions == since .. revision
Output == Revisions \cup {0, Extensionless}

Compile ==
  /\ script = "compile" /\ todo # << >>
  /\ \E content \in Output : dist' = With(dist, Head(todo), content)
  /\ todo' = Tail(todo)
  /\ UNCHANGED <<revision, since, contract, static, script>>
Compiles ==
  /\ script = "compile" /\ todo = << >>
  /\ \E content \in Output : contract' = {content}
  /\ script' = "copy" /\ todo' = Copied
  /\ UNCHANGED <<revision, since, dist, static>>
Copy ==
  /\ script = "copy" /\ todo # << >>
  /\ dist' = With(dist, Head(todo), revision) /\ todo' = Tail(todo)
  /\ UNCHANGED <<revision, since, contract, static, script>>
Flatten ==
  /\ script = "copy" /\ todo = << >> /\ 0 \notin contract
  /\ \E content \in contract : dist' = With(dist, CONTRACT, content)
  /\ script' = "check"
  /\ UNCHANGED <<revision, since, contract, static, todo>>

(***************************************************************************)
(* syncEmbed: refuse a directory that is not whole, remove everything that *)
(* is embedded, copy file by file, and compare.                            *)
(***************************************************************************)
Checked ==
  /\ script = "check" /\ UiAssets(dist) /\ ModuleSpecifiers(dist)
  /\ script' = "clear" /\ todo' = SetToSeq(DOMAIN static)
  /\ UNCHANGED <<revision, since, contract, dist, static>>
Clear_Required ==
  /\ script = "clear" /\ todo # << >>
  /\ static' = Restrict(static, DOMAIN static \ ({Head(todo)} \cap Required)) /\ todo' = Tail(todo)
  /\ UNCHANGED <<revision, since, contract, dist, script>>
Clear ==
  /\ script = "clear" /\ todo # << >>
  /\ static' = Restrict(static, DOMAIN static \ {Head(todo)}) /\ todo' = Tail(todo)
  /\ UNCHANGED <<revision, since, contract, dist, script>>
Cleared ==
  /\ script = "clear" /\ todo = << >>
  /\ script' = "put" /\ todo' = REQUIRED_UI_ASSETS
  /\ UNCHANGED <<revision, since, contract, dist, static>>
Put ==
  /\ script = "put" /\ todo # << >>
  /\ static' = With(static, Head(todo), dist[Head(todo)]) /\ todo' = Tail(todo)
  /\ UNCHANGED <<revision, since, contract, dist, script>>
Verify ==
  /\ script = "put" /\ todo = << >> /\ UiAssets(static) /\ SameHashes(dist, static)
  /\ script' = "build"
  /\ UNCHANGED <<revision, since, contract, dist, static, todo>>

\* go build embeds whatever is there, in a script that got here or by hand; and
\* RequireAssets, before the server starts.
GoBuild ==
  /\ script = "build" /\ script' = "idle" /\ since' = 0
  /\ UNCHANGED <<revision, contract, dist, static, todo>>
Built  == {[files |-> static, scripted |-> script = "build"] : s \in {"idle", "build"} \cap {script}}
Starts(b) == UiAssets(b.files)

\* A check that refuses, a compiler that fails, a copy that throws, a killed script:
\* between two files, or in the middle of one.
Stop ==
  /\ script # "idle" /\ script' = "idle" /\ todo' = << >> /\ since' = 0
  /\ UNCHANGED <<revision, contract, dist, static>>
CutShort(part) ==
  /\ \/ /\ script \in {"compile", "copy"} /\ todo # << >>
        /\ dist' = With(dist, Head(todo), part) /\ UNCHANGED <<contract, static>>
     \/ /\ script = "compile" /\ todo = << >>
        /\ contract' = {part} /\ UNCHANGED <<dist, static>>
     \/ /\ script = "copy" /\ todo = << >>
        /\ dist' = With(dist, CONTRACT, part) /\ UNCHANGED <<contract, static>>
     \/ /\ script = "put" /\ todo # << >>
        /\ static' = With(static, Head(todo), part) /\ UNCHANGED <<contract, dist>>
  /\ script' = "idle" /\ todo' = << >> /\ since' = 0
  /\ UNCHANGED revision

EmbedNext ==
  \/ Edit \/ StartBuild \/ StartSync
  \/ Compile \/ Compiles \/ Copy \/ Flatten
  \/ Checked \/ Clear \/ Cleared \/ Put \/ Verify \/ GoBuild \/ Stop
  \/ \E part \in {0, Truncated} : CutShort(part)

EmbedSpec == EmbedInit /\ [][EmbedNext]_embedVars

\* The controls of check-port-ui.ts: with one module stale, one missing and one
\* extensionless, a whole directory is refused.
ControlsBite(dir) ==
  \A name \in Modules :
    /\ ~SameHashes(dir, With(dir, name, revision + 1))
    /\ ~UiAssets(Restrict(dir, DOMAIN dir \ {name}))
    /\ ~ModuleSpecifiers(With(dir, name, Extensionless))

\* A script embeds exactly the required files and what it found in web/dist/ui, none
\* of them empty, none with an extensionless import, nothing left of an earlier
\* release, whatever was interrupted before; and when it built them itself, each is
\* whole and of a revision the sources had since it began, so of one revision if
\* nobody edited them meanwhile.  Each of its checks would refuse less.  A binary built
\* by hand after an interruption may lack files and then does not start; one that
\* starts has no extensionless import.  What a build that was cut short left in
\* web/dist/ui, not empty but not whole, a sync by hand does embed.
EmbedWhole ==
  /\ \A b \in Built :
       /\ b.scripted => DOMAIN b.files = Required /\ Starts(b)
       /\ Starts(b) => ModuleSpecifiers(b.files)
       /\ Starts(b) /\ Leftover \notin DOMAIN b.files => DOMAIN b.files = Required
  /\ script = "build" =>
       /\ static = Restrict(dist, Required)
       /\ rebuilt => Range(static) \subseteq Revisions
       /\ ControlsBite(static)
=============================================================================
