---------------------------- MODULE BuildCommand ----------------------------
(* `hwc build` and `hwc check` (hwc-cli/src/commands/build_cmd/, check.rs): one
   pass from a source file to exported files.  Each phase may report errors to
   the collector or return one; the command looks at the collector at three
   points.  The spaces are built one after another, in the order of a hash map:
   aligned, validated, passed by the commit gate, exported format by format.

   What the phases find is given with the job (which imports do not resolve, how
   many definitions are duplicates, whether the evaluation succeeds, what is
   wrong with a space): ModuleImports and SpaceLowering model how they find it.
   The parser and the continuity check are run in full.  No part of the pipeline
   reports a warning, so --deny-warnings decides nothing here. *)
EXTENDS SourceParser, Continuity

CONSTANT Jobs
  (* Sets of jobs, by kind.  A job is [command, source, readable, unresolved, duplicates, evaluates, spaces,
     unwritable, asked, limit, only, skipDrc, skipContinuity, force, verifyOnly,
     lock]: unresolved, the numbers of the imports that fail; spaces, what each
     is [implements, extracts, constrained, clean, metal]; unwritable, the pairs
     of a space and a file, or "dir", that fail; asked, the words of --formats, in
     lower case; limit, the collector's. *)

Count(names, name) == Cardinality({i \in DOMAIN names : names[i] = name})

(* There are facts for every space of the source, and for every space that can be
   left of it when its errors are dropped. *)
ASSUME JobsTyped ==
    \A kind \in DOMAIN Jobs : \A j \in Jobs[kind] :
        /\ j.command \in {"build", "check"} /\ j.source \in Seq(Classes)
        /\ j.unresolved \subseteq Nat \ {0} /\ j.duplicates \in Nat /\ j.limit \in Nat
        /\ j.asked \in Seq(STRING) /\ j.only \in Nat
        /\ \A names \in {j.source, ItemsFrom(j.source)} :
              1..Count(names, "space") \subseteq DOMAIN j.spaces
        /\ \A s \in DOMAIN j.spaces : IsMetal(j.spaces[s].metal)

-----------------------------------------------------------------------------
(* The words of --formats.  The first that asks for everything ends the list, and
   the words after it are not looked at; no word at all asks for the same. *)

Everything == {"all", "professional"}
ProfessionalThree == <<"glb", "dxf", "netlist">>
ExportFormats == {"glb", "dxf", "netlist", "bom", "excellon"}
Alias == [spice |-> "netlist", sp |-> "netlist", drill |-> "excellon"]
FormatOf(word) == IF word \in DOMAIN Alias THEN Alias[word] ELSE word

\* The positions before the first word that asks for everything.
NamedBefore(asked) == {i \in DOMAIN asked : \A k \in 1..i : asked[k] \notin Everything}
FormatsKnown(asked) == \A i \in NamedBefore(asked) : FormatOf(asked[i]) \in ExportFormats
FormatsOf(asked) ==
    LET named == [i \in 1..Cardinality(NamedBefore(asked)) |-> FormatOf(asked[i])]
    IN  IF named = <<>> \/ Len(named) < Len(asked) THEN named \o ProfessionalThree ELSE named

(* A build whose formats are not all known does not start; check has none. *)
CanStart(j) == j.readable /\ (j.command = "build" => FormatsKnown(j.asked))

-----------------------------------------------------------------------------
VARIABLES job, phase,
          at,          \* imports resolved, or formats exported
          todo,        \* spaces to build
          cur,         \* the space being built
          violations,  \* of the current space
          saved,       \* spaces whose routes were saved to the lockfile
          exported,    \* files written: <<space, format>>
          outcome

buildVars == <<job, phase, at, todo, cur, violations, saved, exported, outcome>>
vars == <<parserVars, buildVars>>

Imports == Count(items, "import")
Spaces == 1..Count(items, "space")
NoSpace == 0

Init ==
    /\ \E kind \in DOMAIN Jobs : job \in Jobs[kind]
    /\ tokens = job.source /\ current = 1 /\ parsing = FALSE /\ items = <<>>
    /\ collector = Collector(job.limit)
    /\ phase = "source" /\ at = 0 /\ todo = {} /\ cur = NoSpace /\ violations = {}
    /\ saved = {} /\ exported = {} /\ outcome = "running"

Fail == phase' = "done" /\ outcome' = "failed"
Succeed == phase' = "done" /\ outcome' = "ok"
GoTo(p) == phase' = p /\ outcome' = outcome

-----------------------------------------------------------------------------
(* Compilation. *)

(* An unknown format, then a file that cannot be read or lexed, end the command. *)
ReadSource ==
    /\ phase = "source"
    /\ IF CanStart(job) THEN GoTo("parse") /\ parsing' = TRUE ELSE Fail /\ parsing' = FALSE
    /\ UNCHANGED <<tokens, current, items, collector, job, at, todo, cur, violations, saved, exported>>

ParseSource == phase = "parse" /\ Parse /\ UNCHANGED buildVars

(* check is done here. *)
EndSyntax ==
    /\ phase = "parse" /\ ~parsing
    /\ IF HasErrors(collector) THEN Fail
       ELSE IF job.command = "check" THEN Succeed ELSE GoTo("imports")
    /\ UNCHANGED <<parserVars, job, at, todo, cur, violations, saved, exported>>

(* An import that fails is reported and the next one tried. *)
ResolveImport ==
    /\ phase = "imports" /\ at < Imports
    /\ at' = at + 1
    /\ collector' = IF at + 1 \in job.unresolved THEN Report(collector, "error") ELSE collector
    /\ UNCHANGED <<tokens, current, parsing, items, job, phase, todo, cur, violations, saved,
                   exported, outcome>>

\* Mutant: import errors are left to the check after the registration.
EndImportsLate ==
    /\ phase = "imports" /\ at = Imports
    /\ GoTo("lower")
    /\ at' = 0
    /\ UNCHANGED <<parserVars, job, todo, cur, violations, saved, exported>>

EndImports ==
    /\ phase = "imports" /\ at = Imports
    /\ IF HasErrors(collector) THEN Fail ELSE GoTo("register")
    /\ at' = 0
    /\ UNCHANGED <<parserVars, job, todo, cur, violations, saved, exported>>

(* Every duplicate definition is reported; then the collector is looked at. *)
Register ==
    /\ phase = "register" /\ at < job.duplicates
    /\ at' = at + 1
    /\ collector' = Report(collector, "error")
    /\ UNCHANGED <<tokens, current, parsing, items, job, phase, todo, cur, violations, saved,
                   exported, outcome>>
EndRegistration ==
    /\ phase = "register" /\ at = job.duplicates
    /\ IF HasErrors(collector) THEN Fail ELSE GoTo("lower")
    /\ at' = 0
    /\ UNCHANGED <<parserVars, job, todo, cur, violations, saved, exported>>

Selected == IF job.only = NoSpace THEN Spaces ELSE Spaces \cap {job.only}
(* The spaces are made; an error there ends the command, and so does, with
   success, a --space that names none. *)
LowerSpaces ==
    /\ phase = "lower"
    /\ todo' = Selected
    /\ IF ~job.evaluates THEN Fail
       ELSE IF job.only # NoSpace /\ Selected = {} THEN Succeed ELSE GoTo("spaces")
    /\ UNCHANGED <<parserVars, job, at, cur, violations, saved, exported>>

-----------------------------------------------------------------------------
(* Space by space. *)

Facts == job.spaces[cur]
Artist == ~Facts.implements

(* The alignment decides the mode: professional if the space implements a
   module, whose devices are then extracted from it.  Then its directory. *)
Align ==
    /\ phase = "spaces"
    /\ \E s \in todo :
        /\ cur' = s /\ todo' = todo \ {s}
        /\ IF \/ job.spaces[s].implements /\ ~job.spaces[s].extracts
              \/ <<s, "dir">> \in job.unwritable
           THEN Fail ELSE GoTo("validate")
    /\ UNCHANGED <<parserVars, job, at, violations, saved, exported>>

(* Design rules are checked if the space has any; what they find is one
   violation.  Neither check runs in artist mode. *)
RulesBroken == ~job.skipDrc /\ ~Artist /\ Facts.constrained /\ ~Facts.clean
Validate ==
    /\ phase = "validate"
    /\ \E islands \in IslandOrders(RawIslands(Facts.metal)) :
        violations' = (IF RulesBroken THEN {<<"DRC", None>>} ELSE {})
                      \cup (IF job.skipContinuity \/ Artist THEN {}
                            ELSE {<<"P41", net>> : net \in FailingNets(Facts.metal, islands)})
    /\ GoTo("gate")
    /\ UNCHANGED <<parserVars, job, at, todo, cur, saved, exported>>

\* The lockfile: off, absent, present, or present and to be ignored.
Cached == job.lock = "present"
Locking == job.lock # "off"

\* Mutant: the gate is asked for artist mode's warnings alone.
GateAjar ==
    /\ phase = "gate"
    /\ at' = 0
    /\ IF violations # {} /\ Artist /\ ~job.force
       THEN Fail /\ saved' = saved
       ELSE /\ saved' = IF Locking /\ ~Cached THEN saved \cup {cur} ELSE saved
            /\ GoTo(IF job.verifyOnly THEN "spaces" ELSE "export")
    /\ UNCHANGED <<parserVars, job, todo, cur, violations, exported>>

(* The commit gate, the lockfile, and --verify-only. *)
Gate ==
    /\ phase = "gate"
    /\ at' = 0
    /\ IF violations # {} /\ ~Artist /\ ~job.force
       THEN Fail /\ saved' = saved
       ELSE /\ saved' = IF (violations = {} \/ job.force) /\ Locking /\ ~Cached
                        THEN saved \cup {cur} ELSE saved
            /\ GoTo(IF job.verifyOnly THEN "spaces" ELSE "export")
    /\ UNCHANGED <<parserVars, job, todo, cur, violations, exported>>

\* Mutant: the utilities are exported only if asked for.
WantedAsked == FormatsOf(job.asked)

(* The formats asked for, then the utilities that were not. *)
Unasked(format) == IF Contains(FormatsOf(job.asked), format) THEN <<>> ELSE <<format>>
Wanted == FormatsOf(job.asked) \o Unasked("bom") \o Unasked("excellon")

Export ==
    /\ phase = "export" /\ at < Len(Wanted)
    /\ LET file == <<cur, Wanted[at + 1]>> IN
       IF file \in job.unwritable THEN Fail /\ UNCHANGED <<at, exported>>
       ELSE GoTo("export") /\ at' = at + 1 /\ exported' = exported \cup {file}
    /\ UNCHANGED <<parserVars, job, todo, cur, violations, saved>>
EndSpace ==
    /\ phase = "export" /\ at = Len(Wanted)
    /\ GoTo("spaces")
    /\ UNCHANGED <<parserVars, job, at, todo, cur, violations, saved, exported>>

Finish ==
    /\ phase = "spaces" /\ todo = {}
    /\ Succeed
    /\ UNCHANGED <<parserVars, job, at, todo, cur, violations, saved, exported>>

Compile == ReadSource \/ ParseSource \/ EndSyntax \/ ResolveImport \/ EndImports
           \/ Register \/ EndRegistration \/ LowerSpaces
BuildSpaces == Align \/ Validate \/ Gate \/ Export \/ EndSpace \/ Finish
Next == Compile \/ BuildSpaces

Spec == Init /\ [][Next]_vars

-----------------------------------------------------------------------------
Phases == {"source", "parse", "imports", "register", "lower", "spaces", "validate", "gate",
           "export", "done"}
(* Types; the collector never holds more errors than its limit. *)
TypeOK ==
    /\ phase \in Phases /\ outcome \in {"running", "ok", "failed"}
    /\ (phase = "done") = (outcome # "running")
    /\ current \in 1..(Len(tokens) + 1)
    /\ Errors(collector) <= job.limit
    /\ todo \subseteq Spaces /\ cur \in Spaces \cup {NoSpace}

(* A parse that reports nothing has read the source, whole and as the grammar
   says; one that reports something was right to.  (mod.rs: parse; with the
   limit 0 everything is dropped and this does not hold.) *)
ParsedAsWritten ==
    phase # "source" /\ ~parsing /\ job.readable /\ job.limit > 0 =>
        /\ HasErrors(collector) \/ phase # "imports" \/ items = ItemsFrom(tokens)
        /\ phase = "parse" => (HasErrors(collector) = ~WellFormed(tokens))

(* What it takes for a job to succeed, said of the job alone. *)
SpaceIsSound(s) ==
    LET facts == job.spaces[s] IN
    /\ facts.implements =>
        /\ facts.extracts
        /\ \/ job.force
           \/ /\ job.skipDrc \/ ~facts.constrained \/ facts.clean
              /\ job.skipContinuity \/ \A islands \in IslandOrders(RawIslands(facts.metal)) :
                                            FailingNets(facts.metal, islands) = {}
    /\ <<s, "dir">> \notin job.unwritable
    /\ job.verifyOnly \/ \A i \in DOMAIN Wanted : <<s, Wanted[i]>> \notin job.unwritable
Sound ==
    /\ CanStart(job) /\ WellFormed(job.source)
    /\ job.command = "build" =>
        LET names == ItemsFrom(job.source) IN
        /\ \A i \in job.unresolved : i > Count(names, "import")
        /\ job.duplicates = 0 /\ job.evaluates
        /\ \A s \in 1..Count(names, "space") :
            job.only \in {NoSpace, s} => SpaceIsSound(s)

(* The command succeeds exactly on sound jobs: no error reported in a phase is
   passed over by the next ones, and none is made up.  (At the end and before,
   the state is one the types allow.) *)
VerdictIsRight == TypeOK /\ (phase = "done" /\ job.limit > 0 => (outcome = "ok") = Sound)

(* What leaves the build was let through: a file of a space in professional mode
   means that the checks asked for found nothing, or that --force-export was
   given; nothing at all leaves a source with an error; and the lockfile gets no
   routes of a space that the gate stopped (build_cmd/mod.rs:175). *)
OnlyLetThrough ==
    /\ \A file \in exported :
        /\ LET facts == job.spaces[file[1]] IN
           facts.implements /\ ~job.force =>
             /\ job.skipDrc \/ ~facts.constrained \/ facts.clean
             /\ job.skipContinuity \/ \E islands \in IslandOrders(RawIslands(facts.metal)) :
                                            FailingNets(facts.metal, islands) = {}
        /\ job.limit > 0 => WellFormed(job.source) /\ job.duplicates = 0
        /\ ~job.verifyOnly /\ job.only \in {NoSpace, file[1]}
    /\ \A s \in saved : s = cur /\ violations # {} => job.force

(* Whole spaces: every space but the current one has all its files or none, all
   of them after a success; what is left of a failed build is whole spaces and
   one torn. *)
FilesOf(s) == {file \in exported : file[1] = s}
AllFiles(s) == {<<s, Wanted[i]>> : i \in DOMAIN Wanted} \cup {<<s, "bom">>, <<s, "excellon">>}
WholeSpaces ==
    /\ \A s \in Spaces \ {cur} : FilesOf(s) \in {{}, AllFiles(s)}
    /\ outcome = "ok" /\ job.command = "build" /\ job.limit > 0 /\ ~job.verifyOnly =>
        \A s \in Selected : FilesOf(s) = AllFiles(s)

(* A net reported as disconnected is: even by the check's own rules, no chain of
   welds and contacts joins its pieces. *)
NoFalseAlarm ==
    phase = "gate" => \A v \in violations :
        v[1] = "P41" => ~ContinuousByRule(Facts.metal, v[2])

Checked == phase = "gate" /\ ~Artist /\ ~job.skipContinuity
NetsOf(space) == {p.net : p \in Range(RawIslands(space))}
Passed(net) == <<"P41", net>> \notin violations

(* A net that passes is continuous, where every island's box is as good as its
   metal and what bridges conducts. *)
PassMeansContinuousWhenTight ==
    Checked /\ HullsAreMetal(Facts.metal) /\ ContactsConduct(Facts.metal) =>
        \A net \in NetsOf(Facts.metal) : Passed(net) => Continuous(Facts.metal, net)

(* "Net is physically continuous (single connected component)" (pivb/types.rs:97),
   said of a net that passes. *)
PassMeansContinuous ==
    Checked => \A net \in NetsOf(Facts.metal) : Passed(net) => Continuous(Facts.metal, net)

(* Every turn of the parser's loop gets past something: what it failed on is not
   what it fails on next.  (Only the collector's limit would end it otherwise.) *)
TurnsAdvance == [][phase = "parse" /\ parsing' => current' > current]_vars
=============================================================================
