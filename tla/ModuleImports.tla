---------------------------- MODULE ModuleImports ----------------------------
(***************************************************************************)
(* From files to the symbol table of a build:                              *)
(*   hwc-compiler/src/module_resolver/{mod,exports,binding,paths}.rs       *)
(*   hwc-compiler/src/symbol_table/{layer,definition}.rs, registration/    *)
(*   hwc-cli/src/commands/build_cmd/compilation.rs, build_symbol_table     *)
(*                                                                         *)
(* resolve_import is recursive: its calls are the variable frames, the     *)
(* running one last, while resolution_stack is a field of the resolver and *)
(* outlives them.  Every file is parsed again at every import, and all     *)
(* imports bind into one table, whoever asked for them.                    *)
(*                                                                         *)
(* A declaration is what an arena holds: its file, name, kind and whether  *)
(* it is exported; the ids of the arena are left out.  A file is its       *)
(* canonical path, and its contents are fixed for a build; the built one is *)
(* parsed before.  A method of an impl block is an item of kind "impl", its *)
(* name the qualified one.  Warnings (--deny-warnings) are left out.       *)
(***************************************************************************)
EXTENDS SequencesExt

CONSTANTS
    File, Main,  \* the files there are; the one that is built
    NoFile,      \* an import path that resolves to no file
    Name,
    Kind,        \* kinds of declarations; "impl" beside them
    Disks        \* what the files may contain: functions from File to programs

(* A program: broken if it cannot be read or parsed. *)
Program == [imports : Seq([from : File \cup {NoFile}, all : BOOLEAN, names : Seq(Name)]),
            items : Seq([name : Name, kind : Kind \cup {"impl"}, exported : BOOLEAN]),
            exports : SUBSET Name,
            broken : BOOLEAN]
ASSUME FilesAreKnown == Main \in File /\ NoFile \notin File /\ IsFiniteSet(File)
ASSUME NamesAreFinite == IsFiniteSet(Name)
ASSUME DisksAreTyped == Disks \subseteq [File -> Program]
ASSUME ImplIsApart == {"impl", "none"} \cap Kind = {} /\ "function" \in Kind

VARIABLES
    disk,
    phase,     \* "imports", "register", then "built" or "failed"
    pos,       \* the next import, then the next item, of the built file
    stack,     \* resolution_stack
    frames,    \* the calls of resolve_import: [import, next]
    hpm,       \* the layer of imported names
    local,     \* the layer of the built file's names
    arena,     \* the declarations registered, oldest first
    errors,    \* what was reported to the collector
    finished   \* history: the files resolved to the end, by their first time

vars  == <<disk, phase, pos, stack, frames, hpm, local, arena, errors, finished>>
table == <<hpm, local, arena>>

NoDecl == [kind |-> "none"]
Put(f, n, d) == [m \in DOMAIN f \cup {n} |-> IF m = n THEN d ELSE f[m]]

Init ==
    /\ disk \in Disks
    /\ phase = "imports" /\ pos = 1
    /\ stack = <<>> /\ frames = <<>> /\ finished = <<>>
    /\ hpm = <<>> /\ local = <<>> /\ arena = <<>> /\ errors = <<>>

-----------------------------------------------------------------------------
(* The table. *)

(* A space, a module and a test are exported whatever they say. *)
AlwaysExported == {"space", "module", "test"}
Exported(d) == d.exported \/ d.kind \in AlwaysExported

(* get_symbol; nothing is ever in the prelude, the core or a namespace. *)
Found(n) ==
    IF n \in DOMAIN local THEN local[n]
    ELSE IF n \in DOMAIN hpm /\ Exported(hpm[n]) THEN hpm[n]
    ELSE NoDecl

Decl(f, i) ==
    LET item == disk[f].items[i]
    IN [file |-> f, name |-> item.name, exported |-> item.exported,
        kind |-> IF item.kind = "impl" THEN "function" ELSE item.kind]

-----------------------------------------------------------------------------
(* ModuleExports::from_program: a name in an export block is the file's    *)
(* last declaration of it or, if it has none, whatever the table holds.    *)
Declared(f, n) ==
    {i \in DOMAIN disk[f].items : disk[f].items[i].name = n /\ disk[f].items[i].kind # "impl"}
Public(f, n) == {i \in Declared(f, n) : Exported(disk[f].items[i])}

ExportOf(f, n) ==
    IF n \in disk[f].exports
    THEN IF Declared(f, n) # {} THEN Decl(f, Max(Declared(f, n))) ELSE Found(n)
    ELSE IF Public(f, n) # {} THEN Decl(f, Max(Public(f, n)))
    ELSE NoDecl
Exports(f) == {n \in Name : ExportOf(f, n) # NoDecl}

(* bind_imports: the names up to the first that is not exported; for all of *)
(* them in any order, since no two are the same.  A re-exported declaration *)
(* is in the arena already.                                                *)
Wanted(import) == IF import.all THEN SetToSeq(Exports(import.from)) ELSE import.names
Missing(import) == {i \in DOMAIN Wanted(import) : Wanted(import)[i] \notin Exports(import.from)}
(* Mutant: the last of them is left out. *)
Served_butLast(import) ==
    SubSeq(Wanted(import), 1,
           (IF Missing(import) = {} THEN Len(Wanted(import)) ELSE Min(Missing(import))) - 1)

Served(import) ==
    SubSeq(Wanted(import), 1,
           IF Missing(import) = {} THEN Len(Wanted(import)) ELSE Min(Missing(import)) - 1)

(* What goes into the arena: of each name the file's own declaration.       *)
Registered(f, names) ==
    LET upto[i \in 0 .. Len(names)] ==
            IF i = 0 THEN <<>>
            ELSE IF Declared(f, names[i]) = {} THEN upto[i - 1]
            ELSE Append(upto[i - 1], ExportOf(f, names[i]))
    IN upto[Len(names)]

(* Mutant: a name that is bound keeps its declaration. *)
Bind_first(import) ==
    /\ hpm' = [n \in DOMAIN hpm \cup Range(Served(import)) |->
                  IF n \in DOMAIN hpm THEN hpm[n] ELSE ExportOf(import.from, n)]
    /\ arena' = arena \o Registered(import.from, Served(import))
    /\ UNCHANGED local

Bind(import) ==
    /\ hpm' = [n \in DOMAIN hpm \cup Range(Served(import)) |->
                  IF n \in Range(Served(import)) THEN ExportOf(import.from, n) ELSE hpm[n]]
    /\ arena' = arena \o Registered(import.from, Served(import))
    /\ UNCHANGED local

-----------------------------------------------------------------------------
(* resolve_import *)

Caller == IF frames = <<>> THEN Main ELSE Last(frames).import.from
NextImport == IF frames = <<>> THEN pos ELSE Last(frames).next
Waiting == phase = "imports" /\ NextImport \in DOMAIN disk[Caller].imports
Import == disk[Caller].imports[NextImport]

(* The running call returns to its caller, which goes on to its next import. *)
Return(calls) ==
    IF calls = <<>> THEN frames' = <<>> /\ pos' = pos + 1
    ELSE frames' = [calls EXCEPT ![Len(calls)].next = @ + 1] /\ UNCHANGED pos

(* An error goes through all callers up to the build, which reports it and *)
(* goes on to the next import of the built file.                           *)
Fail(why, import, chain) ==
    /\ errors' = Append(errors, [why |-> why, from |-> import.from, chain |-> chain])
    /\ frames' = <<>> /\ pos' = pos + 1
    /\ UNCHANGED <<disk, phase, finished>>

PathFails ==
    /\ Waiting /\ Import.from = NoFile
    /\ Fail("path", Import, <<>>)
    /\ UNCHANGED <<stack, table>>

(* Mutants: a file that is being resolved counts as resolved; or is waited for. *)
CircularImport_skipped ==
    /\ Waiting /\ Import.from \in Range(stack)
    /\ Return(frames)
    /\ UNCHANGED <<disk, phase, stack, table, errors, finished>>
CircularImport_waits ==
    /\ Waiting /\ Import.from \in Range(stack)
    /\ UNCHANGED vars

CircularImport ==
    /\ Waiting /\ Import.from \in Range(stack)
    /\ Fail("circular", Import, stack)
    /\ UNCHANGED <<stack, table>>

ParseFails ==
    /\ Waiting /\ Import.from \in File \ Range(stack) /\ disk[Import.from].broken
    /\ Fail("parse", Import, <<>>)
    /\ UNCHANGED <<stack, table>>

Enter ==
    /\ Waiting /\ Import.from \in File \ Range(stack) /\ ~ disk[Import.from].broken
    /\ stack' = Append(stack, Import.from)
    /\ frames' = Append(frames, [import |-> Import, next |-> 1])
    /\ UNCHANGED <<disk, phase, pos, table, errors, finished>>

(* The file's own imports are done: pop, export, bind. *)
AllDone == phase = "imports" /\ frames # <<>> /\ ~ Waiting
Finish(f) == finished' = IF f \in Range(finished) THEN finished ELSE Append(finished, f)

(* Mutant: the stack is not popped. *)
BindAll_kept ==
    LET import == Last(frames).import IN
    /\ AllDone /\ Missing(import) = {}
    /\ Bind(import)
    /\ Return(Front(frames))
    /\ Finish(import.from)
    /\ UNCHANGED <<disk, phase, stack, errors>>

BindAll ==
    LET import == Last(frames).import IN
    /\ AllDone /\ Missing(import) = {}
    /\ stack' = Front(stack)
    /\ Bind(import)
    /\ Return(Front(frames))
    /\ Finish(import.from)
    /\ UNCHANGED <<disk, phase, errors>>

(* The names before the one that is not exported stay bound. *)
BindFails ==
    LET import == Last(frames).import IN
    /\ AllDone /\ Missing(import) # {}
    /\ stack' = Front(stack)
    /\ Bind(import)
    /\ Fail("name", import, <<>>)

-----------------------------------------------------------------------------
(* build_symbol_table *)

EndImports ==
    /\ phase = "imports" /\ frames = <<>> /\ ~ Waiting
    /\ phase' = IF errors = <<>> THEN "register" ELSE "failed"
    /\ pos' = 1
    /\ UNCHANGED <<disk, stack, frames, table, errors, finished>>

(* A name is refused where it is taken by a declaration of its own kind;   *)
(* one of another kind is replaced.                                        *)
RegisterItem ==
    LET d == Decl(Main, pos) IN
    /\ phase = "register" /\ pos \in DOMAIN disk[Main].items
    /\ IF d.name \in DOMAIN local /\ local[d.name].kind = d.kind
          THEN /\ errors' = Append(errors, [why |-> "duplicate", from |-> Main, chain |-> <<>>])
               /\ UNCHANGED <<local, arena>>
          ELSE /\ local' = Put(local, d.name, d)
               /\ arena' = Append(arena, d)
               /\ UNCHANGED errors
    /\ pos' = pos + 1
    /\ UNCHANGED <<disk, phase, stack, frames, hpm, finished>>

EndItems ==
    /\ phase = "register" /\ pos \notin DOMAIN disk[Main].items
    /\ phase' = IF errors = <<>> THEN "built" ELSE "failed"
    /\ UNCHANGED <<disk, pos, stack, frames, table, errors, finished>>

Resolve == PathFails \/ CircularImport \/ ParseFails \/ Enter \/ BindAll \/ BindFails
Next == Resolve \/ EndImports \/ RegisterItem \/ EndItems
Spec == Init /\ [][Next]_vars

(* build_symbol_table runs until it returns. *)
FairSpec == Spec /\ WF_vars(Next)

-----------------------------------------------------------------------------
(* Properties. *)

Reason == {"path", "circular", "parse", "name", "duplicate"}

(* No file is on the stack twice, and the calls that run are the end of the *)
(* stack: the recursion is no deeper than there are files.                  *)
Below == Len(stack) - Len(frames)
StackIsPath ==
    /\ \A i, j \in DOMAIN stack : stack[i] = stack[j] => i = j
    /\ Len(frames) <= Len(stack)
    /\ \A i \in DOMAIN frames : frames[i].import.from = stack[Below + i]

(* Every resolution ends, whatever the files import. *)
ResolutionEnds == <>(phase \in {"built", "failed"})

Imports(f) == {disk[f].imports[i].from : i \in DOMAIN disk[f].imports}
Cyclic(S) == S # {} /\ \A f \in S : Imports(f) \cap S # {}

(* The files a build depends on: the least set with those the built file    *)
(* imports and all that its members import.                                 *)
Reached ==
    {f \in File : \A C \in SUBSET File :
        Imports(Main) \subseteq C /\ (\A g \in C : Imports(g) \subseteq C) => f \in C}

(* A build gets its symbol table only if no file it depends on depends on   *)
(* itself: each cycle is met by the stack, from wherever it is entered.     *)
BuiltIsAcyclic == phase = "built" => \A S \in SUBSET Reached : ~ Cyclic(S)

(* The part of the chain from the file that is imported again.              *)
Loop(e) == {e.chain[i] : i \in {j \in DOMAIN e.chain :
                                   \E k \in 1 .. j : e.chain[k] = e.from}}

(* The first error of a build, if it is of a cycle, is of one there is.     *)
FirstCycleIsReal ==
    errors # <<>> /\ errors[1].why = "circular" => Cyclic(Loop(errors[1]))

(* A name that the built file imports by name can be looked up in the end,  *)
(* whatever was bound over it, unless an export block names a private       *)
(* declaration of that name: the lookup passes that over.                   *)
Disclosed(n) ==
    \E f \in File : /\ n \in disk[f].exports /\ Declared(f, n) # {}
                     /\ ~ Exported(Decl(f, Max(Declared(f, n))))
ImportedNamesResolve ==
    phase = "built" =>
        \A i \in DOMAIN disk[Main].imports :
            ~ disk[Main].imports[i].all =>
                \A n \in Range(disk[Main].imports[i].names) : Found(n) # NoDecl \/ Disclosed(n)

(* The evaluator takes functions, structs, enums, constants and materials   *)
(* from the arena, the last of a name winning (pipeline/eval_setup.rs,      *)
(* material.rs), and the rest of the pipeline looks names up: both find the *)
(* same declaration.                                                        *)
OfKind(n, k) == {i \in DOMAIN arena : arena[i].name = n /\ arena[i].kind = k}
TablesAgree ==
    \A n \in Name : Found(n) # NoDecl =>
        /\ OfKind(n, Found(n).kind) # {}
        /\ arena[Max(OfKind(n, Found(n).kind))] = Found(n)
=============================================================================
