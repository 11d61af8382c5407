------------------------- MODULE ModuleImportsProofs -------------------------
(* What is proved of the resolver, for every set of files and whatever they
   import: the stack holds the calls that run and no file twice, the first
   cycle reported is one, and what is built depends on no cycle; and of the
   symbol table: it agrees with the arena, and imported names are found. *)
EXTENDS ModuleImports, SequenceTheorems, FiniteSetTheorems, TLAPS

-----------------------------------------------------------------------------
(* Sequences. *)

LEMMA FrontProperties ==
    ASSUME NEW S, NEW s \in Seq(S), s # <<>>
    PROVE  /\ Front(s) \in Seq(S)
           /\ Len(s) \in Nat \ {0}
           /\ Len(Front(s)) = Len(s) - 1
           /\ \A i \in 1 .. Len(s) - 1 : Front(s)[i] = s[i]
           /\ Last(s) \in S
<1>1. Len(s) \in Nat \ {0}
  BY EmptySeq
<1>2. /\ Front(s) \in Seq(S)
      /\ Len(Front(s)) = IF 1 <= Len(s) - 1 THEN Len(s) - 1 - 1 + 1 ELSE 0
      /\ \A i \in 1 .. Len(s) - 1 - 1 + 1 : Front(s)[i] = s[1 + i - 1]
  BY <1>1, SubSeqProperties DEF Front
<1>3. Last(s) \in S
  BY <1>1 DEF Last
<1>4. Len(Front(s)) = Len(s) - 1
  <2>1. CASE 1 <= Len(s) - 1
    BY <1>1, <1>2, <2>1
  <2>2. CASE Len(s) = 1
    BY <1>2, <2>2
  <2> QED  BY <1>1, <2>1, <2>2
<1>5. \A i \in 1 .. Len(s) - 1 : Front(s)[i] = s[i]
  BY <1>1, <1>2
<1> QED  BY <1>1, <1>2, <1>3, <1>4, <1>5

LEMMA AppendRange ==
    ASSUME NEW S, NEW s \in Seq(S), NEW e \in S
    PROVE  Range(Append(s, e)) = Range(s) \cup {e}
  BY SMTT(40) DEF Range

(* A set of indices has a least one. *)
LEMMA LeastIndex ==
    ASSUME NEW S \in SUBSET Nat, S # {}
    PROVE  \E x \in S : \A y \in S : x <= y
<1>1. PICK x \in S : \A y \in S : ~ (<<y, x>> \in OpToRel(<, Nat))
  BY NatLessThanWellFounded, WFMin
<1>2. ASSUME NEW y \in S, y < x
      PROVE  <<y, x>> \in OpToRel(<, Nat)
  BY <1>2, Zenon DEF OpToRel
<1>3. \A y \in S : ~ (y < x)
  BY <1>1, <1>2
<1> QED  BY <1>3

-----------------------------------------------------------------------------
(* The invariant. *)

ImportDecl == [from : File \cup {NoFile}, all : BOOLEAN, names : Seq(Name)]
Call       == [import : [from : File, all : BOOLEAN, names : Seq(Name)], next : Nat \ {0}]
Report     == [why : Reason, from : File \cup {NoFile}, chain : Seq(File)]

ResolverType ==
    /\ disk \in Disks
    /\ phase \in {"imports", "register", "built", "failed"} /\ pos \in Nat \ {0}
    /\ stack \in Seq(File) /\ finished \in Seq(File)
    /\ frames \in Seq(Call) /\ errors \in Seq(Report)

(* The file whose imports call k goes through is that of call k - 1. *)
CallerOf(k) == IF k = 1 THEN Main ELSE frames[k - 1].import.from
NextOf(k)   == IF k = 1 THEN pos ELSE frames[k - 1].next

(* Each call is of the import its caller has come to. *)
CallsFollow ==
    /\ frames # <<>> => phase = "imports"
    /\ \A k \in DOMAIN frames :
          /\ NextOf(k) \in DOMAIN disk[CallerOf(k)].imports
          /\ disk[CallerOf(k)].imports[NextOf(k)] = frames[k].import

(* What a caller has passed is resolved, for the built file until an error. *)
Passed(k) ==
    /\ NextOf(k) <= Len(disk[CallerOf(k)].imports) + 1
    /\ \A i \in 1 .. NextOf(k) - 1 : disk[CallerOf(k)].imports[i].from \in Range(finished)
PastResolved ==
    /\ \A k \in 2 .. Len(frames) + 1 : Passed(k)
    /\ phase = "imports" /\ errors = <<>> => Passed(1)
    /\ phase \in {"register", "built"} => Imports(Main) \subseteq Range(finished)

(* A file is finished after all that it imports. *)
FinishedInOrder ==
    \A j \in DOMAIN finished : \A f \in Imports(finished[j]) :
        \E k \in 1 .. j - 1 : finished[k] = f

(* Until an error the stack holds nothing but the calls that run. *)
NothingLeft == errors = <<>> => Len(stack) = Len(frames)

ResolverInv ==
    ResolverType /\ StackIsPath /\ CallsFollow /\ PastResolved /\ FinishedInOrder /\ NothingLeft

LEMMA Files ==
    ASSUME ResolverType, NEW f \in File
    PROVE  /\ disk[f].imports \in Seq(ImportDecl)
           /\ Len(disk[f].imports) \in Nat
           /\ DOMAIN disk[f].imports = 1 .. Len(disk[f].imports)
<1>1. disk[f] \in Program
  BY DisksAreTyped DEF ResolverType
<1> QED  BY <1>1 DEF Program, ImportDecl

(* The call that runs is the last, or the build itself. *)
LEMMA Running ==
    ASSUME ResolverType
    PROVE  /\ Len(frames) \in Nat
           /\ Caller = CallerOf(Len(frames) + 1) /\ NextImport = NextOf(Len(frames) + 1)
           /\ \A k \in 1 .. Len(frames) + 1 : CallerOf(k) \in File /\ NextOf(k) \in Nat \ {0}
<1>1. frames \in Seq(Call) /\ pos \in Nat \ {0}
  BY DEF ResolverType
<1>2. Len(frames) \in Nat /\ (frames = <<>> <=> Len(frames) + 1 = 1)
  BY <1>1, EmptySeq
<1>3. \A k \in DOMAIN frames : frames[k].import.from \in File /\ frames[k].next \in Nat \ {0}
  <2> SUFFICES ASSUME NEW k \in DOMAIN frames
               PROVE  frames[k].import.from \in File /\ frames[k].next \in Nat \ {0}
    OBVIOUS
  <2>1. frames[k] \in Call
    BY <1>1
  <2> QED  BY <2>1 DEF Call
<1>4. \A k \in 1 .. Len(frames) + 1 : k # 1 => k - 1 \in DOMAIN frames
  BY <1>1, <1>2
<1>5. Caller = CallerOf(Len(frames) + 1) /\ NextImport = NextOf(Len(frames) + 1)
  BY <1>2 DEF Caller, NextImport, CallerOf, NextOf, Last
<1>6. \A k \in 1 .. Len(frames) + 1 : CallerOf(k) \in File /\ NextOf(k) \in Nat \ {0}
  BY <1>1, <1>3, <1>4, FilesAreKnown DEF CallerOf, NextOf
<1> QED  BY <1>2, <1>5, <1>6

LEMMA TheImport ==
    ASSUME ResolverType, Waiting
    PROVE  /\ Import \in ImportDecl /\ Import.from \in Imports(Caller)
           /\ Caller \in File /\ NextImport \in 1 .. Len(disk[Caller].imports)
<1>1. Caller \in File
  BY Running
<1>2. NextImport \in DOMAIN disk[Caller].imports
  BY DEF Waiting
<1> QED  BY <1>1, <1>2, Files DEF Import, Imports

LEMMA SameOrder ==
    ASSUME FinishedInOrder, UNCHANGED <<disk, finished>>
    PROVE  FinishedInOrder'
<1>1. \A f : Imports(f)' = Imports(f)
  BY DEF Imports
<1>2. finished' = finished
  OBVIOUS
<1> QED  BY <1>1, <1>2 DEF FinishedInOrder

-----------------------------------------------------------------------------
(* An error: all calls return. *)

LEMMA CallsReturn ==
    ASSUME ResolverInv, phase = "imports", stack' = stack \/ (frames # <<>> /\ stack' = Front(stack)),
           NEW e \in Report, errors' = Append(errors, e),
           frames' = <<>>, pos' = pos + 1, UNCHANGED <<disk, phase, finished>>
    PROVE  ResolverInv'
<1> USE DEF ResolverInv
<1>1. Len(stack) \in Nat /\ Len(frames) \in Nat /\ DOMAIN stack = 1 .. Len(stack)
  BY DEF ResolverType
<1>2. frames # <<>> => stack # <<>>
  BY <1>1, EmptySeq DEF ResolverType, StackIsPath
<1>3. /\ stack' \in Seq(File) /\ DOMAIN stack' \subseteq DOMAIN stack
      /\ \A i \in DOMAIN stack' : stack'[i] = stack[i]
  <2>1. CASE stack' = stack
    BY <2>1 DEF ResolverType
  <2>2. CASE stack' # stack
    <3>1. stack \in Seq(File) /\ stack # <<>> /\ stack' = Front(stack)
      BY <1>2, <2>2 DEF ResolverType
    <3>2. /\ stack' \in Seq(File) /\ Len(stack') = Len(stack) - 1
          /\ \A i \in 1 .. Len(stack) - 1 : stack'[i] = stack[i]
      BY <3>1, FrontProperties
    <3>3. DOMAIN stack' = 1 .. Len(stack) - 1
      BY <3>2
    <3> QED  BY <1>1, <3>2, <3>3
  <2> QED  BY <2>1, <2>2
<1>4. errors' \in Seq(Report) /\ errors' # <<>>
  BY AppendProperties DEF ResolverType
<1>5. ResolverType'
  BY <1>3, <1>4 DEF ResolverType
<1>6. StackIsPath'
  <2>1. frames' = <<>> /\ DOMAIN frames' = {} /\ Len(frames') = 0 /\ Len(stack') \in Nat
    BY <1>3
  <2> QED  BY <1>3, <2>1 DEF StackIsPath
<1>7. CallsFollow' /\ PastResolved' /\ NothingLeft'
  BY <1>4 DEF CallsFollow, PastResolved, NothingLeft
<1>8. FinishedInOrder'
  BY SameOrder
<1> QED  BY <1>5, <1>6, <1>7, <1>8

LEMMA NoResolution ==
    ASSUME ResolverInv, frames = <<>>,
           phase' \in {"imports", "register", "built", "failed"}, pos' \in Nat \ {0}, errors' \in Seq(Report),
           phase' = "imports" => phase = "imports" /\ UNCHANGED <<pos, errors>>,
           phase' \in {"register", "built"} => Imports(Main) \subseteq Range(finished),
           errors' = <<>> => errors = <<>>,
           UNCHANGED <<disk, stack, frames, finished>>
    PROVE  ResolverInv'
<1> USE DEF ResolverInv
<1>1. ResolverType' /\ NothingLeft' /\ FinishedInOrder'
  BY SameOrder DEF ResolverType, NothingLeft
<1>2. StackIsPath' /\ CallsFollow'
  BY DEF StackIsPath, CallsFollow
<1>3. Imports(Main)' = Imports(Main)
  BY DEF Imports
<1>4. PastResolved'
  <2>1. Len(frames') = 0
    OBVIOUS
  <2>2. phase' = "imports" /\ errors' = <<>> => Passed(1)'
    BY DEF PastResolved, Passed, NextOf, CallerOf
  <2> QED  BY <1>3, <2>1, <2>2 DEF PastResolved
<1> QED  BY <1>1, <1>2, <1>4

-----------------------------------------------------------------------------
(* A call for a file that is not on the stack. *)

LEMMA EnterKeeps ==
    ASSUME ResolverInv, Enter
    PROVE  ResolverInv'
<1> USE DEF ResolverInv
<1> DEFINE f == Import.from
           call == [import |-> Import, next |-> 1]
<1>1. /\ stack \in Seq(File) /\ frames \in Seq(Call) /\ Len(stack) \in Nat /\ Len(frames) \in Nat
      /\ DOMAIN stack = 1 .. Len(stack) /\ DOMAIN frames = 1 .. Len(frames)
  BY DEF ResolverType
<1>2. f \in File /\ f \notin Range(stack)
  BY DEF Enter
<1>3. call \in Call
  <2>1. Import \in ImportDecl
    BY TheImport DEF Enter
  <2> QED  BY <1>2, <2>1 DEF ImportDecl, Call
<1>4. /\ stack' = Append(stack, f) /\ frames' = Append(frames, call)
      /\ UNCHANGED <<disk, phase, pos, errors, finished>>
  BY DEF Enter
<1>5. /\ stack' \in Seq(File) /\ Len(stack') = Len(stack) + 1 /\ DOMAIN stack' = 1 .. Len(stack) + 1
      /\ \A i \in 1 .. Len(stack) : stack'[i] = stack[i]
      /\ stack'[Len(stack) + 1] = f
  BY <1>1, <1>2, <1>4, AppendProperties
<1>6. /\ frames' \in Seq(Call) /\ Len(frames') = Len(frames) + 1 /\ DOMAIN frames' = 1 .. Len(frames) + 1
      /\ \A k \in 1 .. Len(frames) : frames'[k] = frames[k]
      /\ frames'[Len(frames) + 1] = call
  BY <1>1, <1>3, <1>4, AppendProperties
<1>7. ResolverType'
  BY <1>4, <1>5, <1>6 DEF ResolverType
<1>8. StackIsPath'
  <2>1. \A i \in 1 .. Len(stack) : stack[i] # f
    BY <1>1, <1>2 DEF Range
  <2>2. \A i, j \in DOMAIN stack' : stack'[i] = stack'[j] => i = j
    BY <1>1, <1>5, <2>1 DEF StackIsPath
  <2>3. Len(frames') <= Len(stack') /\ Below' = Below
    BY <1>1, <1>5, <1>6 DEF StackIsPath, Below
  <2>4. Below \in Nat /\ Below + Len(frames) = Len(stack)
    BY <1>1 DEF StackIsPath, Below
  <2>5. ASSUME NEW i \in DOMAIN frames'
        PROVE  frames'[i].import.from = stack'[Below + i]
    <3>1. CASE i \in DOMAIN frames
      BY <1>1, <1>5, <1>6, <2>4, <3>1 DEF StackIsPath
    <3>2. CASE i = Len(frames) + 1
      <4>1. Below + i = Len(stack) + 1
        BY <1>1, <2>4, <3>2
      <4> QED  BY <1>5, <1>6, <3>2, <4>1
    <3> QED  BY <1>1, <1>6, <3>1, <3>2
  <2> QED  BY <2>2, <2>3, <2>5 DEF StackIsPath
(* The callers of the running calls are as before; the new one has the file. *)
<1> PICK n \in Nat : n = Len(frames)
  BY <1>1
<1>9. /\ \A k \in 1 .. n + 1 : CallerOf(k)' = CallerOf(k) /\ NextOf(k)' = NextOf(k)
      /\ CallerOf(n + 2)' = f /\ NextOf(n + 2)' = 1
  <2>1. ASSUME NEW k \in 1 .. n + 1
        PROVE  CallerOf(k)' = CallerOf(k) /\ NextOf(k)' = NextOf(k)
    <3>1. CASE k = 1
      BY <1>4, <3>1 DEF CallerOf, NextOf
    <3>2. CASE k # 1
      <4>1. frames'[k - 1] = frames[k - 1]
        BY <1>6, <3>2
      <4> QED  BY <3>2, <4>1 DEF CallerOf, NextOf
    <3> QED  BY <3>1, <3>2
  <2>2. n + 2 # 1 /\ frames'[n + 2 - 1] = call
    BY <1>6
  <2> QED  BY <2>1, <2>2 DEF CallerOf, NextOf
<1>10. CallsFollow'
  <2>1. phase = "imports"
    BY DEF Enter, Waiting
  <2>2. NextOf(Len(frames) + 1) \in DOMAIN disk[CallerOf(Len(frames) + 1)].imports
    BY Running DEF Enter, Waiting
  <2>3. disk[CallerOf(Len(frames) + 1)].imports[NextOf(Len(frames) + 1)] = Import
    BY Running DEF Import
  <2>4. ASSUME NEW k \in DOMAIN frames'
        PROVE  /\ NextOf(k) \in DOMAIN disk[CallerOf(k)].imports
               /\ disk[CallerOf(k)].imports[NextOf(k)] = frames'[k].import
    <3>1. CASE k \in DOMAIN frames
      BY <1>1, <1>6, <3>1 DEF CallsFollow
    <3>2. CASE k = Len(frames) + 1
      BY <1>6, <2>2, <2>3, <3>2
    <3> QED  BY <1>1, <1>6, <3>1, <3>2
  <2> QED  BY <1>1, <1>4, <1>6, <1>9, <2>1, <2>4 DEF CallsFollow
<1>11. PastResolved'
  <2>1. \A k \in 1 .. n + 1 : Passed(k)' <=> Passed(k)
    BY <1>4, <1>9 DEF Passed
  <2>2. Passed(n + 2)'
    BY <1>2, <1>4, <1>9, Files DEF Passed
  <2>3. Imports(Main)' = Imports(Main)
    BY <1>4 DEF Imports
  <2>4. ASSUME NEW k \in 2 .. n + 2
        PROVE  Passed(k)'
    BY <2>1, <2>2 DEF PastResolved
  <2>5. phase' = "imports" /\ errors' = <<>> => Passed(1)'
    BY <1>4, <2>1 DEF PastResolved
  <2> QED  BY <1>4, <1>6, <2>3, <2>4, <2>5 DEF PastResolved
<1>12. FinishedInOrder' /\ NothingLeft'
  BY <1>1, <1>4, <1>5, <1>6, SameOrder DEF NothingLeft
<1> QED  BY <1>7, <1>8, <1>10, <1>11, <1>12

-----------------------------------------------------------------------------
(* The last call returns. *)

LEMMA BindAllKeeps ==
    ASSUME ResolverInv, BindAll
    PROVE  ResolverInv'
<1> USE DEF ResolverInv
<1> DEFINE calls == Front(frames)
<1> PICK n \in Nat : n = Len(frames)
  BY DEF ResolverType
<1> PICK f : f = Last(frames).import.from
  OBVIOUS
<1>1. /\ stack \in Seq(File) /\ frames \in Seq(Call) /\ Len(stack) \in Nat /\ finished \in Seq(File)
      /\ DOMAIN stack = 1 .. Len(stack) /\ DOMAIN frames = 1 .. n /\ DOMAIN finished = 1 .. Len(finished)
      /\ frames # <<>> /\ pos \in Nat \ {0}
  BY DEF ResolverType, BindAll, AllDone
<1>2. /\ n >= 1 /\ calls \in Seq(Call) /\ Len(calls) = n - 1 /\ DOMAIN calls = 1 .. n - 1
      /\ \A k \in 1 .. n - 1 : calls[k] = frames[k]
      /\ f \in File /\ f = frames[n].import.from
  <2>1. /\ Front(frames) \in Seq(Call) /\ Len(frames) \in Nat \ {0}
        /\ Len(Front(frames)) = Len(frames) - 1
        /\ \A k \in 1 .. Len(frames) - 1 : Front(frames)[k] = frames[k]
    BY <1>1, FrontProperties
  <2>2. n >= 1 /\ n \in DOMAIN frames
    BY <1>1, <2>1
  <2>3. frames[n] \in Call /\ f = frames[n].import.from
    BY <1>1, <2>2 DEF Last
  <2>4. f \in File
    BY <2>3 DEF Call
  <2>5. DOMAIN calls = 1 .. n - 1
    BY <2>1
  <2> QED  BY <2>1, <2>2, <2>3, <2>4, <2>5
<1>3. /\ stack' = Front(stack) /\ Return(calls) /\ Finish(f)
      /\ phase = "imports" /\ UNCHANGED <<disk, phase, errors>>
  BY DEF BindAll, AllDone
<1>4. Len(stack) >= n
  BY <1>1 DEF StackIsPath
<1>5. /\ stack' \in Seq(File) /\ Len(stack') = Len(stack) - 1 /\ DOMAIN stack' = 1 .. Len(stack) - 1
      /\ \A i \in 1 .. Len(stack) - 1 : stack'[i] = stack[i]
  <2>1. stack # <<>>
    BY <1>2, <1>4, EmptySeq
  <2>2. /\ stack' \in Seq(File) /\ Len(stack') = Len(stack) - 1
        /\ \A i \in 1 .. Len(stack) - 1 : stack'[i] = stack[i]
    BY <1>1, <1>3, <2>1, FrontProperties
  <2> QED  BY <2>2
(* The calls that are left, the last of them a step further. *)
<1>6. /\ frames' \in Seq(Call) /\ Len(frames') = n - 1 /\ DOMAIN frames' = 1 .. n - 1
      /\ \A k \in 1 .. n - 1 : frames'[k].import = frames[k].import
      /\ \A k \in 1 .. n - 2 : frames'[k].next = frames[k].next
      /\ n >= 2 => frames'[n - 1].next = frames[n - 1].next + 1
      /\ pos' = IF n = 1 THEN pos + 1 ELSE pos
  <2>1. CASE n = 1
    <3>1. calls = <<>>
      BY <1>2, <2>1, EmptySeq
    <3>2. frames' = <<>> /\ pos' = pos + 1
      BY <1>3, <3>1 DEF Return
    <3> QED  BY <2>1, <3>2
  <2>2. CASE n >= 2
    <3>1. calls # <<>>
      BY <1>2, <2>2
    <3>2. frames' = [calls EXCEPT ![n - 1].next = @ + 1] /\ pos' = pos
      BY <1>2, <1>3, <3>1 DEF Return
    <3>3. calls[n - 1] \in Call
      BY <1>2, <2>2
    <3>4. [calls[n - 1] EXCEPT !.next = @ + 1] \in Call
      BY <3>3 DEF Call
    <3>5. frames' = [calls EXCEPT ![n - 1] = [calls[n - 1] EXCEPT !.next = @ + 1]]
      BY <3>2
    <3>6. frames' \in Seq(Call) /\ Len(frames') = n - 1 /\ DOMAIN frames' = 1 .. n - 1
      BY <1>2, <2>2, <3>4, <3>5
    <3>7. \A k \in 1 .. n - 2 : frames'[k] = frames[k]
      BY <1>2, <3>5
    <3>8. frames'[n - 1].import = frames[n - 1].import /\ frames'[n - 1].next = frames[n - 1].next + 1
      <4>1. n - 1 \in DOMAIN calls /\ calls[n - 1] = frames[n - 1]
        BY <1>2, <2>2
      <4>2. frames'[n - 1] = [frames[n - 1] EXCEPT !.next = @ + 1]
        BY <3>5, <4>1
      <4> QED  BY <3>3, <4>1, <4>2 DEF Call
    <3>9. \A k \in 1 .. n - 1 : k \in 1 .. n - 2 \/ k = n - 1
      OBVIOUS
    <3> QED  BY <2>2, <3>2, <3>6, <3>7, <3>8, <3>9
  <2> QED  BY <1>2, <2>1, <2>2
<1>7. /\ finished' \in Seq(File) /\ f \in Range(finished')
      /\ Range(finished) \subseteq Range(finished')
  <2>1. CASE f \in Range(finished)
    BY <1>1, <1>3, <2>1 DEF Finish
  <2>2. CASE f \notin Range(finished)
    BY <1>1, <1>2, <1>3, <2>2, AppendRange DEF Finish
  <2> QED  BY <2>1, <2>2
<1>8. ResolverType'
  BY <1>1, <1>3, <1>5, <1>6, <1>7 DEF ResolverType
<1>9. StackIsPath' /\ NothingLeft'
  <2>1. Len(frames') <= Len(stack') /\ Below' = Below
    BY <1>1, <1>4, <1>5, <1>6 DEF Below
  <2>2. Below \in Nat /\ Below + n = Len(stack)
    BY <1>1, <1>4 DEF Below
  <2>3. \A i \in 1 .. n - 1 : Below + i \in 1 .. Len(stack) - 1
    BY <2>2
  <2>4. ASSUME NEW i \in DOMAIN frames'
        PROVE  frames'[i].import.from = stack'[Below + i]
    <3>1. i \in DOMAIN frames /\ i \in 1 .. n - 1 /\ frames'[i].import = frames[i].import
      BY <1>1, <1>6, SMTT(40)
    <3>2. stack'[Below + i] = stack[Below + i]
      BY <1>5, <2>3, <3>1
    <3> QED  BY <3>1, <3>2 DEF StackIsPath
  <2>5. \A i, j \in DOMAIN stack' : stack'[i] = stack'[j] => i = j
    BY <1>1, <1>5 DEF StackIsPath
  <2>6. NothingLeft'
    BY <1>3, <1>5, <1>6 DEF NothingLeft
  <2> QED  BY <2>1, <2>4, <2>5, <2>6 DEF StackIsPath
<1>10. /\ \A k \in 1 .. n : CallerOf(k)' = CallerOf(k)
       /\ \A k \in 1 .. n - 1 : NextOf(k)' = NextOf(k)
       /\ NextOf(n)' = NextOf(n) + 1
  <2>1. ASSUME NEW k \in 1 .. n
        PROVE  CallerOf(k)' = CallerOf(k)
    <3>1. CASE k = 1
      BY <3>1 DEF CallerOf
    <3>2. CASE k # 1
      <4>1. frames'[k - 1].import = frames[k - 1].import
        BY <1>6, <3>2
      <4> QED  BY <3>2, <4>1 DEF CallerOf
    <3> QED  BY <3>1, <3>2
  <2>2. ASSUME NEW k \in 1 .. n - 1
        PROVE  NextOf(k)' = NextOf(k)
    <3>1. CASE k = 1
      BY <1>6, <3>1 DEF NextOf
    <3>2. CASE k # 1
      <4>1. frames'[k - 1].next = frames[k - 1].next
        BY <1>6, <3>2
      <4> QED  BY <3>2, <4>1 DEF NextOf
    <3> QED  BY <3>1, <3>2
  <2>3. NextOf(n)' = NextOf(n) + 1
    <3>1. CASE n = 1
      BY <1>6, <3>1 DEF NextOf
    <3>2. CASE n # 1
      BY <1>2, <1>6, <3>2 DEF NextOf
    <3> QED  BY <3>1, <3>2
  <2> QED  BY <2>1, <2>2, <2>3
<1>11. CallsFollow'
  <2>1. ASSUME NEW k \in 1 .. n - 1
        PROVE  /\ NextOf(k) \in DOMAIN disk[CallerOf(k)].imports
               /\ disk[CallerOf(k)].imports[NextOf(k)] = frames'[k].import
    <3>1. k \in DOMAIN frames /\ frames'[k].import = frames[k].import
      BY <1>1, <1>6
    <3> QED  BY <3>1 DEF CallsFollow
  <2> QED  BY <1>3, <1>6, <1>10, <2>1 DEF CallsFollow
(* The file that returns has passed all it imports. *)
<1>12. Imports(f) \subseteq Range(finished)
  <2>1. CallerOf(n + 1) = f /\ ~ (NextOf(n + 1) \in DOMAIN disk[f].imports)
    BY <1>2, <1>3, Running DEF BindAll, AllDone, Waiting, CallerOf
  <2>2. Passed(n + 1) /\ NextOf(n + 1) \in Nat \ {0}
    BY <1>2, Running DEF PastResolved
  <2>3. DOMAIN disk[f].imports = 1 .. Len(disk[f].imports) /\ Len(disk[f].imports) \in Nat
    BY <1>2, Files
  <2>4. NextOf(n + 1) = Len(disk[f].imports) + 1
    <3>1. NextOf(n + 1) <= Len(disk[f].imports) + 1
      BY <2>1, <2>2 DEF Passed
    <3> QED  BY <2>1, <2>2, <2>3, <3>1
  <2> QED  BY <2>1, <2>2, <2>3, <2>4 DEF Passed, Imports
<1>13. PastResolved'
  <2>1. ASSUME NEW k \in 1 .. n - 1, Passed(k)
        PROVE  Passed(k)'
    BY <1>3, <1>7, <1>10, <2>1, SMTT(40) DEF Passed
  <2>2. ASSUME Passed(n)
        PROVE  Passed(n)'
    <3>1. /\ CallerOf(n) \in File /\ NextOf(n) \in Nat \ {0}
          /\ NextOf(n) \in DOMAIN disk[CallerOf(n)].imports
          /\ disk[CallerOf(n)].imports[NextOf(n)] = frames[n].import
      BY <1>1, <1>2, Running DEF CallsFollow
    <3>2. disk[CallerOf(n)].imports[NextOf(n)].from \in Range(finished')
      BY <1>2, <1>7, <3>1
    <3>3. NextOf(n) + 1 <= Len(disk[CallerOf(n)].imports) + 1
      BY <3>1, Files
    <3>4. \A i \in 1 .. NextOf(n) : i \in 1 .. NextOf(n) - 1 \/ i = NextOf(n)
      BY <3>1
    <3>5. \A i \in 1 .. NextOf(n) : disk[CallerOf(n)].imports[i].from \in Range(finished')
      BY <1>7, <2>2, <3>2, <3>4 DEF Passed
    <3>6. CallerOf(n)' = CallerOf(n) /\ NextOf(n)' = NextOf(n) + 1 /\ NextOf(n)' - 1 = NextOf(n)
      BY <1>2, <1>10, <3>1
    <3> QED  BY <1>3, <3>3, <3>5, <3>6 DEF Passed
  <2>3. \A k \in 1 .. n : Passed(k) => Passed(k)'
    <3>1. \A k \in 1 .. n : k \in 1 .. n - 1 \/ k = n
      OBVIOUS
    <3> QED  BY <2>1, <2>2, <3>1
  <2>4. \A k \in 2 .. n : Passed(k)'
    BY <2>3 DEF PastResolved
  <2>5. phase' = "imports" /\ errors' = <<>> => Passed(1)'
    BY <1>2, <1>3, <2>3 DEF PastResolved
  <2> QED  BY <1>3, <1>6, <2>4, <2>5 DEF PastResolved
<1>14. FinishedInOrder'
  <2>1. \A g : Imports(g)' = Imports(g)
    BY <1>3 DEF Imports
  <2>2. CASE f \in Range(finished)
    BY <1>3, <2>1, <2>2 DEF FinishedInOrder, Finish
  <2>3. CASE f \notin Range(finished)
    <3>1. finished' = Append(finished, f)
      BY <1>3, <2>3 DEF Finish
    <3>2. /\ Len(finished) \in Nat /\ DOMAIN finished' = 1 .. Len(finished) + 1
          /\ \A j \in 1 .. Len(finished) : finished'[j] = finished[j]
          /\ finished'[Len(finished) + 1] = f
      BY <1>1, <1>2, <3>1, AppendProperties
    <3>3. ASSUME NEW j \in DOMAIN finished', NEW g \in Imports(finished'[j])
          PROVE  \E k \in 1 .. j - 1 : finished'[k] = g
      <4>1. CASE j \in DOMAIN finished
        <5>1. PICK k \in 1 .. j - 1 : finished[k] = g
          BY <1>1, <3>2, <3>3, <4>1 DEF FinishedInOrder
        <5> QED  BY <1>1, <3>2, <4>1, <5>1
      <4>2. CASE j = Len(finished) + 1
        <5>1. PICK k \in DOMAIN finished : finished[k] = g
          BY <1>12, <3>2, <3>3, <4>2 DEF Range
        <5> QED  BY <1>1, <3>2, <4>2, <5>1
      <4> QED  BY <1>1, <3>2, <4>1, <4>2
    <3> QED  BY <2>1, <3>3 DEF FinishedInOrder
  <2> QED  BY <2>2, <2>3
<1> QED  BY <1>8, <1>9, <1>11, <1>13, <1>14

-----------------------------------------------------------------------------
(* The invariant holds. *)

LEMMA InitResolver ==
    ASSUME Init
    PROVE  ResolverInv
<1>1. ResolverType
  BY DEF Init, ResolverType
<1>2. Passed(1)
  <2>1. Len(disk[Main].imports) \in Nat
    BY <1>1, Files, FilesAreKnown
  <2> QED  BY <2>1 DEF Init, Passed, NextOf, CallerOf
<1>3. StackIsPath /\ CallsFollow /\ PastResolved /\ FinishedInOrder /\ NothingLeft
  BY <1>2 DEF Init, StackIsPath, CallsFollow, PastResolved, FinishedInOrder, NothingLeft
<1> QED  BY <1>1, <1>3 DEF ResolverInv

LEMMA NextResolver ==
    ASSUME ResolverInv, [Next]_vars
    PROVE  ResolverInv'
<1>1. ResolverType
  BY DEF ResolverInv
<1>2. CASE PathFails
  <2>1. Import \in ImportDecl
    BY <1>1, <1>2, TheImport DEF PathFails
  <2>2. [why |-> "path", from |-> Import.from, chain |-> <<>>] \in Report
    BY <2>1 DEF ImportDecl, Report, Reason
  <2> QED  BY <1>2, <2>2, CallsReturn DEF PathFails, Fail, Waiting
<1>3. CASE CircularImport
  <2>1. Import \in ImportDecl
    BY <1>1, <1>3, TheImport DEF CircularImport
  <2>2. [why |-> "circular", from |-> Import.from, chain |-> stack] \in Report
    BY <1>1, <2>1 DEF ImportDecl, Report, Reason, ResolverType
  <2> QED  BY <1>3, <2>2, CallsReturn DEF CircularImport, Fail, Waiting
<1>4. CASE ParseFails
  <2>1. [why |-> "parse", from |-> Import.from, chain |-> <<>>] \in Report
    BY <1>4 DEF ParseFails, Report, Reason
  <2> QED  BY <1>4, <2>1, CallsReturn DEF ParseFails, Fail, Waiting
<1>5. CASE BindFails
  <2>1. frames # <<>> /\ frames \in Seq(Call)
    BY <1>1, <1>5 DEF BindFails, AllDone, ResolverType
  <2>2. Last(frames) \in Call
    BY <2>1, FrontProperties
  <2>3. [why |-> "name", from |-> Last(frames).import.from, chain |-> <<>>] \in Report
    BY <2>2 DEF Call, Report, Reason
  <2> QED  BY <1>5, <2>1, <2>3, CallsReturn DEF BindFails, Fail, AllDone
<1>6. CASE Enter
  BY <1>6, EnterKeeps
<1>7. CASE BindAll
  BY <1>7, BindAllKeeps
(* The built file's imports are all resolved if none of them failed. *)
<1>8. CASE EndImports
  <2>1. errors = <<>> => Imports(Main) \subseteq Range(finished)
    <3> SUFFICES ASSUME errors = <<>>
                 PROVE  Imports(Main) \subseteq Range(finished)
      OBVIOUS
    <3>1. Passed(1) /\ NextOf(1) = pos /\ CallerOf(1) = Main /\ pos \in Nat \ {0}
      BY <1>1, <1>8 DEF EndImports, ResolverInv, PastResolved, NextOf, CallerOf, ResolverType
    <3>2. pos \notin DOMAIN disk[Main].imports
      BY <1>8 DEF EndImports, Waiting, NextImport, Caller
    <3>3. DOMAIN disk[Main].imports = 1 .. Len(disk[Main].imports) /\ Len(disk[Main].imports) \in Nat
      BY <1>1, Files, FilesAreKnown
    <3>4. pos = Len(disk[Main].imports) + 1
      <4>1. pos <= Len(disk[Main].imports) + 1
        BY <3>1 DEF Passed
      <4> QED  BY <3>1, <3>2, <3>3, <4>1
    <3> QED  BY <3>1, <3>3, <3>4 DEF Passed, Imports
  <2>2. errors \in Seq(Report)
    BY <1>1 DEF ResolverType
  <2> QED  BY <1>8, <2>1, <2>2, NoResolution DEF EndImports
<1>9. ASSUME RegisterItem \/ EndItems
      PROVE  ResolverInv'
  <2>1. phase = "register" /\ UNCHANGED <<disk, stack, frames, finished>>
    BY <1>9 DEF RegisterItem, EndItems
  <2>2. frames = <<>> /\ Imports(Main) \subseteq Range(finished)
    BY <2>1 DEF ResolverInv, CallsFollow, PastResolved
  <2>3. /\ phase' \in {"register", "built", "failed"} /\ pos' \in Nat \ {0}
        /\ errors' \in Seq(Report) /\ (errors' = <<>> => errors = <<>>)
    <3>1. CASE RegisterItem
      <4>1. errors \in Seq(Report) /\ pos \in Nat \ {0}
        BY <1>1 DEF ResolverType
      <4>2. [why |-> "duplicate", from |-> Main, chain |-> <<>>] \in Report
        BY FilesAreKnown DEF Report, Reason
      <4>3. \/ errors' = errors
            \/ errors' = Append(errors, [why |-> "duplicate", from |-> Main, chain |-> <<>>])
        BY <3>1 DEF RegisterItem
      <4>4. errors' \in Seq(Report) /\ (errors' = <<>> => errors = <<>>)
        BY <4>1, <4>2, <4>3, AppendProperties
      <4> QED  BY <3>1, <4>1, <4>4 DEF RegisterItem
    <3>2. CASE EndItems
      BY <1>1, <3>2 DEF EndItems, ResolverType
    <3> QED  BY <1>9, <3>1, <3>2
  <2> QED  BY <2>1, <2>2, <2>3, NoResolution
<1>10. CASE UNCHANGED vars
  <2>1. UNCHANGED <<disk, phase, pos, stack, frames, errors, finished>>
    BY <1>10 DEF vars
  <2>2. ResolverType' /\ StackIsPath' /\ NothingLeft' /\ FinishedInOrder'
    BY <2>1, SameOrder DEF ResolverInv, ResolverType, StackIsPath, Below, NothingLeft
  <2>3. \A k : NextOf(k)' = NextOf(k) /\ CallerOf(k)' = CallerOf(k)
    BY <2>1 DEF NextOf, CallerOf
  <2>4. Imports(Main)' = Imports(Main)
    BY <2>1 DEF Imports
  <2>5. \A k : Passed(k)' <=> Passed(k)
    BY <2>1, <2>3 DEF Passed
  <2> QED  BY <2>1, <2>2, <2>3, <2>4, <2>5 DEF ResolverInv, CallsFollow, PastResolved
<1> QED  BY <1>2, <1>3, <1>4, <1>5, <1>6, <1>7, <1>8, <1>9, <1>10 DEF Next, Resolve

THEOREM Resolver == Spec => []ResolverInv
  BY InitResolver, NextResolver, PTL DEF Spec

(* The stack holds the calls that run, and no file twice: the recursion of
   resolve_import is no deeper than there are files. *)
THEOREM StackIsAPath == Spec => []StackIsPath
<1>1. ResolverInv => StackIsPath
  BY DEF ResolverInv
<1> QED  BY <1>1, Resolver, PTL

-----------------------------------------------------------------------------
(* Of a set of files with a cycle the one that is finished first imports one
   that is finished before it. *)
LEMMA FinishedAcyclic ==
    ASSUME ResolverInv, NEW S \in SUBSET Range(finished)
    PROVE  ~ Cyclic(S)
<1> SUFFICES ASSUME Cyclic(S)
             PROVE  FALSE
  OBVIOUS
<1> DEFINE J == {j \in DOMAIN finished : finished[j] \in S}
<1>1. DOMAIN finished = 1 .. Len(finished) /\ Len(finished) \in Nat
  BY DEF ResolverInv, ResolverType
<1>2. J \in SUBSET Nat /\ J # {}
  BY <1>1 DEF Cyclic, Range
<1>3. PICK j \in J : \A k \in J : j <= k
  BY <1>2, LeastIndex
<1>4. PICK f \in Imports(finished[j]) : f \in S
  BY <1>3 DEF Cyclic
<1>5. PICK k \in 1 .. j - 1 : finished[k] = f
  BY <1>3, <1>4 DEF ResolverInv, FinishedInOrder
<1>6. k \in J
  BY <1>1, <1>3, <1>4, <1>5
<1> QED  BY <1>1, <1>3, <1>5, <1>6

(* A build gets its symbol table only if none of the files it depends on
   depends on itself. *)
THEOREM AcyclicWhenBuilt == Spec => []BuiltIsAcyclic
<1>1. ASSUME ResolverInv
      PROVE  BuiltIsAcyclic
  <2> SUFFICES ASSUME phase = "built", NEW S \in SUBSET Reached
               PROVE  ~ Cyclic(S)
    BY DEF BuiltIsAcyclic
  <2>1. Imports(Main) \subseteq Range(finished)
    BY <1>1 DEF ResolverInv, PastResolved
  <2>2. ASSUME NEW g \in Range(finished)
        PROVE  Imports(g) \subseteq Range(finished)
    <3>1. PICK j \in DOMAIN finished : finished[j] = g
      BY DEF Range
    <3>2. \A k \in 1 .. j - 1 : k \in DOMAIN finished
      BY <1>1 DEF ResolverInv, ResolverType
    <3> QED  BY <1>1, <3>1, <3>2 DEF ResolverInv, FinishedInOrder, Range
  <2>3. Range(finished) \in SUBSET File
    BY <1>1 DEF ResolverInv, ResolverType, Range
  <2>4. S \subseteq Range(finished)
    BY <2>1, <2>2, <2>3 DEF Reached
  <2> QED  BY <1>1, <2>4, FinishedAcyclic
<1> QED  BY <1>1, Resolver, PTL

-----------------------------------------------------------------------------
(* While nothing has failed the stack is a path of imports, so what is found
   on it closes a cycle. *)
LEMMA StackClosesCycle ==
    ASSUME ResolverInv, errors = <<>>, CircularImport, NEW e,
           e = [why |-> "circular", from |-> Import.from, chain |-> stack]
    PROVE  Cyclic(Loop(e))
<1> USE DEF ResolverInv
<1> PICK n \in Nat : n = Len(stack)
  BY DEF ResolverType
<1>1. /\ DOMAIN stack = 1 .. n /\ DOMAIN frames = 1 .. n /\ Len(frames) = n /\ Below = 0
      /\ \A i \in 1 .. n : frames[i].import.from = stack[i]
  <2>1. Len(frames) = n /\ stack \in Seq(File) /\ frames \in Seq(Call)
    BY DEF NothingLeft, ResolverType
  <2>2. Below = 0
    BY <2>1 DEF Below
  <2> QED  BY <2>1, <2>2 DEF StackIsPath
<1>2. PICK k \in 1 .. n : stack[k] = Import.from
  BY <1>1 DEF CircularImport, Range
<1>3. Loop(e) = {stack[i] : i \in {j \in 1 .. n : \E h \in 1 .. j : stack[h] = Import.from}}
  BY <1>1 DEF Loop
<1>4. Import.from \in Loop(e)
  BY <1>2, <1>3
<1>5. Import.from \in Imports(stack[n])
  <2>1. Caller = frames[n].import.from
    BY <1>1, <1>2 DEF Caller, Last
  <2> QED  BY <1>1, <1>2, <2>1, TheImport DEF CircularImport
<1>6. ASSUME NEW i \in 1 .. n - 1
      PROVE  stack[i + 1] \in Imports(stack[i])
  <2>1. i + 1 \in DOMAIN frames /\ i + 1 # 1 /\ i + 1 - 1 = i
    BY <1>1
  <2>2. CallerOf(i + 1) = stack[i]
    BY <1>1, <2>1 DEF CallerOf
  <2>3. /\ NextOf(i + 1) \in DOMAIN disk[stack[i]].imports
        /\ disk[stack[i]].imports[NextOf(i + 1)] = frames[i + 1].import
    BY <2>1, <2>2 DEF CallsFollow
  <2>4. frames[i + 1].import.from = stack[i + 1]
    BY <1>1, <2>1
  <2> QED  BY <2>3, <2>4 DEF Imports
<1>7. ASSUME NEW f \in Loop(e)
      PROVE  Imports(f) \cap Loop(e) # {}
  <2>1. PICK i \in 1 .. n : f = stack[i] /\ \E h \in 1 .. i : stack[h] = Import.from
    BY <1>3
  <2>2. CASE i = n
    BY <1>4, <1>5, <2>1, <2>2
  <2>3. CASE i # n
    <3>1. stack[i + 1] \in Loop(e)
      BY <1>3, <2>1, <2>3
    <3>2. i \in 1 .. n - 1
      BY <2>3
    <3> QED  BY <1>6, <2>1, <3>1, <3>2
  <2> QED  BY <2>2, <2>3
<1> QED  BY <1>4, <1>7 DEF Cyclic

(* The first error of a build, if it is of a cycle, is of one there is. *)
THEOREM FirstCycleReal == Spec => []FirstCycleIsReal
<1>1. Init => FirstCycleIsReal
  BY DEF Init, FirstCycleIsReal
<1>2. ASSUME ResolverInv, FirstCycleIsReal, [Next]_vars
      PROVE  FirstCycleIsReal'
  <2>1. \A S : Cyclic(S)' <=> Cyclic(S)
    <3>1. disk' = disk
      BY <1>2 DEF Next, Resolve, PathFails, CircularImport, ParseFails, Enter, BindAll, BindFails,
                  Fail, EndImports, RegisterItem, EndItems, vars
    <3> QED  BY <3>1 DEF Cyclic, Imports
  <2>2. errors \in Seq(Report)
    BY <1>2 DEF ResolverInv, ResolverType
  <2>3. CASE errors' = errors
    <3>1. Loop(errors[1])' = Loop(errors[1])
      BY <2>3 DEF Loop
    <3> QED  BY <1>2, <2>1, <2>3, <3>1 DEF FirstCycleIsReal
  <2>4. CASE \E e : errors' = Append(errors, e)
    <3>1. PICK e : errors' = Append(errors, e)
      BY <2>4
    <3>2. CASE errors # <<>>
      <4>1. errors'[1] = errors[1]
        BY <2>2, <3>1, <3>2
      <4> QED  BY <1>2, <2>1, <3>2, <4>1 DEF FirstCycleIsReal, Loop
    <3>3. CASE errors = <<>> /\ ~ CircularImport
      <4>1. errors'[1].why # "circular"
        BY <1>2, <3>1, <3>3 DEF Next, Resolve, PathFails, ParseFails, Enter, BindAll, BindFails,
                                Fail, EndImports, RegisterItem, EndItems, vars
      <4> QED  BY <4>1 DEF FirstCycleIsReal
    <3>4. CASE errors = <<>> /\ CircularImport
      <4> DEFINE r == [why |-> "circular", from |-> Import.from, chain |-> stack]
      <4>1. errors'[1] = r
        BY <3>4 DEF CircularImport, Fail
      <4>2. Cyclic(Loop(r))
        BY <1>2, <3>4, StackClosesCycle
      <4> QED  BY <2>1, <4>1, <4>2 DEF FirstCycleIsReal, Loop
    <3> QED  BY <3>2, <3>3, <3>4
  <2>5. errors' = errors \/ \E e : errors' = Append(errors, e)
    BY <1>2 DEF Next, Resolve, PathFails, CircularImport, ParseFails, Enter, BindAll, BindFails,
                Fail, EndImports, RegisterItem, EndItems, vars
  <2> QED  BY <2>3, <2>4, <2>5
<1> QED  BY <1>1, <1>2, Resolver, PTL DEF Spec


-----------------------------------------------------------------------------
(* Bounds and positions. *)

LEMMA MaxOfIndices ==
    ASSUME NEW n \in Nat, NEW S \in SUBSET (1 .. n), S # {}
    PROVE  Max(S) \in S /\ \A x \in S : x <= Max(S)
<1> DEFINE T == {n - x : x \in S}
<1>1. T \in SUBSET Nat /\ T # {}
  <2>1. \A x \in S : x \in 1 .. n
    OBVIOUS
  <2>2. \A x \in S : n - x \in Nat
    BY <2>1
  <2> QED  BY <2>2
<1>2. PICK t \in T : \A u \in T : t <= u
  <2> HIDE DEF T
  <2> QED  BY <1>1, LeastIndex
<1>3. PICK x \in S : t = n - x
  BY <1>2
<1>4. \A y \in S : x >= y
  <2>1. \A y \in S : n - y \in T
    OBVIOUS
  <2> HIDE DEF T
  <2>2. \A y \in S : y \in 1 .. n
    OBVIOUS
  <2> QED  BY <1>2, <1>3, <2>1, <2>2
<1> HIDE DEF T
<1> QED  BY <1>3, <1>4 DEF Max

(* What holds of a position when it holds of all before it, holds of all. *)
LEMMA Climb ==
    ASSUME NEW N \in Nat, NEW S,
           \A k \in 0 .. N : (\A j \in 0 .. k - 1 : j \in S) => k \in S
    PROVE  \A k \in 0 .. N : k \in S
<1> DEFINE T == {k \in 0 .. N : k \notin S}
<1>1. CASE T = {}
  BY <1>1
<1>2. CASE T # {}
  <2>1. T \in SUBSET Nat
    OBVIOUS
  <2>2. PICK x \in T : \A y \in T : x <= y
    <3> HIDE DEF T
    <3> QED  BY <1>2, <2>1, LeastIndex
  <2>3. \A j \in 0 .. x - 1 : j \in S
    BY <2>2
  <2> QED  BY <2>2, <2>3
<1> QED  BY <1>1, <1>2

-----------------------------------------------------------------------------
(* Declarations and exports. *)

Declaration == [file : File, name : Name, kind : Kind, exported : BOOLEAN]

LEMMA DeclIs ==
    ASSUME ResolverType, NEW f \in File, NEW i \in DOMAIN disk[f].items
    PROVE  /\ Decl(f, i) \in Declaration /\ Decl(f, i) # NoDecl
           /\ Decl(f, i).name = disk[f].items[i].name
           /\ i \in Nat /\ DOMAIN disk[f].items = 1 .. Len(disk[f].items)
           /\ Len(disk[f].items) \in Nat
<1>1. disk[f] \in Program
  BY DisksAreTyped DEF ResolverType
<1>2. disk[f].items \in Seq([name : Name, kind : Kind \cup {"impl"}, exported : BOOLEAN])
  BY <1>1 DEF Program
<1>3. disk[f].items[i] \in [name : Name, kind : Kind \cup {"impl"}, exported : BOOLEAN]
  <2> DEFINE Items == [name : Name, kind : Kind \cup {"impl"}, exported : BOOLEAN]
  <2> HIDE DEF Items
  <2>1. disk[f].items \in Seq(Items)
    BY <1>2 DEF Items
  <2>2. disk[f].items[i] \in Items
    BY <2>1
  <2> QED  BY <2>2 DEF Items
<1>4. Decl(f, i) \in Declaration /\ Decl(f, i).name = disk[f].items[i].name
  BY <1>3, ImplIsApart DEF Decl, Declaration
<1>5. Decl(f, i).kind # "none"
  BY <1>4, ImplIsApart DEF Declaration
<1>6. Decl(f, i) # NoDecl
  BY <1>5 DEF NoDecl
<1> QED  BY <1>2, <1>4, <1>6

Own(f) == {n \in Name : Declared(f, n) # {}}

(* What a file exports under a name of its own is its declaration of it, and what
   it exports under another is what the table holds. *)
LEMMA ExportIs ==
    ASSUME ResolverType, NEW f \in File, NEW n, ExportOf(f, n) # NoDecl
    PROVE  /\ Declared(f, n) # {} =>
                /\ ExportOf(f, n) \in Declaration /\ ExportOf(f, n).name = n
                /\ Exported(ExportOf(f, n)) \/ Disclosed(n)
           /\ Declared(f, n) = {} => ExportOf(f, n) = Found(n)
<1>1. ASSUME NEW S, S \subseteq Declared(f, n), S # {}
      PROVE  /\ Max(S) \in S /\ Decl(f, Max(S)) \in Declaration /\ Decl(f, Max(S)).name = n
  <2>1. PICK N \in Nat : DOMAIN disk[f].items = 1 .. N
    BY <1>1, DeclIs DEF Declared
  <2>2. S \in SUBSET (1 .. N)
    BY <1>1, <2>1 DEF Declared
  <2>3. Max(S) \in S
    BY <1>1, <2>2, MaxOfIndices
  <2>4. Max(S) \in DOMAIN disk[f].items /\ disk[f].items[Max(S)].name = n
    BY <1>1, <2>3 DEF Declared
  <2> QED  BY <2>3, <2>4, DeclIs
<1>2. Public(f, n) \subseteq Declared(f, n)
  BY DEF Public
<1>3. CASE n \in disk[f].exports /\ Declared(f, n) # {}
  <2>1. ExportOf(f, n) = Decl(f, Max(Declared(f, n)))
    BY <1>3 DEF ExportOf
  <2>2. Exported(ExportOf(f, n)) \/ Disclosed(n)
    BY <1>3, <2>1 DEF Disclosed
  <2> QED  BY <1>1, <1>3, <2>1, <2>2
<1>4. CASE n \in disk[f].exports /\ Declared(f, n) = {}
  BY <1>4 DEF ExportOf
<1>5. CASE n \notin disk[f].exports
  <2>1. Public(f, n) # {} /\ ExportOf(f, n) = Decl(f, Max(Public(f, n)))
    BY <1>5 DEF ExportOf
  <2>2. Max(Public(f, n)) \in Public(f, n)
    BY <1>1, <1>2, <2>1
  <2>3. Exported(ExportOf(f, n))
    <3>1. PICK i : i = Max(Public(f, n))
      OBVIOUS
    <3>2. i \in Declared(f, n) /\ Exported(disk[f].items[i])
      BY <2>2, <3>1 DEF Public
    <3>3. Decl(f, i).kind = disk[f].items[i].kind /\ Decl(f, i).exported = disk[f].items[i].exported
      BY <3>2 DEF Declared, Decl
    <3> QED  BY <2>1, <3>1, <3>2, <3>3 DEF Exported
  <2> QED  BY <1>1, <1>2, <2>1, <2>3
<1> QED  BY <1>3, <1>4, <1>5

(* Registered, as the loop it is: what it has gathered before each name. *)
Gathered(f, names, u, i) ==
    IF i = 0 THEN <<>>
    ELSE IF Declared(f, names[i]) = {} THEN u[i - 1]
    ELSE Append(u[i - 1], ExportOf(f, names[i]))
Gathers(f, names, u, k) == u = [i \in 0 .. k |-> Gathered(f, names, u, i)]

LEMMA RegisteredGathers ==
    ASSUME NEW f, NEW names, Len(names) \in Nat
    PROVE  \E u : Gathers(f, names, u, Len(names)) /\ Registered(f, names) = u[Len(names)]
<1> DEFINE N == Len(names)
           S == {k \in 0 .. N : \E u : Gathers(f, names, u, k)}
<1>1. ASSUME NEW k \in 0 .. N, \A j \in 0 .. k - 1 : j \in S
      PROVE  k \in S
  <2>1. CASE k = 0
    <3> DEFINE u == [i \in 0 .. 0 |-> <<>>]
    <3>1. \A i \in 0 .. 0 : Gathered(f, names, u, i) = <<>>
      BY DEF Gathered
    <3>2. u = [i \in 0 .. 0 |-> Gathered(f, names, u, i)]
      <4> HIDE DEF u
      <4>1. u = [i \in 0 .. 0 |-> <<>>]
        BY DEF u
      <4> QED  BY <3>1, <4>1
    <3> HIDE DEF u
    <3>3. Gathers(f, names, u, 0)
      BY <3>2 DEF Gathers
    <3> QED  BY <2>1, <3>3
  <2>2. CASE k # 0
    <3>1. k - 1 \in 0 .. k - 1
      BY <2>2
    <3>2. PICK u : Gathers(f, names, u, k - 1)
      BY <1>1, <3>1
    <3> DEFINE w == [i \in 0 .. k |-> Gathered(f, names, u, i)]
    <3>3. u = [i \in 0 .. k - 1 |-> Gathered(f, names, u, i)]
      BY <3>2 DEF Gathers
    <3>4. \A i \in 0 .. k - 1 : w[i] = u[i]
      <4>1. \A i \in 0 .. k - 1 : u[i] = Gathered(f, names, u, i)
        BY <3>3
      <4>2. \A i \in 0 .. k - 1 : i \in 0 .. k
        OBVIOUS
      <4> QED  BY <4>1, <4>2
    <3> HIDE DEF w
    <3>5. \A i \in 0 .. k : i = 0 \/ w[i - 1] = u[i - 1]
      BY <3>4
    <3>6. \A i \in 0 .. k : Gathered(f, names, w, i) = Gathered(f, names, u, i)
      BY <3>5 DEF Gathered
    <3>7. Gathers(f, names, w, k)
      BY <3>6 DEF Gathers, w
    <3> QED  BY <3>7
  <2> QED  BY <2>1, <2>2
<1>2. \A k \in 0 .. N : k \in S
  <2> HIDE DEF S
  <2> QED  BY <1>1, Climb
<1>3. PICK u0 : Gathers(f, names, u0, N)
  BY <1>2
<1> DEFINE U == CHOOSE u : Gathers(f, names, u, N)
<1>4. Gathers(f, names, U, N)
  BY <1>3
<1>5. Registered(f, names) = U[N]
  BY DEF Registered, Gathers, Gathered
<1> HIDE DEF U
<1> QED  BY <1>4, <1>5

RegisteredOK(f, names, k, reg) ==
    /\ reg \in Seq(Declaration)
    /\ \A j \in DOMAIN reg :
          /\ reg[j].name \in Own(f) /\ reg[j] = ExportOf(f, reg[j].name)
          /\ \E i \in 1 .. k : reg[j].name = names[i]
    /\ \A i \in 1 .. k : names[i] \in Own(f) => \E j \in DOMAIN reg : reg[j].name = names[i]

LEMMA RegisteredIs ==
    ASSUME ResolverType, NEW f \in File, NEW names \in Seq(Name),
           \A i \in 1 .. Len(names) : ExportOf(f, names[i]) # NoDecl
    PROVE  RegisteredOK(f, names, Len(names), Registered(f, names))
<1> DEFINE N == Len(names)
<1>1. N \in Nat
  OBVIOUS
<1>2. PICK u : Gathers(f, names, u, N) /\ Registered(f, names) = u[N]
  BY <1>1, RegisteredGathers
<1>3. u = [i \in 0 .. N |-> Gathered(f, names, u, i)]
  BY <1>2 DEF Gathers
<1>4. \A i \in 0 .. N : u[i] = Gathered(f, names, u, i)
  BY <1>3
<1> DEFINE S == {k \in 0 .. N : RegisteredOK(f, names, k, u[k])}
<1>5. ASSUME NEW k \in 0 .. N, \A j \in 0 .. k - 1 : j \in S
      PROVE  k \in S
  <2>1. CASE k = 0
    <3>1. u[k] = <<>>
      BY <1>4, <2>1 DEF Gathered
    <3>2. RegisteredOK(f, names, k, <<>>)
      BY <2>1 DEF RegisteredOK
    <3> QED  BY <3>1, <3>2
  <2>2. CASE k # 0
    <3>1. k - 1 \in 0 .. k - 1 /\ k \in 1 .. N
      BY <2>2
    <3>2. RegisteredOK(f, names, k - 1, u[k - 1])
      BY <1>5, <3>1
    <3>3. PICK r : r = u[k - 1]
      OBVIOUS
    <3>4. PICK n \in Name : n = names[k]
      BY <3>1
    <3>5. \A i \in 1 .. k : i \in 1 .. k - 1 \/ i = k
      OBVIOUS
    <3> HIDE DEF S, N
    <3>6. CASE Declared(f, n) = {}
      <4>1. u[k] = r
        BY <1>4, <2>2, <3>3, <3>4, <3>6 DEF Gathered
      <4>2. n \notin Own(f)
        BY <3>6 DEF Own
      <4>3. RegisteredOK(f, names, k, r)
        BY <3>2, <3>3, <3>4, <3>5, <4>2 DEF RegisteredOK
      <4> QED  BY <4>1, <4>3 DEF S
    <3>7. CASE Declared(f, n) # {}
      <4>1. u[k] = Append(r, ExportOf(f, n))
        BY <1>4, <2>2, <3>3, <3>4, <3>7 DEF Gathered
      <4>2. PICK d : d = ExportOf(f, n)
        OBVIOUS
      <4>3. n \in Own(f) /\ d \in Declaration /\ d.name = n
        BY <3>1, <3>4, <3>7, <4>2, ExportIs DEF Own, N
      <4>4. r \in Seq(Declaration)
        BY <3>2, <3>3 DEF RegisteredOK
      <4>5. PICK v : v = Append(r, d)
        OBVIOUS
      <4>6. /\ v \in Seq(Declaration) /\ Len(r) \in Nat
            /\ DOMAIN r = 1 .. Len(r) /\ DOMAIN v = 1 .. Len(r) + 1
            /\ \A j \in 1 .. Len(r) : v[j] = r[j]
            /\ v[Len(r) + 1] = d
        BY <4>3, <4>4, <4>5
      <4>7. \A j \in 1 .. Len(r) + 1 : j \in 1 .. Len(r) \/ j = Len(r) + 1
        BY <4>6
      <4>8. \A j \in DOMAIN v : /\ v[j].name \in Own(f) /\ v[j] = ExportOf(f, v[j].name)
                                /\ \E i \in 1 .. k : v[j].name = names[i]
        <5>1. ASSUME NEW j \in 1 .. Len(r)
              PROVE  /\ v[j].name \in Own(f) /\ v[j] = ExportOf(f, v[j].name)
                     /\ \E i \in 1 .. k : v[j].name = names[i]
          <6>1. v[j] = r[j] /\ j \in DOMAIN r
            BY <4>6
          <6>2. \A i \in 1 .. k - 1 : i \in 1 .. k
            OBVIOUS
          <6> QED  BY <3>2, <3>3, <6>1, <6>2 DEF RegisteredOK
        <5>2. k \in 1 .. k
          BY <3>1
        <5> QED  BY <3>4, <4>2, <4>3, <4>6, <4>7, <5>1, <5>2
      <4>9. ASSUME NEW i \in 1 .. k, names[i] \in Own(f)
            PROVE  \E j \in DOMAIN v : v[j].name = names[i]
        <5>1. CASE i = k
          BY <3>4, <4>3, <4>6, <5>1
        <5>2. CASE i \in 1 .. k - 1
          <6>1. PICK j \in DOMAIN r : r[j].name = names[i]
            BY <3>2, <3>3, <4>9, <5>2 DEF RegisteredOK
          <6>2. j \in DOMAIN v /\ v[j] = r[j]
            BY <4>6, <6>1
          <6> QED  BY <6>1, <6>2
        <5> QED  BY <3>5, <5>1, <5>2
      <4>10. RegisteredOK(f, names, k, v)
        BY <4>6, <4>8, <4>9 DEF RegisteredOK
      <4> QED  BY <4>1, <4>2, <4>5, <4>10 DEF S
    <3> QED  BY <3>6, <3>7
  <2> QED  BY <2>1, <2>2
<1>6. \A k \in 0 .. N : k \in S
  <2> HIDE DEF S
  <2> QED  BY <1>1, <1>5, Climb
<1>7. RegisteredOK(f, names, N, u[N])
  BY <1>1, <1>6
<1> QED  BY <1>2, <1>7

Importing == [from : File, all : BOOLEAN, names : Seq(Name)]

LEMMA WantedIs ==
    ASSUME NEW import \in Importing
    PROVE  /\ Wanted(import) \in Seq(Name)
           /\ ~ import.all => Wanted(import) = import.names
<1>1. import.names \in Seq(Name) /\ import.all \in BOOLEAN
  BY DEF Importing
<1>2. CASE import.all
  <2> DEFINE E == Exports(import.from)
  <2>1. E \in SUBSET Name /\ IsFiniteSet(E)
    <3>1. E \in SUBSET Name
      BY DEF Exports
    <3> HIDE DEF E
    <3> QED  BY <3>1, NamesAreFinite, FS_Subset
  <2> HIDE DEF E
  <2>2. Cardinality(E) \in Nat /\ ExistsBijection(1 .. Cardinality(E), E)
    BY <2>1, FS_CardinalityType
  <2>3. PICK b : b \in [1 .. Cardinality(E) -> E] /\ IsInjective(b)
    <3>1. PICK b : b \in Bijection(1 .. Cardinality(E), E)
      BY <2>2 DEF ExistsBijection
    <3> QED  BY <3>1 DEF Bijection, Injection, Surjection, IsInjective
  <2>4. SetToSeq(E) \in [1 .. Cardinality(E) -> E]
    BY <2>3 DEF SetToSeq
  <2>5. SetToSeq(E) \in Seq(Name)
    <3>1. SetToSeq(E) \in [1 .. Cardinality(E) -> Name]
      BY <2>1, <2>4
    <3> QED  BY <2>2, <3>1
  <2> QED  BY <1>1, <1>2, <2>5 DEF Wanted, E
<1>3. CASE ~ import.all
  BY <1>1, <1>3 DEF Wanted
<1> QED  BY <1>2, <1>3

LEMMA ServedIs ==
    ASSUME NEW import \in Importing
    PROVE  /\ Served(import) \in Seq(Name)
           /\ \A i \in 1 .. Len(Served(import)) : ExportOf(import.from, Served(import)[i]) # NoDecl
           /\ Missing(import) = {} => Served(import) = Wanted(import)
<1> PICK w \in Seq(Name) : w = Wanted(import)
  BY WantedIs
<1> PICK M : M = Missing(import)
  OBVIOUS
<1>1. /\ Len(w) \in Nat /\ DOMAIN w = 1 .. Len(w)
      /\ M \in SUBSET (1 .. Len(w))
      /\ \A i \in 1 .. Len(w) : i \notin M => ExportOf(import.from, w[i]) # NoDecl
  <2>1. Len(w) \in Nat /\ DOMAIN w = 1 .. Len(w) /\ \A i \in 1 .. Len(w) : w[i] \in Name
    OBVIOUS
  <2>2. M = {i \in 1 .. Len(w) : w[i] \notin Exports(import.from)}
    BY <2>1 DEF Missing
  <2> QED  BY <2>1, <2>2 DEF Exports
<1>2. CASE M = {}
  <2>1. Served(import) = SubSeq(w, 1, Len(w))
    BY <1>2 DEF Served
  <2>2. Served(import) = w
    BY <1>1, <2>1
  <2> QED  BY <1>1, <1>2, <2>2
<1>3. CASE M # {}
  <2>1. PICK m \in M : \A y \in M : m <= y
    BY <1>1, <1>3, LeastIndex
  <2>2. Min(M) \in M /\ \A y \in M : Min(M) <= y
    BY <2>1 DEF Min
  <2>3. PICK k \in 1 .. Len(w) : k = Min(M) /\ \A y \in M : k <= y
    BY <1>1, <2>2
  <2>4. Served(import) = SubSeq(w, 1, k - 1)
    BY <1>3, <2>3 DEF Served
  <2>5. /\ SubSeq(w, 1, k - 1) \in Seq(Name) /\ Len(SubSeq(w, 1, k - 1)) = k - 1
        /\ \A i \in 1 .. k - 1 : SubSeq(w, 1, k - 1)[i] = w[i]
    BY <1>1, <2>3
  <2>6. \A i \in 1 .. k - 1 : i \in 1 .. Len(w) /\ i \notin M
    BY <1>1, <2>3
  <2> QED  BY <1>1, <1>3, <2>4, <2>5, <2>6
<1> QED  BY <1>2, <1>3

-----------------------------------------------------------------------------
(* The tables. *)

(* Both tables hold declarations; while there are imports the local one is empty,
   a private name was imported through an export block, and what can be found is
   the last of its name and kind in the arena. *)
Tables ==
    /\ phase = "imports" => DOMAIN local = {}
    /\ arena \in Seq(Declaration)
    /\ \A n \in DOMAIN local : local[n] \in Declaration
    /\ \A n \in DOMAIN hpm : hpm[n] \in Declaration /\ (Exported(hpm[n]) \/ Disclosed(n))
    /\ TablesAgree

OfKindIn(A, n, k) == {i \in DOMAIN A : A[i].name = n /\ A[i].kind = k}
LastOfKind(A, n, d) ==
    OfKindIn(A, n, d.kind) # {} /\ A[Max(OfKindIn(A, n, d.kind))] = d

LEMMA LastIs ==
    ASSUME NEW A, Len(A) \in Nat, DOMAIN A = 1 .. Len(A), NEW n, NEW d,
           NEW i \in DOMAIN A, A[i].name = n, A[i].kind = d.kind,
           \A j \in DOMAIN A : j >= i /\ A[j].name = n /\ A[j].kind = d.kind => A[j] = d
    PROVE  LastOfKind(A, n, d)
<1> DEFINE S == OfKindIn(A, n, d.kind)
<1>1. i \in S /\ S \in SUBSET (1 .. Len(A))
  BY DEF OfKindIn
<1>2. Max(S) \in S /\ i <= Max(S)
  BY <1>1, MaxOfIndices
<1>3. PICK j \in DOMAIN A : j = Max(S) /\ j \in S /\ j >= i
  BY <1>1, <1>2
<1>4. A[j].name = n /\ A[j].kind = d.kind
  BY <1>3 DEF OfKindIn
<1> QED  BY <1>1, <1>3, <1>4 DEF LastOfKind

(* Entries of other names or kinds change nothing. *)
LEMMA StaysLast ==
    ASSUME NEW A \in Seq(Declaration), NEW B \in Seq(Declaration), NEW n, NEW d,
           LastOfKind(A, n, d),
           \A j \in DOMAIN B : B[j].name # n \/ B[j].kind # d.kind
    PROVE  LastOfKind(A \o B, n, d)
<1> PICK C : C = A \o B
  OBVIOUS
<1>1. /\ Len(A) \in Nat /\ Len(B) \in Nat /\ DOMAIN A = 1 .. Len(A) /\ DOMAIN B = 1 .. Len(B)
      /\ DOMAIN C = 1 .. Len(A) + Len(B)
      /\ \A i \in 1 .. Len(A) : C[i] = A[i]
      /\ \A i \in 1 .. Len(B) : C[Len(A) + i] = B[i]
  OBVIOUS
<1>2. ASSUME NEW i \in DOMAIN C, i \notin DOMAIN A
      PROVE  C[i].name # n \/ C[i].kind # d.kind
  <2>1. i - Len(A) \in 1 .. Len(B) /\ Len(A) + (i - Len(A)) = i
    BY <1>1, <1>2
  <2> QED  BY <1>1, <2>1
<1>3. OfKindIn(C, n, d.kind) = OfKindIn(A, n, d.kind)
  <2>1. DOMAIN A \subseteq DOMAIN C
    BY <1>1
  <2> QED  BY <1>1, <1>2, <2>1 DEF OfKindIn
<1>4. Max(OfKindIn(A, n, d.kind)) \in DOMAIN A
  <2>1. OfKindIn(A, n, d.kind) \in SUBSET (1 .. Len(A))
    BY <1>1 DEF OfKindIn
  <2> QED  BY <1>1, <2>1, MaxOfIndices DEF LastOfKind
<1> QED  BY <1>1, <1>3, <1>4 DEF LastOfKind

LEMMA NotNoDecl ==
    ASSUME NEW d \in Declaration PROVE d # NoDecl
<1>1. d.kind # "none"
  BY ImplIsApart DEF Declaration
<1> QED  BY <1>1 DEF NoDecl

LEMMA AgreeIs ==
    /\ TablesAgree <=> \A n \in Name : Found(n) # NoDecl => LastOfKind(arena, n, Found(n))
    /\ TablesAgree' <=> \A n \in Name : Found(n)' # NoDecl => LastOfKind(arena', n, Found(n)')
<1>1. TablesAgree <=> \A n \in Name : Found(n) # NoDecl => LastOfKind(arena, n, Found(n))
  BY DEF TablesAgree, LastOfKind, OfKindIn, OfKind
<1>2. NoDecl' = NoDecl
  BY DEF NoDecl
<1>3. TablesAgree' <=> \A n \in Name : Found(n)' # NoDecl => LastOfKind(arena', n, Found(n)')
  BY <1>2 DEF TablesAgree, LastOfKind, OfKindIn, OfKind
<1> QED  BY <1>1, <1>3

LEMMA BindKeeps ==
    ASSUME ResolverType, Tables, phase = "imports", NEW import \in Importing, Bind(import),
           disk' = disk
    PROVE  /\ Tables' /\ DOMAIN hpm \subseteq DOMAIN hpm'
           /\ Range(Served(import)) \subseteq DOMAIN hpm'
<1> PICK f \in File : f = import.from
  BY DEF Importing
<1> PICK s \in Seq(Name) : s = Served(import)
  BY ServedIs
<1>1. \A i \in 1 .. Len(s) : ExportOf(f, s[i]) # NoDecl
  BY ServedIs
<1> PICK reg : reg = Registered(f, s)
  OBVIOUS
<1>2. RegisteredOK(f, s, Len(s), reg)
  BY <1>1, RegisteredIs
<1>3. /\ hpm' = [n \in DOMAIN hpm \cup Range(s) |-> IF n \in Range(s) THEN ExportOf(f, n) ELSE hpm[n]]
      /\ arena' = arena \o reg /\ local' = local
  BY DEF Bind
<1>4. DOMAIN local = {} /\ DOMAIN local' = {}
  BY <1>3 DEF Tables
<1>5. Range(s) = {s[i] : i \in 1 .. Len(s)}
  BY DEF Range
<1>6. ASSUME NEW n \in Range(s)
      PROVE  /\ n \in Name /\ ExportOf(f, n) \in Declaration
             /\ Exported(ExportOf(f, n)) \/ Disclosed(n)
             /\ n \in Own(f) => ExportOf(f, n).name = n
             /\ n \notin Own(f) => ExportOf(f, n) = Found(n) /\ Exported(Found(n))
  <2>1. PICK i \in 1 .. Len(s) : n = s[i]
    BY <1>5, <1>6
  <2>2. n \in Name /\ ExportOf(f, n) # NoDecl
    BY <1>1, <2>1
  <2>3. CASE n \in Own(f)
    BY <2>2, <2>3, ExportIs DEF Own
  <2>4. CASE n \notin Own(f)
    <3>1. Declared(f, n) = {} /\ ExportOf(f, n) = Found(n) /\ Found(n) # NoDecl
      BY <2>2, <2>4, ExportIs DEF Own
    <3>2. n \in DOMAIN hpm /\ Found(n) = hpm[n] /\ Exported(hpm[n])
      BY <1>4, <3>1 DEF Found
    <3> QED  BY <2>2, <2>4, <3>1, <3>2 DEF Tables
  <2> QED  BY <2>3, <2>4
<1>7. \A n : Disclosed(n)' <=> Disclosed(n)
  BY DEF Disclosed, Declared, Decl, Exported
<1>8. \A d : Exported(d)' <=> Exported(d)
  BY DEF Exported
<1>9. DOMAIN hpm' = DOMAIN hpm \cup Range(s)
  BY <1>3
<1>10. \A n \in DOMAIN hpm' : hpm'[n] \in Declaration /\ (Exported(hpm'[n]) \/ Disclosed(n))
  BY <1>3, <1>6, <1>9 DEF Tables
<1>11. arena \in Seq(Declaration) /\ reg \in Seq(Declaration) /\ arena' \in Seq(Declaration)
  BY <1>2, <1>3 DEF Tables, RegisteredOK
<1>12. ASSUME NEW n \in Name, Found(n)' # NoDecl
       PROVE  LastOfKind(arena', n, Found(n)')
  <2>1. /\ n \in DOMAIN hpm' /\ Found(n)' = hpm'[n] /\ Exported(hpm'[n])
    <3>1. NoDecl' = NoDecl
      BY DEF NoDecl
    <3> QED  BY <1>4, <1>8, <1>12, <3>1 DEF Found
  <2>2. CASE n \in Range(s) /\ n \in Own(f)
    <3>1. PICK d \in Declaration : d = ExportOf(f, n) /\ d = Found(n)' /\ d.name = n
      BY <1>3, <1>6, <1>9, <2>1, <2>2
    <3>2. PICK i \in 1 .. Len(s) : n = s[i]
      BY <1>5, <2>2
    <3>3. PICK j \in DOMAIN reg : reg[j].name = n
      BY <1>2, <2>2, <3>2 DEF RegisteredOK
    <3>4. \A k \in DOMAIN reg : reg[k].name = n => reg[k] = d
      <4>1. \A k \in DOMAIN reg : reg[k] = ExportOf(f, reg[k].name)
        BY <1>2 DEF RegisteredOK
      <4> QED  BY <3>1, <4>1
    <3> PICK C : C = arena'
      OBVIOUS
    <3>5. /\ Len(arena) \in Nat /\ Len(reg) \in Nat /\ DOMAIN reg = 1 .. Len(reg)
          /\ DOMAIN C = 1 .. Len(arena) + Len(reg) /\ Len(C) = Len(arena) + Len(reg)
          /\ \A k \in 1 .. Len(reg) : C[Len(arena) + k] = reg[k]
      BY <1>3, <1>11
    <3>6. Len(arena) + j \in DOMAIN C /\ C[Len(arena) + j] = d
      BY <3>3, <3>4, <3>5
    <3>7. ASSUME NEW k \in DOMAIN C, k >= Len(arena) + j, C[k].name = n
          PROVE  C[k] = d
      <4>1. k - Len(arena) \in 1 .. Len(reg) /\ Len(arena) + (k - Len(arena)) = k
        BY <3>3, <3>5, <3>7
      <4> QED  BY <3>4, <3>5, <3>7, <4>1
    <3>8. LastOfKind(C, n, d)
      <4>1. PICK m : m = Len(arena) + j
        OBVIOUS
      <4>2. m \in DOMAIN C /\ C[m].name = n /\ C[m].kind = d.kind
        BY <3>1, <3>6, <4>1
      <4>3. \A k \in DOMAIN C : k >= m /\ C[k].name = n /\ C[k].kind = d.kind => C[k] = d
        BY <3>7, <4>1
      <4>4. Len(C) \in Nat /\ DOMAIN C = 1 .. Len(C)
        BY <3>5
      <4> QED  BY <4>2, <4>3, <4>4, LastIs
    <3> QED  BY <3>1, <3>8
  <2>3. CASE ~ (n \in Range(s) /\ n \in Own(f))
    <3>1. Found(n)' = Found(n) /\ Found(n) # NoDecl
      <4>1. CASE n \in Range(s)
        BY <1>3, <1>6, <1>9, <1>12, <2>1, <2>3, <4>1
      <4>2. CASE n \notin Range(s)
        <5>1. n \in DOMAIN hpm /\ hpm'[n] = hpm[n]
          BY <1>3, <1>9, <2>1, <4>2
        <5>2. Found(n) = hpm[n]
          BY <1>4, <2>1, <5>1 DEF Found
        <5> QED  BY <1>12, <2>1, <5>1, <5>2
      <4> QED  BY <4>1, <4>2
    <3>2. LastOfKind(arena, n, Found(n))
      BY <3>1, AgreeIs DEF Tables
    <3>3. \A j \in DOMAIN reg : reg[j].name # n
      <4> SUFFICES ASSUME NEW j \in DOMAIN reg, reg[j].name = n
                   PROVE  FALSE
        OBVIOUS
      <4>1. n \in Own(f) /\ \E i \in 1 .. Len(s) : n = s[i]
        BY <1>2 DEF RegisteredOK
      <4> QED  BY <1>5, <2>3, <4>1
    <3>4. LastOfKind(arena \o reg, n, Found(n))
      BY <1>11, <3>2, <3>3, StaysLast
    <3> QED  BY <1>3, <3>1, <3>4
  <2> QED  BY <2>2, <2>3
<1>13. TablesAgree'
  BY <1>12, AgreeIs
<1> QED  BY <1>3, <1>4, <1>7, <1>8, <1>9, <1>10, <1>11, <1>13 DEF Tables

LEMMA SameTables ==
    ASSUME Tables, phase' = "imports" => phase = "imports", disk' = disk, UNCHANGED table
    PROVE  Tables'
<1>1. \A n : Found(n)' = Found(n) /\ (Disclosed(n)' <=> Disclosed(n))
  BY DEF Found, Disclosed, Declared, Decl, Exported, NoDecl, table
<1>2. NoDecl' = NoDecl
  BY DEF NoDecl
<1>3. TablesAgree'
  BY <1>1, <1>2, AgreeIs DEF Tables, table
<1>4. \A d : Exported(d)' <=> Exported(d)
  BY DEF Exported
<1> QED  BY <1>1, <1>3, <1>4 DEF Tables, table

(* An item of the built file is last in the arena, or refused. *)
LEMMA RegisterKeeps ==
    ASSUME ResolverType, Tables, RegisterItem
    PROVE  Tables'
<1> PICK d : d = Decl(Main, pos)
  OBVIOUS
<1>1. d \in Declaration
  BY FilesAreKnown, DeclIs DEF RegisterItem
<1>2. phase = "register" /\ phase' = phase /\ hpm' = hpm /\ disk' = disk
  BY DEF RegisterItem
<1>3. CASE UNCHANGED <<local, arena>>
  BY <1>2, <1>3, SameTables DEF table
<1>4. CASE local' = Put(local, d.name, d) /\ arena' = Append(arena, d)
  <2>1. arena \in Seq(Declaration) /\ arena' \in Seq(Declaration) /\ arena' = arena \o <<d>>
    BY <1>1, <1>4 DEF Tables
  <2>2. /\ DOMAIN local' = DOMAIN local \cup {d.name}
        /\ \A n \in DOMAIN local' : local'[n] = IF n = d.name THEN d ELSE local[n]
    BY <1>4 DEF Put
  <2>3. \A n \in DOMAIN local' : local'[n] \in Declaration
    BY <1>1, <2>2 DEF Tables
  <2>4. \A n : Disclosed(n)' <=> Disclosed(n)
    BY <1>2 DEF Disclosed, Declared, Decl, Exported
  <2>5. \A e : Exported(e)' <=> Exported(e)
    BY DEF Exported
  <2>6. NoDecl' = NoDecl
    BY DEF NoDecl
  <2>7. ASSUME NEW n \in Name, Found(n)' # NoDecl
        PROVE  LastOfKind(arena', n, Found(n)')
    <3>1. CASE n = d.name
      <4>1. Found(n)' = d
        BY <2>2, <3>1 DEF Found
      <4> PICK C : C = arena'
        OBVIOUS
      <4>2. /\ Len(C) \in Nat /\ DOMAIN C = 1 .. Len(C)
            /\ Len(C) = Len(arena) + 1 /\ C[Len(C)] = d
        BY <1>1, <1>4, <2>1
      <4>3. \A j \in DOMAIN C : j >= Len(C) => C[j] = d
        BY <4>2
      <4>4. Len(C) \in DOMAIN C
        BY <2>1, <4>2
      <4>5. LastOfKind(C, n, d)
        BY <3>1, <4>2, <4>3, <4>4, LastIs
      <4> QED  BY <4>1, <4>5
    <3>2. CASE n # d.name
      <4>1. Found(n)' = Found(n)
        BY <1>2, <2>2, <2>5, <2>6, <3>2 DEF Found
      <4>2. LastOfKind(arena, n, Found(n))
        BY <2>6, <2>7, <4>1, AgreeIs DEF Tables
      <4>3. <<d>> \in Seq(Declaration) /\ \A j \in DOMAIN <<d>> : <<d>>[j].name # n
        BY <1>1, <3>2
      <4>4. LastOfKind(arena \o <<d>>, n, Found(n))
        BY <2>1, <4>2, <4>3, StaysLast
      <4> QED  BY <2>1, <4>1, <4>4
    <3> QED  BY <3>1, <3>2
  <2>8. TablesAgree'
    BY <2>6, <2>7, AgreeIs
  <2> QED  BY <1>2, <2>1, <2>3, <2>4, <2>5, <2>8 DEF Tables
<1> QED  BY <1>3, <1>4 DEF RegisterItem

(* Until an error, what the built file has passed of its imports is bound. *)
NamesBound(i) ==
    ~ disk[Main].imports[i].all => Range(disk[Main].imports[i].names) \subseteq DOMAIN hpm
BoundSoFar ==
    /\ phase = "imports" /\ errors = <<>> =>
         \A i \in DOMAIN disk[Main].imports : i < pos => NamesBound(i)
    /\ phase \in {"register", "built"} => \A i \in DOMAIN disk[Main].imports : NamesBound(i)

(* An import is over: its caller is the one before it, or the build. *)
LEMMA ReturnBinds ==
    ASSUME ResolverInv, BoundSoFar, BindAll,
           DOMAIN hpm \subseteq DOMAIN hpm',
           Range(Served(Last(frames).import)) \subseteq DOMAIN hpm'
    PROVE  BoundSoFar'
<1>1. /\ phase = "imports" /\ UNCHANGED <<disk, phase, errors>> /\ frames # <<>>
      /\ Missing(Last(frames).import) = {} /\ Return(Front(frames))
  BY DEF BindAll, AllDone
<1>2. /\ frames \in Seq(Call) /\ Len(frames) \in Nat \ {0} /\ pos \in Nat \ {0}
      /\ Front(frames) \in Seq(Call) /\ Len(Front(frames)) = Len(frames) - 1
      /\ Last(frames) = frames[Len(frames)] /\ Last(frames) \in Call
  BY <1>1, FrontProperties DEF ResolverInv, ResolverType, Last
<1>3. \A i : NamesBound(i) => NamesBound(i)'
  BY <1>1 DEF NamesBound
<1>4. CASE Len(frames) = 1
  <2> PICK p : p = pos
    OBVIOUS
  <2>1. Front(frames) = <<>> /\ pos' = pos + 1
    BY <1>1, <1>2, <1>4, EmptySeq DEF Return
  <2>2. disk[Main].imports[p] = Last(frames).import
    <3>1. 1 \in DOMAIN frames
      BY <1>2
    <3>2. disk[CallerOf(1)].imports[NextOf(1)] = frames[1].import
      BY <3>1 DEF ResolverInv, CallsFollow
    <3> QED  BY <1>2, <1>4, <3>2 DEF CallerOf, NextOf
  <2>3. Last(frames).import \in Importing
    BY <1>2 DEF Call, Importing
  <2>4. NamesBound(p)'
    <3>1. ~ Last(frames).import.all => Served(Last(frames).import) = Last(frames).import.names
      BY <1>1, <2>3, ServedIs, WantedIs
    <3> QED  BY <1>1, <2>2, <3>1 DEF NamesBound
  <2>5. ASSUME NEW i \in DOMAIN disk[Main].imports, i < pos', errors = <<>>
        PROVE  NamesBound(i)'
    <3>1. DOMAIN disk[Main].imports \subseteq Nat
      BY Files, FilesAreKnown DEF ResolverInv
    <3>2. i < pos \/ i = p
      BY <1>2, <2>1, <2>5, <3>1
    <3> QED  BY <1>1, <1>3, <2>4, <2>5, <3>2 DEF BoundSoFar
  <2> QED  BY <1>1, <2>5 DEF BoundSoFar
<1>5. CASE Len(frames) # 1
  <2>1. Front(frames) # <<>> /\ pos' = pos
    BY <1>1, <1>2, <1>5 DEF Return
  <2> QED  BY <1>1, <1>3, <2>1 DEF BoundSoFar
<1> QED  BY <1>2, <1>4, <1>5

TableInv == ResolverInv /\ Tables /\ BoundSoFar

LEMMA InitTables == ASSUME Init PROVE TableInv
<1>1. DOMAIN local = {} /\ DOMAIN hpm = {} /\ arena = <<>> /\ pos = 1 /\ phase = "imports"
  BY DEF Init
<1>2. \A n : Found(n) = NoDecl
  BY <1>1 DEF Found
<1>3. TablesAgree
  BY <1>2 DEF TablesAgree
<1>4. DOMAIN disk[Main].imports \subseteq Nat \ {0}
  <2>1. ResolverType
    BY InitResolver DEF ResolverInv
  <2> QED  BY <2>1, Files, FilesAreKnown
<1>5. BoundSoFar
  BY <1>1, <1>4 DEF BoundSoFar
<1>6. Tables
  BY <1>1, <1>3 DEF Tables
<1> QED  BY <1>5, <1>6, InitResolver DEF TableInv

LEMMA NextTables ==
    ASSUME TableInv, [Next]_vars
    PROVE  TableInv'
<1>1. ResolverInv /\ Tables /\ BoundSoFar /\ ResolverType
  BY DEF TableInv, ResolverInv
<1>2. ResolverInv'
  BY <1>1, NextResolver
<1>3. errors \in Seq(Report)
  BY <1>1 DEF ResolverType
<1>4. ASSUME NEW r, errors' = Append(errors, r)
      PROVE  errors' # <<>>
  <2>1. Len(errors') = Len(errors) + 1 /\ Len(errors) \in Nat
    BY <1>3, <1>4
  <2> QED  BY <2>1, EmptySeq
<1>5. ASSUME PathFails \/ CircularImport \/ ParseFails
      PROVE  Tables' /\ BoundSoFar'
  <2>1. phase = "imports" /\ UNCHANGED <<disk, phase, table>> /\ errors' # <<>>
    BY <1>4, <1>5 DEF PathFails, CircularImport, ParseFails, Fail, Waiting
  <2> QED  BY <1>1, <2>1, SameTables DEF BoundSoFar
<1>6. CASE Enter
  <2>1. UNCHANGED <<disk, phase, pos, errors, table>>
    BY <1>6 DEF Enter
  <2>2. \A i : NamesBound(i)' <=> NamesBound(i)
    BY <2>1 DEF NamesBound, table
  <2>3. phase' = phase /\ disk' = disk /\ pos' = pos /\ errors' = errors
    BY <2>1
  <2>4. Tables'
    BY <1>1, <2>1, <2>3, SameTables
  <2>5. BoundSoFar'
    BY <1>1, <2>2, <2>3 DEF BoundSoFar
  <2> QED  BY <1>2, <2>4, <2>5 DEF TableInv
<1>7. ASSUME BindAll \/ BindFails
      PROVE  Tables' /\ BoundSoFar'
  <2>1. /\ phase = "imports" /\ frames # <<>> /\ UNCHANGED <<disk, phase>>
        /\ Bind(Last(frames).import)
    BY <1>7 DEF BindAll, BindFails, AllDone, Fail
  <2>2. Last(frames).import \in Importing
    <3>1. Last(frames) \in Call
      BY <1>1, <2>1, FrontProperties DEF ResolverType
    <3> QED  BY <3>1 DEF Call, Importing
  <2>3. /\ Tables' /\ DOMAIN hpm \subseteq DOMAIN hpm'
        /\ Range(Served(Last(frames).import)) \subseteq DOMAIN hpm'
    BY <1>1, <2>1, <2>2, BindKeeps
  <2>4. CASE BindAll
    BY <1>1, <2>3, <2>4, ReturnBinds
  <2>5. CASE BindFails
    <3>1. errors' # <<>>
      BY <1>4, <2>5 DEF BindFails, Fail
    <3> QED  BY <2>1, <2>3, <3>1 DEF BoundSoFar
  <2> QED  BY <1>7, <2>3, <2>4, <2>5
<1>8. CASE EndImports
  <2>1. /\ phase = "imports" /\ UNCHANGED <<disk, table>>
        /\ phase' = IF errors = <<>> THEN "register" ELSE "failed"
        /\ frames = <<>> /\ pos \notin DOMAIN disk[Main].imports
    BY <1>8 DEF EndImports, Waiting, NextImport, Caller
  <2>2. \A i : NamesBound(i)' <=> NamesBound(i)
    BY <2>1 DEF NamesBound, table
  <2>3. \A i \in DOMAIN disk[Main].imports : errors = <<>> => NamesBound(i)
    <3>1. /\ pos \in Nat \ {0} /\ DOMAIN disk[Main].imports = 1 .. Len(disk[Main].imports)
          /\ Len(disk[Main].imports) \in Nat
      BY <1>1, Files, FilesAreKnown DEF ResolverType
    <3>2. \A i \in DOMAIN disk[Main].imports : i < pos
      BY <1>1, <2>1, <3>1, Files, FilesAreKnown DEF ResolverInv, PastResolved, Passed, NextOf, CallerOf
    <3> QED  BY <1>1, <2>1, <3>2 DEF BoundSoFar
  <2>4. Tables'
    BY <1>1, <2>1, SameTables
  <2>5. BoundSoFar'
    BY <2>1, <2>2, <2>3 DEF BoundSoFar
  <2> QED  BY <1>2, <2>4, <2>5 DEF TableInv
<1>9. ASSUME RegisterItem \/ EndItems \/ UNCHANGED vars
      PROVE  Tables' /\ BoundSoFar'
  <2>1. /\ UNCHANGED <<disk, hpm>>
        /\ phase' = "imports" => phase = "imports" /\ pos' = pos /\ errors' = errors
        /\ phase' \in {"register", "built"} => phase \in {"register", "built"}
    BY <1>9 DEF RegisterItem, EndItems, vars, table
  <2>2. \A i : NamesBound(i)' <=> NamesBound(i)
    BY <2>1 DEF NamesBound
  <2>3. BoundSoFar'
    BY <1>1, <2>1, <2>2 DEF BoundSoFar
  <2>4. CASE RegisterItem
    BY <1>1, <2>3, <2>4, RegisterKeeps
  <2>5. CASE EndItems \/ UNCHANGED vars
    <3>1. UNCHANGED table
      BY <2>5 DEF EndItems, vars, table
    <3> QED  BY <1>1, <2>1, <2>3, <3>1, SameTables
  <2> QED  BY <1>9, <2>3, <2>4, <2>5
<1> QED  BY <1>1, <1>2, <1>5, <1>6, <1>7, <1>8, <1>9 DEF Next, Resolve, TableInv

(* The inductive invariant of the table: what can be found is the last of its name
   and kind in the arena, a private name got there through an export block, and
   until an error the built file's imports are bound as far as it has come. *)
THEOREM TablesKept == Spec => []TableInv
  BY InitTables, NextTables, PTL DEF Spec

(* The evaluator, which takes the last of a name in the arena, and the pipeline,
   which looks it up in the table, find the same declaration at all times
   (eval_setup.rs, layer.rs). *)
THEOREM LookupsAgree == Spec => []TablesAgree
<1>1. TableInv => TablesAgree
  BY DEF TableInv, Tables
<1> QED  BY <1>1, TablesKept, PTL

(* What the built file imports by name can be looked up in the end, unless an
   export block disclosed a private declaration of that name (binding.rs,
   layer.rs). *)
THEOREM NamesResolve == Spec => []ImportedNamesResolve
<1>1. TableInv => ImportedNamesResolve
  <2> SUFFICES ASSUME TableInv, phase = "built", NEW i \in DOMAIN disk[Main].imports,
                      ~ disk[Main].imports[i].all,
                      NEW n \in Range(disk[Main].imports[i].names)
               PROVE  Found(n) # NoDecl \/ Disclosed(n)
    BY DEF ImportedNamesResolve
  <2>1. n \in DOMAIN hpm
    BY DEF TableInv, BoundSoFar, NamesBound
  <2>2. CASE n \in DOMAIN local
    BY <2>2, NotNoDecl DEF Found, TableInv, Tables
  <2>3. CASE n \notin DOMAIN local /\ Exported(hpm[n])
    BY <2>1, <2>3, NotNoDecl DEF Found, TableInv, Tables
  <2>4. CASE ~ Exported(hpm[n])
    BY <2>1, <2>4 DEF TableInv, Tables
  <2> QED  BY <2>2, <2>3, <2>4
<1> QED  BY <1>1, TablesKept, PTL
=============================================================================
