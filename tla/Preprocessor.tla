---------------------------- MODULE Preprocessor ----------------------------
(***************************************************************************)
(* What swoole-cli is built from (src/sapi/src/Preprocessor.php): from the *)
(* arguments of prepare.php the extensions, and from the builder files of  *)
(* the extensions what they need: other extensions and libraries, and the  *)
(* libraries those need.                                                   *)
(*                                                                         *)
(* A builder file is read at most once and then stays as it is in          *)
(* extensionMap or libraryMap, so what it lists is chosen when it is read. *)
(* The recursive loaders have their stack in calls: for every foreach that *)
(* has not ended, the names it has still to visit.  Their order tells the  *)
(* properties nothing and is left open.                                    *)
(***************************************************************************)
EXTENDS Naturals, Sequences, FiniteSets

CONSTANTS
  Extension, Library,
  enabled_extensions,         \* what a native build has by default
  enabled_extensions_mobile,  \* what a build for a telephone has
  MaxOptions,                 \* bound: options + and - of the command line
  MaxDependencies             \* bound: names listed in all builder files together

ASSUME PreprocessorAssumption ==
  /\ IsFiniteSet(Extension) /\ IsFiniteSet(Library)
  /\ enabled_extensions \subseteq Extension /\ enabled_extensions_mobile \subseteq Extension
  /\ MaxOptions \in Nat /\ MaxDependencies \in Nat

VARIABLES
  stage,         \* how far parseArguments and execute are
  extEnabled,    \* how often each extension is on the list
  place,         \* where the file of an extension is found
  extensionMap, libraryMap,
  listed,        \* the lengths of extensionList and libraryList
  todo,          \* what the outer foreach of execute has still to visit
  calls,         \* the foreach inside it and those of the calls it has made
  options        \* history, read by the properties only: + and - so far

preprocessorVars ==
  <<stage, extEnabled, place, extensionMap, libraryMap, listed, todo, calls, options>>

argumentVars == <<extEnabled, options>>
loaderVars == <<extensionMap, libraryMap, listed, todo, calls>>

Place == {"extension directory", "conf-path", "nowhere"}

PreprocessorTypeOK ==
  /\ stage \in {"target", "options", "enabled", "extensions", "libraries",
                "done", "exception", "exhausted"}
  /\ extEnabled \in [Extension -> 0 .. MaxOptions + 1]
  /\ place \in [Extension -> Place]
  /\ DOMAIN extensionMap \subseteq Extension /\ DOMAIN libraryMap \subseteq Library
  /\ \A e \in DOMAIN extensionMap :
       extensionMap[e] \in [dependentExtensions : SUBSET Extension, deps : SUBSET Library]
  /\ \A l \in DOMAIN libraryMap : libraryMap[l] \in SUBSET Library
  /\ listed \in [extensions : Nat, libraries : Nat]
  /\ todo \subseteq Extension
  /\ calls \in Seq(SUBSET (Extension \cup Library))
  /\ options \in Seq({"+", "-"} \X Extension) /\ Len(options) <= MaxOptions

\* A list that has every member of s once.
OnceEach(s) == [e \in Extension |-> IF e \in s THEN 1 ELSE 0]

PreprocessorInit ==
  /\ stage = "target"
  /\ extEnabled = OnceEach(enabled_extensions)
  /\ place = [e \in Extension |-> "nowhere"]
  /\ extensionMap = <<>> /\ libraryMap = <<>>
  /\ listed = [extensions |-> 0, libraries |-> 0]
  /\ todo = {} /\ calls = <<>> /\ options = <<>>

-----------------------------------------------------------------------------
(* parseArguments: the arguments @target first, then + and -.              *)

\* The list of a mobile target; a native target after it changes nothing
\* here.
MobileTarget ==
  /\ stage = "target"
  /\ extEnabled' = OnceEach(enabled_extensions_mobile)
  /\ UNCHANGED <<stage, place, options, loaderVars>>

\* A mobile target that this host cannot build for: an exception.
TargetRefused ==
  /\ stage = "target"
  /\ stage' = "exception"
  /\ UNCHANGED <<place, argumentVars, loaderVars>>

TargetKnown ==
  /\ stage = "target"
  /\ stage' = "options"
  /\ UNCHANGED <<place, argumentVars, loaderVars>>

\* +e is appended, whether e is on the list or not.
SwitchOn(e) ==
  /\ stage = "options" /\ Len(options) < MaxOptions
  /\ extEnabled' = [extEnabled EXCEPT ![e] = @ + 1]
  /\ options' = Append(options, <<"+", e>>)
  /\ UNCHANGED <<stage, place, loaderVars>>

\* -e takes the first e off the list.
SwitchOff(e) ==
  /\ stage = "options" /\ Len(options) < MaxOptions
  /\ extEnabled' = [extEnabled EXCEPT ![e] = IF @ = 0 THEN 0 ELSE @ - 1]
  /\ options' = Append(options, <<"-", e>>)
  /\ UNCHANGED <<stage, place, loaderVars>>

\* execute begins: scanConfigFiles finds the files, array_unique, and one
\* extension after the other.
Enabled == {e \in Extension : extEnabled[e] > 0}

OptionsDone ==
  /\ stage = "options"
  /\ stage' = "enabled"
  /\ place' \in [Extension -> Place]
  /\ extEnabled' = OnceEach(Enabled)
  /\ todo' = Enabled
  /\ options' = <<>>
  /\ UNCHANGED <<extensionMap, libraryMap, listed, calls>>

-----------------------------------------------------------------------------
(* Builder files.                                                          *)

Dependencies ==
  {x \in Extension \X (Extension \cup Library) :
     /\ x[1] \in DOMAIN extensionMap
     /\ x[2] \in extensionMap[x[1]].dependentExtensions \cup extensionMap[x[1]].deps}
  \cup {x \in Library \X Library : x[1] \in DOMAIN libraryMap /\ x[2] \in libraryMap[x[1]]}

MayList(s) == Cardinality(Dependencies) + Cardinality(s) <= MaxDependencies

With(m, n, v) == [k \in (DOMAIN m) \cup {n} |-> IF k = n THEN v ELSE m[k]]

\* The file of e calls addExtension.
ReadExtension(e) ==
  \E x \in SUBSET Extension, d \in SUBSET Library :
    /\ MayList(x \cup d)
    /\ extensionMap' = With(extensionMap, e, [dependentExtensions |-> x, deps |-> d])
    /\ listed' = [listed EXCEPT !.extensions = @ + 1]

\* The file of l calls addLibrary.
ReadLibrary(l) ==
  \E d \in SUBSET Library :
    /\ MayList(d)
    /\ libraryMap' = With(libraryMap, l, d)
    /\ listed' = [listed EXCEPT !.libraries = @ + 1]
-----------------------------------------------------------------------------
(* execute.                                                                *)

\* An extension without a file is left out.
EnabledUnsupported(e) ==
  /\ stage = "enabled" /\ e \in todo /\ place[e] = "nowhere"
  /\ todo' = todo \ {e}
  /\ UNCHANGED <<stage, place, argumentVars, extensionMap, libraryMap, listed, calls>>

EnabledRead(e) ==
  /\ stage = "enabled" /\ e \in todo /\ place[e] # "nowhere"
  /\ ReadExtension(e)
  /\ todo' = todo \ {e}
  /\ UNCHANGED <<stage, place, argumentVars, libraryMap, calls>>

\* The second and the third foreach run over the map as it is now.
EnabledDone ==
  /\ stage = "enabled" /\ todo = {}
  /\ stage' = "extensions"
  /\ todo' = DOMAIN extensionMap
  /\ UNCHANGED <<place, argumentVars, extensionMap, libraryMap, listed, calls>>

ExtensionsDone ==
  /\ stage = "extensions" /\ todo = {} /\ calls = <<>>
  /\ stage' = "libraries"
  /\ todo' = DOMAIN extensionMap
  /\ UNCHANGED <<place, argumentVars, extensionMap, libraryMap, listed, calls>>

\* The next extension of the outer foreach: the inner one runs over what it lists.
NextExtension(e) ==
  /\ stage \in {"extensions", "libraries"} /\ calls = <<>> /\ e \in todo
  /\ todo' = todo \ {e}
  /\ calls' = <<IF stage = "extensions" THEN extensionMap[e].dependentExtensions
                                        ELSE extensionMap[e].deps>>
  /\ UNCHANGED <<stage, place, argumentVars, extensionMap, libraryMap, listed>>

\* More calls than names: some call is inside one for the same name.
Deepest == Cardinality(Extension) + Cardinality(Library)

\* The innermost foreach calls its loader for n, and that has deps to visit.
Visit(n, deps) ==
  /\ Len(calls) <= Deepest
  /\ calls' = <<deps>> \o [calls EXCEPT ![1] = @ \ {n}]

Calls(s) == IF stage = s /\ calls # <<>> THEN Head(calls) ELSE {}

\* Slip: what a dependency depends on is not loaded.
LoadDependentExtension_OneLevel(e) ==
  /\ e \in Calls("extensions")
  /\ \/ e \in DOMAIN extensionMap /\ UNCHANGED <<extensionMap, listed>>
     \/ /\ e \notin DOMAIN extensionMap /\ place[e] = "extension directory"
        /\ ReadExtension(e)
  /\ Visit(e, {})
  /\ UNCHANGED <<stage, place, argumentVars, libraryMap, todo>>

\* loadDependentExtension looks for the file in the extension directory only.
LoadDependentExtension(e) ==
  /\ e \in Calls("extensions")
  /\ \/ e \in DOMAIN extensionMap /\ UNCHANGED <<extensionMap, listed>>
     \/ /\ e \notin DOMAIN extensionMap /\ place[e] = "extension directory"
        /\ ReadExtension(e)
  /\ Visit(e, extensionMap'[e].dependentExtensions)
  /\ UNCHANGED <<stage, place, argumentVars, libraryMap, todo>>

LoadDependentLibrary(l) ==
  /\ l \in Calls("libraries")
  /\ \/ l \in DOMAIN libraryMap /\ UNCHANGED <<libraryMap, listed>>
     \/ l \notin DOMAIN libraryMap /\ ReadLibrary(l)
  /\ Visit(l, libraryMap'[l])
  /\ UNCHANGED <<stage, place, argumentVars, extensionMap, todo>>

\* A foreach has ended, and with it the call it is in.
Return ==
  /\ stage \in {"extensions", "libraries"} /\ calls # <<>> /\ Head(calls) = {}
  /\ calls' = Tail(calls)
  /\ UNCHANGED <<stage, place, argumentVars, extensionMap, libraryMap, listed, todo>>

\* No file, a download that fails, a wrong hash, a builder that refuses the
\* system: nothing is generated.
LoadFails ==
  /\ \/ stage = "enabled" /\ \E e \in todo : place[e] # "nowhere"
     \/ Calls("extensions") \ DOMAIN extensionMap # {}
     \/ Calls("libraries") \ DOMAIN libraryMap # {}
  /\ stage' = "exception"
  /\ UNCHANGED <<place, argumentVars, loaderVars>>

\* The loaders do not look whether they are inside a call for the same name;
\* the memory limit ends the program.
MemoryExhausted ==
  /\ stage \in {"extensions", "libraries"} /\ Len(calls) > Deepest
  /\ stage' = "exhausted"
  /\ UNCHANGED <<place, argumentVars, loaderVars>>

\* Some of them would have to come before themselves.
Cyclic(next) == \E s \in SUBSET DOMAIN next : s # {} /\ \A n \in s : next[n] \cap s # {}

\* sortLibrary, with the sort of marcj/topsort; then the files are generated.
sortLibrary ==
  /\ stage = "libraries" /\ todo = {} /\ calls = <<>>
  /\ stage' = IF /\ ~Cyclic(libraryMap)
                 /\ \A l \in DOMAIN libraryMap : libraryMap[l] \subseteq DOMAIN libraryMap
                 /\ \A e \in DOMAIN extensionMap : extensionMap[e].deps \subseteq DOMAIN libraryMap
              THEN "done" ELSE "exception"
  /\ UNCHANGED <<place, argumentVars, loaderVars>>

PreprocessorNext ==
  \/ MobileTarget \/ TargetRefused \/ TargetKnown \/ OptionsDone
  \/ \E e \in Extension : \/ SwitchOn(e) \/ SwitchOff(e)
                          \/ EnabledUnsupported(e) \/ EnabledRead(e)
                          \/ NextExtension(e) \/ LoadDependentExtension(e)
  \/ \E l \in Library : LoadDependentLibrary(l)
  \/ EnabledDone \/ ExtensionsDone \/ Return \/ LoadFails \/ MemoryExhausted \/ sortLibrary

PreprocessorSpec == PreprocessorInit /\ [][PreprocessorNext]_preprocessorVars

-----------------------------------------------------------------------------
\* s is the least set that has all of seed and with a name all it lists.
LeastClosed(s, seed, next) ==
  LET Closed(t) == seed \subseteq t /\ \A n \in t : next[n] \subseteq t
  IN Closed(s) /\ \A t \in SUBSET s : Closed(t) => t = s

dependentExtensions == [e \in DOMAIN extensionMap |-> extensionMap[e].dependentExtensions]

\* A build that is generated has the extensions of the list that exist and
\* all that they need, extensions and libraries, at any distance; nothing
\* else, and nothing twice.
BuiltAsNeeded ==
  stage = "done" =>
    /\ LeastClosed(DOMAIN extensionMap, {e \in Enabled : place[e] # "nowhere"}, dependentExtensions)
    /\ LeastClosed(DOMAIN libraryMap, UNION {extensionMap[e].deps : e \in DOMAIN extensionMap}, libraryMap)
    /\ listed = [extensions |-> Cardinality(DOMAIN extensionMap),
                 libraries |-> Cardinality(DOMAIN libraryMap)]

\* The recursion runs away only in a cycle, and nothing is generated from
\* builder files with a cycle.  The sort, which would say so, never sees one:
\* the loaders run away before.
CyclesRefused ==
  /\ stage = "exhausted" => Cyclic(dependentExtensions) \/ Cyclic(libraryMap)
  /\ stage = "done" => ~Cyclic(dependentExtensions) /\ ~Cyclic(libraryMap)

\* While the options are read they win over the list of the target: the last
\* one is a + and the extension is on, or all are - and it is off.  A - that
\* follows a + may leave the extension on: it takes off one of two.
OptionsWin ==
  \A e \in Extension :
    LET given == {i \in DOMAIN options : options[i][2] = e}
        last == CHOOSE i \in given : \A j \in given : j <= i
    IN given # {} =>
         /\ options[last][1] = "+" => e \in Enabled
         /\ (\A i \in given : options[i][1] = "-") => e \notin Enabled

\* The three of them.
BuildRight == BuiltAsNeeded /\ CyclesRefused /\ OptionsWin
=============================================================================
