---------------------------- MODULE PolicyLoader ----------------------------
(***************************************************************************)
(* PolicyLoader.load (capfence/core/policy.py): a policy file may extend   *)
(* others, which are loaded first, recursively, and layered below it.      *)
(* Each file's policy is cached once it is complete.  The recursion is a   *)
(* stack of frames, one per file being loaded.                             *)
(***************************************************************************)
EXTENDS Policy

CONSTANTS
    Files,      \* the paths that policies are loaded from
    Disks,      \* what the files may hold: functions from Files to Contents
    Events,     \* what policies are asked about
    MaxDepth    \* Python's recursion limit, in calls of load

VARIABLES
    disk,      \* what each file holds; nobody edits it during a load
    cache,     \* self._cache: the policies loaded so far
    stack,     \* the calls of load in progress, the innermost last
    outcome    \* how the last load ended

vars == <<disk, cache, stack, outcome>>

\* A file is missing, is not a valid policy, or holds rules, levels of risk and the
\* files it extends.
Content(kind, rules, risk, extends) ==
    [kind |-> kind, rules |-> rules, risk |-> risk, extends |-> extends]

Parents(f) == {disk[f].extends[i] : i \in DOMAIN disk[f].extends}
Own(f) == [rules |-> disk[f].rules, risk |-> disk[f].risk]

ASSUME PolicyLoaderAssumption ==
    /\ MaxDepth \in Nat \ {0}
    /\ \A d \in Disks, f \in Files :
        /\ d[f].kind \in {"missing", "invalid", "policy"}
        /\ d[f].extends \in Seq(Files)
        /\ d[f].rules \in Seq({d[f].rules[i] : i \in DOMAIN d[f].rules})

-----------------------------------------------------------------------------

Frame(f) == [file |-> f, base |-> Empty, todo |-> disk[f].extends]
Top == stack[Len(stack)]
Below == SubSeq(stack, 1, Len(stack) - 1)

\* An exception unwinds every call; what is cached stays.
Raise ==
    /\ stack' = <<>>
    /\ outcome' = "raised"
    /\ UNCHANGED cache

\* Mutation of Open: the policy is cached before its parents are loaded.
OpenCaching(f) ==
    IF disk[f].kind = "policy" /\ Len(stack) < MaxDepth
    THEN /\ stack' = Append(stack, Frame(f))
         /\ cache' = [g \in DOMAIN cache \cup {f} |-> IF g = f THEN Own(f) ELSE cache[g]]
         /\ outcome' = "none"
    ELSE Raise

\* Mutation of Open: a chain of files is followed however long it is.
OpenUnbounded(f) ==
    IF disk[f].kind = "policy"
    THEN /\ stack' = Append(stack, Frame(f))
         /\ outcome' = "none"
         /\ UNCHANGED cache
    ELSE Raise

\* A call for a file that is not cached: find, read and validate it.
Open(f) ==
    IF disk[f].kind = "policy" /\ Len(stack) < MaxDepth
    THEN /\ stack' = Append(stack, Frame(f))
         /\ outcome' = "none"
         /\ UNCHANGED cache
    ELSE Raise

\* The program calls load.
Load(f) ==
    /\ stack = <<>>
    /\ IF f \in DOMAIN cache
       THEN outcome' = "returned" /\ UNCHANGED <<cache, stack>>
       ELSE Open(f)
    /\ UNCHANGED disk

\* The next file that the innermost one extends has to be loaded first ...
LoadParent ==
    /\ stack # <<>> /\ Top.todo # <<>>
    /\ Head(Top.todo) \notin DOMAIN cache
    /\ Open(Head(Top.todo))
    /\ UNCHANGED disk

\* Mutation of MergeParent: the file's rules are layered into the parent's policy instead
\* of a copy of it.
MergeIntoParent ==
    /\ stack # <<>> /\ Top.todo # <<>>
    /\ Head(Top.todo) \in DOMAIN cache
    /\ stack' = Append(Below, [Top EXCEPT !.todo = Tail(@),
                                          !.base = Merge(@, cache[Head(Top.todo)])])
    /\ cache' = [cache EXCEPT ![Head(Top.todo)] = Merge(@, Own(Top.file))]
    /\ UNCHANGED <<disk, outcome>>

\* ... and is then layered over the ones before it.
MergeParent ==
    /\ stack # <<>> /\ Top.todo # <<>>
    /\ Head(Top.todo) \in DOMAIN cache
    /\ stack' = Append(Below, [Top EXCEPT !.todo = Tail(@),
                                          !.base = Merge(@, cache[Head(Top.todo)])])
    /\ UNCHANGED <<disk, cache, outcome>>

\* Mutation of Return: the parents' layers are dropped.
ReturnOwn ==
    /\ stack # <<>> /\ Top.todo = <<>>
    /\ cache' = [g \in DOMAIN cache \cup {Top.file} |->
            IF g = Top.file THEN Own(g) ELSE cache[g]]
    /\ stack' = Below
    /\ outcome' = IF Below = <<>> THEN "returned" ELSE "none"
    /\ UNCHANGED disk

\* The innermost call layers the file over all it extends, caches it and returns.
Return ==
    /\ stack # <<>> /\ Top.todo = <<>>
    /\ cache' = [g \in DOMAIN cache \cup {Top.file} |->
            IF g = Top.file THEN Merge(Top.base, Own(g)) ELSE cache[g]]
    /\ stack' = Below
    /\ outcome' = IF Below = <<>> THEN "returned" ELSE "none"
    /\ UNCHANGED disk

Init ==
    /\ disk \in Disks
    /\ cache = <<>>
    /\ stack = <<>>
    /\ outcome = "none"

Next == (\E f \in Files : Load(f)) \/ LoadParent \/ MergeParent \/ Return

Spec == Init /\ [][Next]_vars

-----------------------------------------------------------------------------
(* Properties *)

\* Type invariant; in particular the calls in progress are a chain of extends.
TypeOK ==
    /\ disk \in Disks
    /\ DOMAIN cache \subseteq Files
    /\ Len(stack) <= MaxDepth
    /\ \A i \in DOMAIN stack :
        /\ stack[i].file \in Files
        /\ stack[i].todo \in Seq(Files)
        /\ i > 1 => stack[i].file = Head(stack[i - 1].todo)
    /\ outcome \in {"none", "returned", "raised"}

\* The files that f, which is loaded, is layered from, itself included, the ones that take
\* precedence first.
Layers[f \in DOMAIN cache] ==
    LET from[i \in 0..Len(disk[f].extends)] ==
            IF i = 0 THEN <<>> ELSE Layers[disk[f].extends[i]] \o from[i - 1]
    IN  <<f>> \o from[Len(disk[f].extends)]

\* A cached policy is complete: all it extends is cached too, and it does not extend
\* itself, although loads fail half way and calls share parents (PolicyLoader.load).
CachedIsComplete ==
    /\ \A f \in DOMAIN cache : Parents(f) \subseteq DOMAIN cache
    /\ \A S \in SUBSET DOMAIN cache : S # {} => \E f \in S : Parents(f) \cap S = {}

\* Whatever order files are loaded in, a file's policy decides as if its layers were
\* consulted directly: an event is denied if the rules of any layer deny it, needs an
\* approval if not and any layer's rules say so, and otherwise goes by the level of
\* risk of the first layer that has it, then by the first layer with a rule that allows
\* or warns (merge, explain).
DecidesByLayers ==
    CachedIsComplete =>
    \A f \in DOMAIN cache, e \in Events :
        LET layers == Layers[f]
            Some(actions) == \E i \in DOMAIN layers :
                                SomeMatch(disk[layers[i]].rules, actions, e)
            rated == {i \in DOMAIN layers : e.risk \in DOMAIN disk[layers[i]].risk}
            level == IF rated = {} THEN NoLevel
                     ELSE LET first == CHOOSE i \in rated : \A j \in rated : i <= j
                          IN  disk[layers[first]].risk[e.risk]
            v == Verdict(cache[f], e)
        IN  /\ Some({"deny", "block"}) => v = "deny"
            /\ ~ Some({"deny", "block"}) /\ Some({"require_approval"}) => v = "require_approval"
            /\ ~ Some({"deny", "block", "require_approval"}) =>
                CASE level \in {"deny", "block"} -> v = "deny"
                  [] level \in {"require_approval", "warn"} -> v = level
                  [] OTHER ->
                        IF Some({"allow", "warn"})
                        THEN \E i \in DOMAIN layers :
                                /\ SomeMatch(disk[layers[i]].rules, {v}, e)
                                /\ v \in {"allow", "warn"}
                                /\ \A j \in 1..(i - 1) :
                                     ~ SomeMatch(disk[layers[j]].rules, {"allow", "warn"}, e)
                        ELSE v = "default_deny"

\* Loading a file never changes the policy of one that is cached, not even of one it
\* extends (merge works on a policy of its own).
CachedIsFrozen ==
    [][\A f \in DOMAIN cache : f \in DOMAIN cache' /\ cache'[f] = cache[f]]_vars
=============================================================================
