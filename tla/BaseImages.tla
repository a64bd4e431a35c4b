----------------------------- MODULE BaseImages -----------------------------
(***************************************************************************)
(* Which images a build pulls first: the FROM lines of a Dockerfile as the *)
(* Docker shim reads them (preprocess_dockerfile_args, parse_from_images,  *)
(* pull_base_images of pelagos-docker/src/main.rs) and as the guest reads  *)
(* them (handle_build of pelagos-guest/src/main.rs).                       *)
(*                                                                         *)
(* A Dockerfile is the sequence of its FROM lines                          *)
(*     FROM [--platform=p] ref [AS alias]                                  *)
(* and the defaults of its ARG lines, before the first FROM (global) and   *)
(* after it (late).                                                        *)
(***************************************************************************)
EXTENDS Naturals, Sequences, FiniteSetsExt

CONSTANTS
    Registry,  \* names with a dot or a slash: images of a registry
    Local,     \* other names: images built here, stage aliases
    Vars,      \* references to build arguments, $V
    Scratch,   \* the empty image
    Flag,      \* a --platform flag
    None       \* no alias, no value

From(flag, ref, alias) == [flag |-> flag, ref |-> ref, alias |-> alias]

(* The first definition that has a value wins.                             *)
Value(v, given, default) == IF given[v] # None THEN given[v] ELSE default[v]

(* preprocess_dockerfile_args: build arguments, then the defaults before   *)
(* the first FROM; a variable without a value stays in the line.           *)
needs_subst(d) == \E i \in DOMAIN d.from : d.from[i].ref \in Vars

preprocess_dockerfile_args(d, given) ==
    [d EXCEPT !.from =
        [i \in DOMAIN d.from |->
            LET ref == d.from[i].ref IN
            IF ref \in Vars /\ Value(ref, given, d.global) # None
            THEN [d.from[i] EXCEPT !.ref = Value(ref, given, d.global)] ELSE d.from[i]]]

(* Aliases of the lines up to and with line i.                             *)
AliasesUpTo(from, i) == {from[j].alias : j \in 1..i} \ {None}

(* pull_base_images puts in the build arguments, but no defaults.  Its     *)
(* test and parse_from_images leave the images of a registry, by the       *)
(* number of their line, to be pulled in this order.                       *)
HostRef(line, given) ==
    IF line.ref \in Vars /\ given[line.ref] # None THEN given[line.ref] ELSE line.ref

pull_base_images(from, given) ==
    [i \in {j \in DOMAIN from :
               HostRef(from[j], given) \in Registry \ AliasesUpTo(from, j)}
        |-> HostRef(from[i], given)]

-----------------------------------------------------------------------------
(* handle_build takes the second word of a FROM line for the image and the *)
(* fourth for the alias if the third is AS: a flag shifts both.  Variables *)
(* get build arguments or the first default anywhere in the file, and      *)
(* vanish without.                                                         *)
GuestRef(d, line, given) ==
    IF line.flag THEN Flag
    ELSE IF line.ref \in Vars
         THEN IF Value(line.ref, given, d.global) # None THEN Value(line.ref, given, d.global)
              ELSE d.late[line.ref]
    ELSE line.ref

GuestAliases(from, i) == {from[j].alias : j \in {k \in 1..i : ~from[k].flag}} \ {None}

(* Broken variant: aliases that only a later line gives count as well.     *)
handle_build_pulls_late(d, given) ==
    {r \in {GuestRef(d, d.from[i], given) : i \in DOMAIN d.from} :
        r \notin {None, Scratch} \cup GuestAliases(d.from, Len(d.from))}

handle_build_pulls(d, given) ==
    {GuestRef(d, d.from[i], given) : i \in
        {j \in DOMAIN d.from :
            GuestRef(d, d.from[j], given) \notin {None, Scratch} \cup GuestAliases(d.from, j)}}

(* What a build needs: every reference that is neither scratch nor the     *)
(* alias of an earlier stage.                                              *)
ExternalBases(from) ==
    {from[i].ref : i \in {j \in DOMAIN from :
                              from[j].ref \notin {Scratch} \cup AliasesUpTo(from, j - 1)}}

(* Images that a stage is named after, FROM x AS x.                        *)
SelfNamed(from) == {from[i].ref : i \in {j \in DOMAIN from : from[j].alias = from[j].ref}}
=============================================================================
