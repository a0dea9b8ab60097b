--------------------------- MODULE PackageInstall ---------------------------
(***************************************************************************)
(* otter install, add and remove (otter-pm): the cache of extracted         *)
(* packages, node_modules, otter.lock, and the markers under .otter-state   *)
(* by which an install decides that a package needs no work.  All of it is  *)
(* files that outlive the process, which may die or return an error between *)
(* any two file operations.  Commands follow one another; two that run in   *)
(* one project at a time are left out.                                      *)
(*                                                                         *)
(* A lockfile id is a package name and a range.  The registry metadata that *)
(* maps it to an archive is fetched once and cached (registry.rs), so an id *)
(* stands for its archive and fingerprint too.  Ids are numbered in their   *)
(* order.  A tree is None or a set of files, each with the id whose archive *)
(* it comes from.                                                           *)
(***************************************************************************)
EXTENDS Naturals, FiniteSets, FiniteSetsExt

CONSTANTS
    Ids,         \* lockfile ids, numbers
    NameOf,      \* the package of each
    Deps,        \* the dependencies of each
    Differing,   \* ids whose registry entry lacks what the archive's manifest says
    Files,       \* the files of every archive
    PackageJson, \* the one that is its manifest
    MaxRuns,     \* bound: commands
    MaxStops,    \* bound: crashes and failures
    None,
    Torn         \* a file that was truncated and not yet written

VARIABLES
    manifest,   \* the dependencies in package.json
    lockfile,   \* otter.lock: None, Torn, or what locked was when it was written
    store,      \* extracted packages, by id
    root,       \* node_modules/<name>
    tmp,        \* node_modules/.otter-install-tmp-<pid>
    marker,     \* .otter-state/<id>.source holds the fingerprint of its id
    bins,       \* packages with a link in .bin
    proc,       \* what the process does, and its locals
    runs,       \* commands started
    stops       \* crashes and failures

fileVars == <<manifest, lockfile, store, root, tmp, marker, bins>>
vars == <<fileVars, proc, runs, stops>>

Names == {NameOf[id] : id \in Ids}
Tree(id) == Files \X {id}
FilesOf(tree) == {e[1] : e \in tree}
HasManifest(tree) == tree # None /\ PackageJson \in FilesOf(tree)

\* todo: ids left; locked: the resolution, with the id whose manifest an entry
\* was last completed from; changed: an entry has changed in this pass.
Idle == [pc |-> "idle", todo |-> {}, locked |-> [id \in {} |-> None],
         changed |-> FALSE, reused |-> FALSE]

Id == Min(proc.todo)
Root == root[NameOf[Id]]
Goto(pc) == proc' = [proc EXCEPT !.pc = pc]
NextPackage(pc) == proc' = [proc EXCEPT !.pc = pc, !.todo = @ \ {Id}]

\* Trees that one file operation of remove_dir_all leaves: a file less, in no
\* particular order, and the directory last.
Removing(tree) == IF tree = {} THEN {None} ELSE {tree \ {e} : e \in tree}

\* next_unresolved_registry_package, until every dependency has an entry.
Closure(ids) ==
    LET Resolved[n \in 0..Cardinality(Ids)] ==
            IF n = 0 THEN ids
            ELSE Resolved[n - 1] \cup UNION {Deps[id] : id \in Resolved[n - 1]}
    IN  Resolved[Cardinality(Ids)]

\* The entries that enrich_resolution_with_registry_metadata adds.
Enriched(locked, ids) ==
    [id \in Closure(ids \cup DOMAIN locked) |->
        IF id \in DOMAIN locked THEN locked[id]
        ELSE IF id \in Differing THEN None ELSE id]

(***************************************************************************)
(* Commands.  package.json is written in one step: a torn one would fail    *)
(* every later command.                                                     *)
(***************************************************************************)
Start(r) ==
    /\ proc.pc = "idle" /\ runs < MaxRuns
    /\ proc' = r
    /\ runs' = runs + 1

install_local_project(ids) ==
    LET locked == Enriched(Idle.locked, ids)
    IN  Start([Idle EXCEPT !.pc = "fetch", !.locked = locked, !.todo = DOMAIN locked])

run_pm_install ==
    /\ install_local_project(manifest)
    /\ UNCHANGED <<fileVars, stops>>

run_pm_add(id) ==
    /\ manifest' = {i \in manifest : NameOf[i] # NameOf[id]} \cup {id}
    /\ install_local_project(manifest')
    /\ UNCHANGED <<lockfile, store, root, tmp, marker, bins, stops>>

\* The previous lockfile is read before the manifest is written; one that
\* does not parse ends the command.  todo holds its packages.
run_pm_remove(name) ==
    /\ lockfile # Torn
    /\ manifest' = {i \in manifest : NameOf[i] # name}
    /\ Start([Idle EXCEPT !.pc = "relock", !.todo = IF lockfile = None THEN {} ELSE DOMAIN lockfile])
    /\ UNCHANGED <<lockfile, store, root, tmp, marker, bins, stops>>

\* The file is left alone when its text would not change, and else truncated
\* and written; an entry without registry metadata differs from one with it.
WriteLockfile(locked, done) ==
    IF lockfile \in {locked, Torn}
    THEN lockfile' = locked /\ proc' = done
    ELSE lockfile' = Torn /\ UNCHANGED proc

\* write_local_lockfile resolves the manifest without registry metadata, so
\* only direct dependencies have an entry; the rest of the previous lockfile
\* is pruned.
write_local_lockfile ==
    /\ proc.pc = "relock"
    /\ WriteLockfile([id \in manifest |-> None],
                     [proc EXCEPT !.pc = "prune", !.todo = @ \ manifest])
    /\ UNCHANGED <<manifest, store, root, tmp, marker, bins, runs, stops>>

(***************************************************************************)
(* materialize_registry_packages, one package after the other.             *)
(***************************************************************************)
\* The archive is in the cache, or fetched, verified and renamed into it.
get_or_fetch_and_extract ==
    /\ proc.pc = "fetch" /\ proc.todo # {}
    /\ Goto(IF HasManifest(store[Id]) THEN "matches" ELSE "extract")
    /\ UNCHANGED <<fileVars, runs, stops>>

\* extract_tgz_package removes what is there, unpacks the archive into a
\* directory of its own and renames that.
extract_tgz_package ==
    /\ proc.pc = "extract"
    /\ IF store[Id] # None
       THEN /\ \E tree \in Removing(store[Id]) : store' = [store EXCEPT ![Id] = tree]
            /\ UNCHANGED proc
       ELSE store' = [store EXCEPT ![Id] = Tree(Id)] /\ Goto("matches")
    /\ UNCHANGED <<manifest, lockfile, root, tmp, marker, bins, runs, stops>>

existing_install_matches ==
    /\ proc.pc = "matches"
    /\ LET reused == Root # None /\ marker[Id] = Id
       IN  proc' = [proc EXCEPT !.reused = reused, !.pc = IF reused THEN "link" ELSE "clear_tmp"]
    /\ UNCHANGED <<fileVars, runs, stops>>

\* copy_package_tree: what a process with the same pid left is removed.
clear_tmp ==
    /\ proc.pc = "clear_tmp"
    /\ tmp' = {}
    /\ Goto("copy")
    /\ UNCHANGED <<manifest, lockfile, store, root, marker, bins, runs, stops>>

copy_dir_recursive ==
    /\ proc.pc = "copy"
    /\ \E e \in store[Id] \ tmp :
           tmp' = tmp \cup {e} /\ Goto(IF tmp' = store[Id] THEN "replace" ELSE "copy")
    /\ UNCHANGED <<manifest, lockfile, store, root, marker, bins, runs, stops>>

\* The installed tree goes, then the copy is renamed.
copy_package_tree ==
    /\ proc.pc = "replace"
    /\ IF Root # None
       THEN /\ \E tree \in Removing(Root) : root' = [root EXCEPT ![NameOf[Id]] = tree]
            /\ UNCHANGED <<tmp, proc>>
       ELSE root' = [root EXCEPT ![NameOf[Id]] = tmp] /\ tmp' = None /\ Goto("mark")
    /\ UNCHANGED <<manifest, lockfile, store, marker, bins, runs, stops>>

\* materialize_install_root ends with the marker: truncate, then write.
write_marker ==
    /\ proc.pc \in {"mark", "marking"}
    /\ marker' = [marker EXCEPT ![Id] = IF proc.pc = "mark" THEN Torn ELSE Id]
    /\ Goto(IF proc.pc = "mark" THEN "marking" ELSE "link")
    /\ UNCHANGED <<manifest, lockfile, store, root, tmp, bins, runs, stops>>

\* Without a manifest there is nothing to link; a link to a file that is
\* missing is an error.
link_package_bins ==
    /\ proc.pc = "link"
    /\ IF HasManifest(Root) /\ FilesOf(Root) # Files
       THEN proc' = Idle /\ UNCHANGED bins
       ELSE /\ bins' = IF HasManifest(Root) THEN bins \cup {NameOf[Id]} ELSE bins
            /\ IF proc.todo = {Id}
               THEN proc' = [proc EXCEPT !.pc = "apply", !.todo = DOMAIN proc.locked, !.changed = FALSE]
               ELSE NextPackage("fetch")
    /\ UNCHANGED <<manifest, lockfile, store, root, tmp, marker, runs, stops>>

\* Each entry is completed from the manifest that is installed, whose
\* dependencies are resolved as well.
apply_tarball_manifest_metadata ==
    /\ proc.pc = "apply" /\ proc.todo # {}
    /\ IF ~ HasManifest(Root)
       THEN proc' = Idle
       ELSE LET from == CHOOSE id \in Ids : <<PackageJson, id>> \in Root
                new == Deps[from] \ DOMAIN proc.locked
            IN  proc' = [proc EXCEPT
                    !.todo = @ \ {Id},
                    !.locked = Enriched([@ EXCEPT ![Id] = from], new),
                    !.changed = @ \/ proc.locked[Id] # from \/ new # {}]
    /\ UNCHANGED <<fileVars, runs, stops>>

\* A resolution that changed is materialized again.
next_pass ==
    /\ proc.pc = "apply" /\ proc.todo = {} /\ proc.changed
    /\ proc' = [proc EXCEPT !.pc = "fetch", !.todo = DOMAIN proc.locked]
    /\ UNCHANGED <<fileVars, runs, stops>>

\* A project without registry packages has nothing to materialize.
write_lockfile_if_changed ==
    /\ \/ proc.pc = "apply" /\ ~ proc.changed
       \/ proc.pc = "fetch"
    /\ proc.todo = {}
    /\ WriteLockfile(proc.locked, Idle)
    /\ UNCHANGED <<manifest, store, root, tmp, marker, bins, runs, stops>>

(***************************************************************************)
(* prune_removed_registry_packages.                                        *)
(***************************************************************************)
remove_linked_bins ==
    /\ proc.pc = "prune"
    /\ IF proc.todo = {}
       THEN proc' = Idle /\ UNCHANGED bins
       ELSE /\ Goto("prune_root")
            /\ bins' = IF HasManifest(Root) THEN bins \ {NameOf[Id]} ELSE bins
    /\ UNCHANGED <<manifest, lockfile, store, root, tmp, marker, runs, stops>>

\* The package goes first, its marker last.
prune_removed_registry_packages ==
    /\ proc.pc = "prune_root"
    /\ IF Root # None
       THEN /\ \E tree \in Removing(Root) : root' = [root EXCEPT ![NameOf[Id]] = tree]
            /\ UNCHANGED <<marker, proc>>
       ELSE marker' = [marker EXCEPT ![Id] = None] /\ NextPackage("prune") /\ UNCHANGED root
    /\ UNCHANGED <<manifest, lockfile, store, tmp, bins, runs, stops>>

\* The process dies, or a file operation, a download or a lifecycle script
\* fails; what was done to the files stays.
stop ==
    /\ proc.pc # "idle" /\ stops < MaxStops
    /\ proc' = Idle
    /\ stops' = stops + 1
    /\ UNCHANGED <<fileVars, runs>>

(***************************************************************************)
(* The specification.                                                      *)
(***************************************************************************)
Init ==
    /\ manifest = {} /\ lockfile = None /\ bins = {} /\ tmp = None
    /\ store = [id \in Ids |-> None]
    /\ root = [name \in Names |-> None]
    /\ marker = [id \in Ids |-> None]
    /\ proc = Idle /\ runs = 0 /\ stops = 0

Next ==
    \/ run_pm_install
    \/ \E id \in Ids : run_pm_add(id)
    \/ \E name \in Names : run_pm_remove(name)
    \/ write_local_lockfile
    \/ get_or_fetch_and_extract \/ extract_tgz_package
    \/ existing_install_matches
    \/ clear_tmp \/ copy_dir_recursive \/ copy_package_tree \/ write_marker
    \/ link_package_bins
    \/ apply_tarball_manifest_metadata \/ next_pass \/ write_lockfile_if_changed
    \/ remove_linked_bins \/ prune_removed_registry_packages
    \/ stop

Spec == Init /\ [][Next]_vars

(***************************************************************************)
(* Properties.                                                             *)
(***************************************************************************)
\* An install that reuses what is in node_modules, which InstalledPackage
\* calls "already current", finds there the package of its lockfile entry,
\* whole, whatever commands, crashes and failures came before.
ReusedIsCurrent ==
    proc.pc = "link" /\ proc.reused => Root = Tree(Id)

\* What remove prunes is not needed by the dependencies that remain.
PrunedIsUnneeded ==
    proc.pc = "prune_root" => Id \notin Closure(manifest)
=============================================================================
