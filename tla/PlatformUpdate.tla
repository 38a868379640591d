--------------------------- MODULE PlatformUpdate ---------------------------
(***************************************************************************)
(* fleetbits-update (platform/scripts/update.sh) and what its restarts do  *)
(* to the state that the API keeps in memory.  The script pulls the        *)
(* configuration and the API's image, restarts the API if the image has    *)
(* changed, and rebuilds the services whose configuration has.  It may end *)
(* at any step, and what it has compared is then forgotten.                *)
(***************************************************************************)
EXTENDS LoginGuard, CounterSync, SequencesExt

CONSTANTS
    Service,     \* services that are built on the host
    MaxRevision  \* bound: revisions of the configuration, and of the image

ASSUME MaxRevisionAssumption == MaxRevision \in Nat

VARIABLES
    upstream, head,  \* the configuration in the repository, and on the host,
    built,           \* and the one that each service was built from
    registry, disk,  \* the API's image in the registry, and on the host,
    running,         \* and the one that its container runs
    script,          \* [mode, stage, before, old] of the update under way
    cutShort         \* history: an update ended between pulling this image and restarting

config == <<upstream, head, built>>
images == <<registry, disk, running>>
memory == <<now, guard, counts>>
updateVars == <<config, images, script, cutShort, memory>>

Ended == [mode |-> "none", stage |-> "ended", before |-> 0, old |-> 0]

UpdateInit ==
    /\ upstream = 0 /\ head = 0 /\ built = [s \in Service |-> 0]
    /\ registry = 0 /\ disk = 0 /\ running = 0
    /\ script = Ended
    /\ cutShort = FALSE
    /\ GuardInit
    /\ CountInit

\* A release: of the configuration, touching every service, and of the image.
Release ==
    /\ upstream < MaxRevision
    /\ upstream' = upstream + 1
    /\ registry' = registry + 1
    /\ UNCHANGED <<head, built, disk, running, script, cutShort, memory>>

Goto(stage) == script' = [script EXCEPT !.stage = stage]

\* With --images-only the configuration stays, and so do BEFORE and AFTER: empty.
Start(mode) ==
    /\ script = Ended
    /\ script' = [mode |-> mode, before |-> head, old |-> 0,
                  stage |-> IF mode = "images" THEN "images" ELSE "config"]
    /\ UNCHANGED <<config, images, cutShort, memory>>

PullConfig ==
    /\ script.stage = "config"
    /\ head' = upstream
    /\ IF script.mode = "config" THEN script' = Ended
       ELSE script' = [script EXCEPT !.stage = "images", !.before = head]
    /\ UNCHANGED <<upstream, built, images, cutShort, memory>>

\* Faulty variant: the image is looked at when the new one is there.
PullImagesFirst ==
    /\ script.stage = "images"
    /\ disk' = registry
    /\ script' = [script EXCEPT !.stage = "restart", !.old = disk']
    /\ UNCHANGED <<config, registry, running, cutShort, memory>>

\* What identifies an image is taken, as the script means it, of the one that its tag
\* names on the host.
PullImages ==
    /\ script.stage = "images"
    /\ disk' = registry
    /\ script' = [script EXCEPT !.stage = "restart", !.old = disk]
    /\ UNCHANGED <<config, registry, running, cutShort, memory>>

\* A new container runs the image on disk and has an empty memory.
RestartApi ==
    /\ script.stage = "restart"
    /\ IF script.old # disk
       THEN /\ running' = disk
            /\ cutShort' = FALSE
            /\ ForgetLogins
       ELSE UNCHANGED <<running, cutShort, guard>>
    /\ Goto("rebuild")
    /\ UNCHANGED <<config, registry, disk, now, counts>>

\* Changed files are named from the root of the repository, of which the directory
\* docker is part of platform; the script looks for docker/<service>/.
ChangedFile(s) == <<"platform", "docker", s>>
RebuildTargets(from, to) ==
    {s \in Service : from # to /\ IsPrefix(<<"docker", s>>, ChangedFile(s))}

Rebuild ==
    /\ script.stage = "rebuild"
    /\ built' = [s \in Service |-> IF s \in RebuildTargets(script.before, head) THEN head
                                   ELSE built[s]]
    /\ script' = Ended
    /\ UNCHANGED <<upstream, head, images, cutShort, memory>>

\* A command fails (set -e), or the script is interrupted.
Interrupt ==
    /\ script # Ended
    /\ cutShort' = (cutShort \/ (script.stage = "restart" /\ script.old # disk))
    /\ script' = Ended
    /\ UNCHANGED <<config, images, memory>>

\* The API's container is restarted as it is.
CrashApi ==
    /\ ForgetLogins
    /\ UNCHANGED <<config, images, script, cutShort, now, counts>>

UpdateNext ==
    \/ Release
    \/ \E mode \in {"full", "config", "images"} : Start(mode)
    \/ PullConfig \/ PullImages \/ RestartApi \/ Rebuild \/ Interrupt \/ CrashApi
    \/ GuardNext /\ UNCHANGED <<config, images, script, cutShort, counts>>
    \/ CountNext /\ UNCHANGED <<config, images, script, cutShort, now, guard>>

UpdateSpec == UpdateInit /\ [][UpdateNext]_updateVars

-----------------------------------------------------------------------------
\* Between two updates the API runs the image that was pulled last, unless the update
\* that pulled it ended before the restart: no later one makes up for that until there
\* is another image.
ImagesArrive ==
    script = Ended /\ ~cutShort => running = disk

\* Why: what the update under way remembers of the image makes it restart the API
\* whenever that does not run the image on disk.
ImageInv ==
    /\ {upstream, head, registry, disk, running} \subseteq Nat
    /\ script \in [mode : {"none", "full", "config", "images"},
                   stage : {"ended", "config", "images", "restart", "rebuild"},
                   before : Nat, old : Nat]
    /\ ~cutShort /\ script.stage = "restart" => script.old = running
    /\ ~cutShort /\ script.stage # "restart" => running = disk

=============================================================================
