------------------------------ MODULE HotReload ------------------------------
(* HotReloadManager, ConfigWatcher and ConfigManager (src/core/config) with  *)
(* the configuration routes and the section handlers of main.  A             *)
(* configuration maps its sections to revisions of their content.  A patch   *)
(* runs under mutex_ from start to end; the watcher's thread reads the file  *)
(* and notifies the handlers outside of it.  The file is written in place,   *)
(* so for a while it is empty and cannot be parsed.                          *)
EXTENDS Integers, FiniteSets, SequencesExt

CONSTANTS
    Sections,           \* sections with a handler
    MaxWrites           \* bound: patches and edits

ASSUME HotReloadAssumption == IsFiniteSet(Sections) /\ MaxWrites \in Nat

VARIABLES
    configFile,         \* {} while it is being written, else {its content}
    inotify,            \* external: an event waits to be read
    current_config_,    \* HotReloadManager
    singleton,          \* ConfigManager's config_
    applied,            \* section -> what its handler was last given
    patcher, watcher,   \* [at, old, new, left]: the two threads
    writes,
    unsaved,            \* history: the last patch was not written
    overtaken           \* history: a patch began while the watcher was
                        \* about to notify

hotVars == <<configFile, inotify, current_config_, singleton, applied, patcher,
             watcher, writes, unsaved, overtaken>>

AtRest == [at |-> "idle", old |-> <<>>, new |-> <<>>, left |-> <<>>]

(* Some of the sections, each new or as it was at the start.                *)
Configs(revision) ==
    UNION {[some -> {0, revision}] : some \in SUBSET Sections}

MutexFree == patcher.at = "idle"

Content == CHOOSE c \in configFile : TRUE

(* LoadFromFile keeps what it has when the file cannot be parsed.           *)
LoadFromFile == IF configFile = {} THEN singleton ELSE Content

-----------------------------------------------------------------------------
(* DiffAndNotify: the sections whose content differs, then the removed      *)
(* ones.                                                                    *)

Differs(old, new, s) == s \notin DOMAIN old \/ old[s] # new[s]

(* Mutant: a section that was not there before is not looked at.            *)
ChangedKnown(old, new) ==
    SetToSeq({s \in DOMAIN new \intersect DOMAIN old : old[s] # new[s]})
      \o SetToSeq(DOMAIN old \ DOMAIN new)

Changed(old, new) ==
    SetToSeq({s \in DOMAIN new : Differs(old, new, s)})
      \o SetToSeq(DOMAIN old \ DOMAIN new)

(* One handler is called.  Those of main take nothing from a section that   *)
(* was removed.                                                             *)
Handle(thread) ==
    LET s == thread.left[1]
    IN  applied' = IF s \in DOMAIN thread.new
                   THEN [applied EXCEPT ![s] = thread.new[s]] ELSE applied

-----------------------------------------------------------------------------
(* ApplyPatch.  HandleUpdateConfig refuses the sections that need a         *)
(* restart; they are not among Sections.                                    *)

ApplyPatch ==
    /\ MutexFree /\ writes < MaxWrites
    /\ writes' = writes + 1
    /\ \E patch \in Configs(writes + 1) :
         LET merged == [s \in DOMAIN current_config_ \union DOMAIN patch |->
                          IF s \in DOMAIN patch THEN patch[s]
                          ELSE current_config_[s]]
         IN  /\ current_config_' = merged
             /\ patcher' = [at |-> "load", old |-> current_config_,
                            new |-> merged, left |-> <<>>]
    /\ overtaken' = (overtaken \/ watcher.at \in {"load", "notify"})
    /\ UNCHANGED <<configFile, inotify, singleton, applied, watcher, unsaved>>

(* ConfigManager gets the file as it was before the patch.                  *)
PatchLoad ==
    /\ patcher.at = "load"
    /\ singleton' = LoadFromFile
    /\ patcher' = [patcher EXCEPT !.at = "truncate"]
    /\ UNCHANGED <<configFile, inotify, current_config_, applied, watcher,
                   writes, unsaved, overtaken>>

(* Opening the file for writing empties it, unless it fails.                *)
PatchTruncate ==
    /\ patcher.at = "truncate"
    /\ \/ /\ configFile' = {} /\ inotify' = TRUE
          /\ patcher' = [patcher EXCEPT !.at = "write"]
          /\ UNCHANGED unsaved
       \/ /\ unsaved' = TRUE
          /\ patcher' = [patcher EXCEPT !.at = "notify",
                           !.left = Changed(patcher.old, patcher.new)]
          /\ UNCHANGED <<configFile, inotify>>
    /\ UNCHANGED <<current_config_, singleton, applied, watcher, writes, overtaken>>

PatchWrite ==
    /\ patcher.at = "write"
    /\ configFile' = {current_config_} /\ inotify' = TRUE /\ unsaved' = FALSE
    /\ patcher' = [patcher EXCEPT !.at = "notify",
                     !.left = Changed(patcher.old, patcher.new)]
    /\ UNCHANGED <<current_config_, singleton, applied, watcher, writes, overtaken>>

PatchNotify ==
    /\ patcher.at = "notify"
    /\ IF patcher.left = <<>> THEN patcher' = AtRest /\ UNCHANGED applied
       ELSE Handle(patcher) /\ patcher' = [patcher EXCEPT !.left = Tail(@)]
    /\ UNCHANGED <<configFile, inotify, current_config_, singleton, watcher,
                   writes, unsaved, overtaken>>

-----------------------------------------------------------------------------
(* WatchLoop takes all waiting events together and calls OnFileChanged, ... *)
WatchLoop ==
    /\ watcher.at = "idle" /\ inotify
    /\ inotify' = FALSE
    /\ watcher' = [AtRest EXCEPT !.at = "parse"]
    /\ UNCHANGED <<configFile, current_config_, singleton, applied, patcher,
                   writes, unsaved, overtaken>>

(* ... which returns if it cannot parse the file, ...                       *)
OnFileChanged ==
    /\ watcher.at = "parse"
    /\ watcher' = IF configFile = {} THEN AtRest
                  ELSE [watcher EXCEPT !.at = "lock", !.new = Content]
    /\ UNCHANGED <<configFile, inotify, current_config_, singleton, applied,
                   patcher, writes, unsaved, overtaken>>

(* ... replaces the configuration under the mutex, ...                      *)
ReplaceConfig ==
    /\ watcher.at = "lock" /\ MutexFree
    /\ current_config_' = watcher.new
    /\ watcher' = [watcher EXCEPT !.at = "load", !.old = current_config_]
    /\ unsaved' = FALSE
    /\ UNCHANGED <<configFile, inotify, singleton, applied, patcher, writes,
                   overtaken>>

(* ... and goes on without it.                                              *)
WatcherLoad ==
    /\ watcher.at = "load"
    /\ singleton' = LoadFromFile
    /\ watcher' = [watcher EXCEPT !.at = "notify",
                     !.left = Changed(watcher.old, watcher.new)]
    /\ UNCHANGED <<configFile, inotify, current_config_, applied, patcher,
                   writes, unsaved, overtaken>>

WatcherNotify ==
    /\ watcher.at = "notify"
    /\ IF watcher.left = <<>> THEN watcher' = AtRest /\ UNCHANGED applied
       ELSE Handle(watcher) /\ watcher' = [watcher EXCEPT !.left = Tail(@)]
    /\ UNCHANGED <<configFile, inotify, current_config_, singleton, patcher,
                   writes, unsaved, overtaken>>

(* External: somebody edits the file in place, between two patches' writes. *)
EditFile ==
    /\ writes < MaxWrites /\ configFile # {}
    /\ writes' = writes + 1
    /\ \E c \in Configs(writes + 1) : configFile' = {c}
    /\ inotify' = TRUE
    /\ UNCHANGED <<current_config_, singleton, applied, patcher, watcher,
                   unsaved, overtaken>>

-----------------------------------------------------------------------------
(* Start: main has loaded the file and given every component its section.   *)
HotInit ==
    /\ current_config_ = [s \in Sections |-> 0]
    /\ configFile = {current_config_} /\ singleton = current_config_
    /\ applied = current_config_
    /\ inotify = FALSE /\ patcher = AtRest /\ watcher = AtRest
    /\ writes = 0 /\ unsaved = FALSE /\ overtaken = FALSE

HotNext ==
    \/ ApplyPatch \/ PatchLoad \/ PatchTruncate \/ PatchWrite \/ PatchNotify
    \/ WatchLoop \/ OnFileChanged \/ ReplaceConfig \/ WatcherLoad
    \/ WatcherNotify \/ EditFile

HotSpec == HotInit /\ [][HotNext]_hotVars

-----------------------------------------------------------------------------
Settled == patcher.at = "idle" /\ watcher.at = "idle" /\ ~inotify

(* Once patches, edits and the watcher have come to rest, everybody agrees: *)
(* the file, current_config_ and ConfigManager are the same, and every      *)
(* component runs with the section it says, although the watcher may have   *)
(* read an empty or an outdated file on the way.  (Not if a patch could     *)
(* not be saved; and components may keep an older section for good if a     *)
(* patch ran while the watcher was about to notify them.)                   *)
ConfigSettles ==
    Settled =>
      /\ ~unsaved => configFile = {current_config_} /\ singleton = current_config_
      /\ ~overtaken => \A s \in DOMAIN current_config_ :
                          applied[s] = current_config_[s]
=============================================================================
