------------------------------ MODULE PortWatch ------------------------------
(***************************************************************************)
(* waitForPort of main.go: wait until a device file exists, by watching the *)
(* directories on its path.  The path is the chain of levels 0, 1, ...,     *)
(* Depth: level 0 is a directory that always exists, level Depth is the     *)
(* device file, and levels 0 .. present exist.  Other programs (udev)       *)
(* create and remove the levels one by one while the function runs.         *)
(***************************************************************************)
EXTENDS Naturals, Sequences

CONSTANTS
    Depth,      \* the length of the path
    Fixed,      \* levels 0 .. Fixed are never removed
    MaxChanges  \* how often a level is created or removed (bound)

ASSUME PathAssumption   == Depth \in Nat \ {0} /\ Fixed \in 0 .. Depth - 1
ASSUME ChangeAssumption == MaxChanges \in Nat

Level == 0 .. Depth
Event == [op : {"create", "remove"}, level : Level]

VARIABLES
    present,  \* the deepest level that exists
    changes,  \* how many changes of the file system there have been
    watched,  \* the directories added to the watcher
    events,   \* watcher.Events, not yet received
    pc,       \* where waitForPort is, or how it returned
    dir       \* the directory it looks at

watchVars == <<present, changes, watched, events, pc, dir>>

WatchTypeOK ==
    /\ present \in Level
    /\ changes \in 0 .. MaxChanges
    /\ watched \subseteq 0 .. Depth - 1
    /\ events \in Seq(Event)
    /\ pc \in {"idle", "search", "add", "check", "wait", "follow", "found", "failed"}
    /\ dir \in Level

InitWatch ==
    /\ present \in Fixed .. Depth
    /\ changes = 0
    /\ watched = {}
    /\ events = <<>>
    /\ pc = "idle"
    /\ dir = 0

-----------------------------------------------------------------------------
(* The watcher is closed when the function returns.                          *)
Return(outcome) == pc' = outcome /\ watched' = {} /\ events' = <<>>

Start ==
    /\ pc \in {"idle", "found", "failed"}
    /\ dir' = Depth - 1
    /\ pc' = "search"
    /\ UNCHANGED <<present, changes, watched, events>>

(* The nearest existing ancestor.                                            *)
Search ==
    /\ pc = "search"
    /\ IF dir <= present THEN pc' = "add" /\ UNCHANGED dir
                         ELSE dir' = dir - 1 /\ UNCHANGED pc
    /\ UNCHANGED <<present, changes, watched, events>>

(* Mutant: the file is not looked for once the directory is watched.         *)
AddAncestorThenWait ==
    /\ pc = "add"
    /\ IF dir <= present THEN watched' = {dir} /\ pc' = "wait" /\ UNCHANGED events
                         ELSE Return("failed")
    /\ UNCHANGED <<present, changes, dir>>

AddAncestor ==
    /\ pc = "add"
    /\ IF dir <= present THEN watched' = {dir} /\ pc' = "check" /\ UNCHANGED events
                         ELSE Return("failed")
    /\ UNCHANGED <<present, changes, dir>>

CheckTarget ==
    /\ pc = "check"
    /\ IF present = Depth THEN Return("found")
                          ELSE pc' = "wait" /\ UNCHANGED <<watched, events>>
    /\ UNCHANGED <<present, changes, dir>>

TakeEvent ==
    /\ pc = "wait"
    /\ events # <<>>
    /\ events' = Tail(events)
    /\ pc' = IF Head(events).op = "create" THEN "follow" ELSE "check"
    /\ dir' = Head(events).level
    /\ UNCHANGED <<present, changes, watched>>

(* Watch what was created, if it still exists and is a directory; an error   *)
(* of watcher.Add is ignored.                                                *)
Follow ==
    /\ pc = "follow"
    /\ \/ dir <= present /\ dir < Depth /\ watched' = watched \cup {dir}
       \/ UNCHANGED watched
    /\ pc' = "check"
    /\ UNCHANGED <<present, changes, events, dir>>

(* No watcher is to be had, the directory cannot be watched although it is   *)
(* there, the context is done, or the watcher reports an error.              *)
Stop ==
    /\ pc \in {"search", "add", "wait"}
    /\ Return("failed")
    /\ UNCHANGED <<present, changes, dir>>

-----------------------------------------------------------------------------
(* The file system: a watched directory reports what is created and removed  *)
(* in it and its own removal, which also ends the watch.                     *)
Create ==
    /\ changes < MaxChanges
    /\ present < Depth
    /\ present' = present + 1
    /\ changes' = changes + 1
    /\ events' = IF present \in watched
                   THEN Append(events, [op |-> "create", level |-> present + 1])
                   ELSE events
    /\ UNCHANGED <<watched, pc, dir>>

Remove ==
    /\ changes < MaxChanges
    /\ present > Fixed
    /\ present' = present - 1
    /\ changes' = changes + 1
    /\ events' = IF {present, present - 1} \cap watched # {}
                   THEN Append(events, [op |-> "remove", level |-> present])
                   ELSE events
    /\ watched' = watched \ {present}
    /\ UNCHANGED <<pc, dir>>

waitForPort == Start \/ Search \/ AddAncestor \/ CheckTarget \/ TakeEvent \/ Follow

NextWatch == waitForPort \/ Stop \/ Create \/ Remove

WatchSpec == InitWatch /\ [][NextWatch]_watchVars

-----------------------------------------------------------------------------
(* The wait never misses the device in a directory it watches: when it is    *)
(* about to block and the file is there, its creation is still among the     *)
(* events (main.go:353-374: Add comes before Lstat, and Lstat after every    *)
(* event).                                                                   *)
NoLostEvent ==
    pc = "wait" /\ present = Depth /\ Depth - 1 \in watched =>
        \E i \in DOMAIN events : events[i] = [op |-> "create", level |-> Depth]

=============================================================================
