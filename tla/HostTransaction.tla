-------------------------- MODULE HostTransaction ---------------------------
(***************************************************************************)
(* What scripts/run_cpu_micro.py promises the owner of the host: it may    *)
(* change settings for the benchmarks, but once it has begun to restore it *)
(* changes nothing else, and it does not end before every setting is put   *)
(* back or named.  The window between the two is where it may still be     *)
(* abandoned.  SuiteRunner implements this.                                *)
(***************************************************************************)
CONSTANT Settings

VARIABLES
    phase,      \* "changing", "window", "restoring", "over"
    dirty,      \* the settings that are not what they were
    named       \* the settings reported as not restored

tvars == <<phase, dirty, named>>

Init == phase = "changing" /\ dirty = {} /\ named = {}

Change ==
    /\ phase = "changing"
    /\ dirty' \in SUBSET Settings
    /\ UNCHANGED <<phase, named>>

\* The command line is refused before anything was changed.
Refuse ==
    /\ phase = "changing" /\ dirty = {}
    /\ phase' = "over"
    /\ UNCHANGED <<dirty, named>>

StopChanging ==
    /\ phase = "changing" /\ phase' = "window"
    /\ UNCHANGED <<dirty, named>>

Abandon ==
    /\ phase = "window" /\ phase' = "over"
    /\ UNCHANGED <<dirty, named>>

BeginRestoring ==
    /\ phase = "window" /\ phase' = "restoring"
    /\ UNCHANGED <<dirty, named>>

PutBack ==
    /\ phase = "restoring"
    /\ dirty' \in SUBSET dirty
    /\ UNCHANGED <<phase, named>>

Name ==
    /\ phase = "restoring"
    /\ named \subseteq named' /\ named' \subseteq Settings
    /\ UNCHANGED <<phase, dirty>>

End ==
    /\ phase = "restoring" /\ dirty \subseteq named
    /\ phase' = "over"
    /\ UNCHANGED <<dirty, named>>

Next ==
    \/ Change \/ Refuse \/ StopChanging \/ Abandon
    \/ BeginRestoring \/ PutBack \/ Name \/ End

Spec == Init /\ [][Next]_tvars
=============================================================================
