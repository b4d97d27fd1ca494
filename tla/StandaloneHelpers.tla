------------------------- MODULE StandaloneHelpers --------------------------
(***************************************************************************)
(* scripts/config_huge_page.py and scripts/config_sysfs_settings.py run by *)
(* hand: clients of KernelSettings that keep what they change, unless a    *)
(* step of the huge-page helper fails.  Python's own handlers are in place:*)
(* SIGINT raises KeyboardInterrupt anywhere, SIGTERM ends the process.     *)
(***************************************************************************)
EXTENDS KernelSettings

VARIABLES
    action,     \* the option given
    place,      \* where main() is
    path,       \* the path the loop is at
    writes,     \* one-shot writes not yet made
    leaving,    \* exit status of the exception being handled
    reported,   \* the paths named by the error of restore()
    delivered,  \* signals delivered so far
    killed,     \* history: a signal ended the restoration, or the process
    status      \* exit status, -1 while running

hvars == <<action, place, path, writes, leaving, reported, delivered, killed, status>>
helper_vars == <<kvars, hvars>>

PoolActions == {"setup", "clear"}
AutonumaActions == {"enable", "disable"}

Exit(s) == place' = "exit" /\ status' = s

\* except BaseException: settings.restore(); the sysfs helper has no such clause.
Undo(s) == CallRestore(NumNodes, 1) /\ place' = "undo" /\ leaving' = s /\ UNCHANGED status

\* Mutant: except Exception, which KeyboardInterrupt is not.
FailErrorsOnly(s) ==
    IF action \in PoolActions /\ s # 130 THEN Undo(s)
    ELSE Exit(s) /\ EndCall /\ UNCHANGED leaving

Fail(s) ==
    IF action \in PoolActions THEN Undo(s)
    ELSE Exit(s) /\ EndCall /\ UNCHANGED leaving

\* The paths a helper sets, and the value it wants there given the one it reads.
Target(p, value) ==
    CASE action = "setup" -> IF value < Want THEN Want ELSE value
      [] action = "clear" -> 0
      [] action = "enable" -> 1
      [] action = "disable" -> 0
Set == CASE action = "setup" -> Eligible
         [] action = "clear" -> Nodes
         [] OTHER -> {Autonuma}

\* pick_huge_page_size: there may be no size with a pool on all eligible nodes.
Begin ==
    /\ place = "begin"
    /\ \/ action \in PoolActions /\ Fail(1)
       \/ /\ action \in PoolActions => Eligible # {}
          /\ place' = "one_shots" /\ UNCHANGED <<kvars, leaving, status>>
    /\ UNCHANGED <<action, path, writes, reported, delivered, killed>>

\* --drop-caches and --compact: write() only.
OneShots ==
    /\ place = "one_shots"
    /\ \/ writes > 0 /\ priv /\ writes' = writes - 1 /\ UNCHANGED <<kvars, place, leaving, status>>
       \/ writes > 0 /\ Fail(1) /\ UNCHANGED writes
       \/ writes = 0 /\ place' = "paths" /\ UNCHANGED <<kvars, writes, leaving, status>>
    /\ UNCHANGED <<action, path, reported, delivered, killed>>

\* The next path; setup_huge_pages reads the pool first, which may fail.
NextSetting ==
    /\ place = "paths"
    /\ \/ /\ path \in Set
          /\ CallSet(path, Target(path, kernel[path])) /\ place' = "set"
          /\ UNCHANGED <<path, leaving, status>>
       \/ path \in Set /\ action = "setup" /\ Fail(1) /\ UNCHANGED path
       \/ path \in Paths \ Set /\ path' = path + 1 /\ UNCHANGED <<kvars, place, leaving, status>>
       \/ path > NumNodes /\ place' = "after" /\ UNCHANGED <<kvars, path, leaving, status>>
    /\ UNCHANGED <<action, writes, reported, delivered, killed>>

SetDone ==
    /\ place = "set" /\ pc = "returned"
    /\ \/ /\ exc = "none" /\ EndCall
          /\ place' = "paths" /\ path' = path + 1 /\ UNCHANGED <<leaving, status>>
       \/ exc # "none" /\ Fail(1) /\ UNCHANGED path
    /\ UNCHANGED <<action, writes, reported, delivered, killed>>

\* The exception goes on; one of restore() takes its place.
UndoDone ==
    /\ place = "undo" /\ pc = "returned"
    /\ EndCall /\ reported' = errors
    /\ Exit(IF exc = "none" THEN leaving ELSE 1)
    /\ UNCHANGED <<action, path, writes, leaving, delivered, killed>>

\* check_huge_pages or check_autonuma: reads and prints.
After ==
    /\ place = "after" /\ Exit(0)
    /\ UNCHANGED <<kvars, action, path, writes, leaving, reported, delivered, killed>>

Call ==
    /\ place \in {"set", "undo"}
    /\ set \/ restore
    /\ UNCHANGED hvars

\* A call of set() or restore() is abandoned where it is.
KeyboardInterrupt ==
    /\ place # "exit" /\ delivered < MaxSignals
    /\ delivered' = delivered + 1
    /\ \/ place \in {"begin", "one_shots", "paths", "set"} /\ Fail(130) /\ UNCHANGED killed
       \/ place = "undo" /\ EndCall /\ Exit(130) /\ killed' = TRUE /\ UNCHANGED leaving
       \/ place = "after" /\ Exit(130) /\ UNCHANGED <<kvars, leaving, killed>>
    /\ UNCHANGED <<action, path, writes, reported>>

Terminate ==
    /\ place # "exit" /\ delivered < MaxSignals
    /\ delivered' = delivered + 1
    /\ killed' = TRUE /\ EndCall /\ Exit(143)
    /\ UNCHANGED <<action, path, writes, leaving, reported>>

HInit ==
    /\ KInit /\ priv \in BOOLEAN
    /\ action \in PoolActions \cup AutonumaActions
    /\ writes \in IF action = "setup" THEN 0..2 ELSE {0}
    /\ place = "begin" /\ path = 0 /\ leaving = 0 /\ reported = {}
    /\ delivered = 0 /\ killed = FALSE /\ status = -1

HNext ==
    \/ Begin \/ OneShots \/ NextSetting \/ SetDone \/ UndoDone \/ After
    \/ Call \/ KeyboardInterrupt \/ Terminate

HSpec == HInit /\ [][HNext]_helper_vars

(***************************************************************************)
(* Properties.                                                             *)
(***************************************************************************)

\* A helper that ends, unless a signal cut its restoration short or killed it, has
\* done all it was asked for, with the pools it does not own as they were, if it
\* succeeds.  If the huge-page helper fails or is interrupted it has either put
\* back every pool or named it in its error, or it was past its last write.
AllOrNothing ==
    status # -1 /\ ~killed =>
        LET complete == \A p \in Paths : kernel[p] = IF p \in Set THEN Target(p, initial[p])
                                                     ELSE initial[p]
        IN /\ status = 0 => complete
           /\ status # 0 /\ action \in PoolActions =>
                 complete \/ \A p \in Paths : kernel[p] = initial[p] \/ p \in reported
=============================================================================
