------------------------------ MODULE EpicLane ------------------------------
(***************************************************************************)
(* The epic lane: `flowbee epic start` books a host and a scope, launches  *)
(* an agent in a tmux session there and registers the session with the     *)
(* watchdog; a tick of serve folds what the agent reports on its branch    *)
(* into the epic's row; `flowbee epic abandon` gives the booking back.     *)
(*                                                                         *)
(* A start is a process of its own that talks to the database and, over    *)
(* ssh, to the host: each command is a step, may fail, and the process may *)
(* be interrupted between two.  Ingestion lists the active epics, then     *)
(* fetches and folds one after the other.                                  *)
(*                                                                         *)
(* Abstractions.  One repository.  A scope is the set of path prefixes its *)
(* globs reserve.  The watchdog is GoalWatch; here it only sees that a     *)
(* session has achieved its goal.  What only refuses a start (a missing    *)
(* file, an unknown agent, the quota gate, the disk) changes nothing and   *)
(* is left out where no state tells it apart.  Every start of an epic is   *)
(* given the same host, by its file or by --host.                          *)
(***************************************************************************)
EXTENDS Naturals, FiniteSets

CONSTANTS
    Epics,       \* slugs
    Hosts,
    Files,       \* what the epics may ask for: [Epics -> [scope, host]]
    Words,       \* what agents write after "State:"
    Nothing,
    MaxStarts,   \* BOUND: starts in all
    MaxUpsets    \* BOUND: operators' other commands, failures, interruptions

ASSUME EpicLaneAssumption ==
    /\ Nothing \notin Epics \cup Hosts
    /\ \A f \in Files : \A e \in Epics : f[e].host \in Hosts
    /\ Words \subseteq {"building", "blocked", "done", "abandoned"}
    /\ {MaxStarts, MaxUpsets} \subseteq Nat

VARIABLES
    file,     \* the scope each epic's file declares, and the host it is started on
    epics,    \* the epics table
    session,  \* goal_sessions: the rows "epic-<slug>"
    start,    \* the processes that run `epic start`, in the order they began
    ingest,   \* the ingestion tick: what is left of its list, what it read
    tmux,     \* the sessions on each host
    tree,     \* the checkout on each host
    branch,   \* State: in the epic's file on its branch, once pushed
    used,     \* [starts, upsets] so far
    reached,  \* history: epics whose agent has achieved its goal
    revived,  \* history: epics that became active again after they were released
    stranded  \* history: epics of which a start was cut short or a kill failed

vars == <<file, epics, session, start, ingest, tmux, tree, branch, used,
          reached, revived, stranded>>
world == <<tmux, tree, branch, reached>>

Procs == 1..MaxStarts

NoEpic == [state |-> "none", host |-> Nothing]
ActiveStates == {"launching", "running", "blocked"}
States == ActiveStates \cup {"none", "achieved", "abandoned", "done"}
NoSession == [host |-> Nothing, achieved |-> FALSE, enabled |-> FALSE]
NoStart == [step |-> "idle", epic |-> Nothing, host |-> Nothing]
NoIngest == [todo |-> {}, on |-> Nothing, raw |-> "none"]

Init ==
    /\ file \in Files
    /\ epics = [e \in Epics |-> NoEpic]
    /\ session = [e \in Epics |-> NoSession]
    /\ start = [p \in Procs |-> NoStart]
    /\ ingest = NoIngest
    /\ tmux = [h \in Hosts |-> [e \in Epics |-> "none"]]
    /\ tree = [h \in Hosts |-> "none"]
    /\ branch = [e \in Epics |-> "none"]
    /\ used = [starts |-> 0, upsets |-> 0]
    /\ reached = {} /\ revived = {} /\ stranded = {}

Upset == used.upsets < MaxUpsets /\ used' = [used EXCEPT !.upsets = @ + 1]

Active(e) == epics[e].state \in ActiveStates
ScopeOverlap(a, b) == file[a].scope \cap file[b].scope # {}
HostBusy(h) == \E e \in Epics : Active(e) /\ epics[e].host = h
ScopeTaken(e) == \E o \in Epics : Active(o) /\ ScopeOverlap(e, o)

At(p, step) == start[p].step = step
Goes(p, step) == start' = [start EXCEPT ![p].step = step]
Ends(p) == start' = [start EXCEPT ![p] = NoStart]

(***************************************************************************)
(* epic start.                                                             *)
(***************************************************************************)

\* runEpicStart to the preflight: the checks are reads, for fast feedback.
RunEpicStart(p, e) ==
    LET h == file[e].host IN
    /\ p = used.starts + 1
    /\ epics[e] = NoEpic
    /\ ~HostBusy(h) /\ ~ScopeTaken(e)
    /\ start' = [start EXCEPT ![p] = [step |-> "preflight", epic |-> e, host |-> h]]
    /\ used' = [used EXCEPT !.starts = @ + 1]
    /\ UNCHANGED <<file, epics, session, ingest, world, revived, stranded>>

\* A fresh clone appears whole or not at all.  RepoRefreshCmd on a reused
\* checkout: `git checkout` carries uncommitted changes along unless they
\* clash with the other branch, and `git reset --hard` discards them.
Refreshes(h) == tree' = [tree EXCEPT ![h] = "clean"]
CheckoutClashes(h) == tree[h] = "dirty" /\ tree' = tree

\* gh and the disk are judged after the checkout was cloned or refreshed.
Preflight(p) ==
    LET h == start[p].host IN
    /\ At(p, "preflight")
    /\ \/ Refreshes(h) /\ \E ok \in BOOLEAN : IF ok THEN Goes(p, "register") ELSE Ends(p)
       \/ CheckoutClashes(h) /\ Ends(p)
    /\ UNCHANGED <<file, epics, session, ingest, tmux, branch, used, reached,
                   revived, stranded>>

\* The broken variant that trusts the checks of runEpicStart.
InsertEpicRun(p) ==
    LET e == start[p].epic IN
    /\ At(p, "register")
    /\ IF epics[e] = NoEpic
       THEN /\ epics' = [epics EXCEPT ![e] = [state |-> "launching", host |-> start[p].host]]
            /\ Goes(p, "create")
       ELSE Ends(p) /\ UNCHANGED epics
    /\ UNCHANGED <<file, session, ingest, world, used, revived, stranded>>

\* AddEpicRun: both gates and the insert in one transaction.
AddEpicRun(p) ==
    LET e == start[p].epic h == start[p].host IN
    /\ At(p, "register")
    /\ IF HostBusy(h) \/ ScopeTaken(e) \/ epics[e] # NoEpic
       THEN Ends(p) /\ UNCHANGED epics
       ELSE /\ epics' = [epics EXCEPT ![e] = [state |-> "launching", host |-> h]]
            /\ Goes(p, "create")
    /\ UNCHANGED <<file, session, ingest, world, used, revived, stranded>>

\* tmux refuses a name that is taken.
Creates(h, e) == tmux[h][e] = "none" /\ tmux' = [tmux EXCEPT ![h][e] = "prompt"]

\* LaunchEpicSession, command by command.
NewTmuxSession(p) ==
    LET e == start[p].epic h == start[p].host IN
    /\ At(p, "create")
    /\ \/ Creates(h, e) /\ Goes(p, "send")
       \/ tmux[h][e] # "none" /\ Goes(p, "delete") /\ UNCHANGED tmux
    /\ UNCHANGED <<file, epics, session, ingest, tree, branch, used, reached,
                   revived, stranded>>

\* An agent at work has uncommitted changes in the checkout.
Submits(h, e) ==
    /\ tmux[h][e] = "prompt"
    /\ tmux' = [tmux EXCEPT ![h][e] = "busy"]
    /\ tree' = [tree EXCEPT ![h] = "dirty"]

\* The Enter may be swallowed.  The keys reach whatever the session is by now.
SendGoal(p) ==
    LET e == start[p].epic h == start[p].host IN
    /\ At(p, "send")
    /\ IF tmux[h][e] = "none" THEN Goes(p, "delete") ELSE Goes(p, "verify")
    /\ Submits(h, e) \/ UNCHANGED <<tmux, tree>>
    /\ UNCHANGED <<file, epics, session, ingest, branch, used, reached,
                   revived, stranded>>

\* One bare Enter when the input line shows exactly the goal; a pane in which
\* it wraps does not, and is left to the operator.
VerifyGoal(p) ==
    LET e == start[p].epic h == start[p].host IN
    /\ At(p, "verify")
    /\ Submits(h, e) \/ UNCHANGED <<tmux, tree>>
    /\ Goes(p, "watch")
    /\ UNCHANGED <<file, epics, session, ingest, branch, used, reached,
                   revived, stranded>>

\* Creating the session or sending the goal fails over ssh, before it reached
\* the host or after: then only the answer is lost.
LaunchFails(p) ==
    LET e == start[p].epic h == start[p].host IN
    /\ \/ (At(p, "create") \/ At(p, "send")) /\ UNCHANGED <<tmux, tree>>
       \/ At(p, "create") /\ Creates(h, e) /\ UNCHANGED tree
       \/ At(p, "send") /\ Submits(h, e)
    /\ Goes(p, "delete")
    /\ Upset
    /\ UNCHANGED <<file, epics, session, ingest, branch, reached, revived, stranded>>

\* The roll-back: the row first, then the session.
DeleteEpicRun(p) ==
    /\ At(p, "delete")
    /\ epics' = [epics EXCEPT ![start[p].epic] = NoEpic]
    /\ Goes(p, "kill")
    /\ UNCHANGED <<file, session, ingest, world, used, revived, stranded>>

\* The broken variant without the kill.
LeaveTmuxSession(p) ==
    /\ At(p, "kill")
    /\ Ends(p)
    /\ UNCHANGED <<file, epics, session, ingest, world, used, revived, stranded>>

KillTmuxSession(p) ==
    /\ At(p, "kill")
    /\ tmux' = [tmux EXCEPT ![start[p].host][start[p].epic] = "none"]
    /\ Ends(p)
    /\ UNCHANGED <<file, epics, session, ingest, tree, branch, used, reached,
                   revived, stranded>>

\* Best effort: the error is logged.
KillFails(p) ==
    /\ At(p, "kill")
    /\ Ends(p)
    /\ stranded' = stranded \cup {start[p].epic}
    /\ UNCHANGED <<file, epics, session, ingest, world, used, revived>>

\* An id that is taken is refused, and the refusal only logged.
AddGoalSession(p) ==
    LET e == start[p].epic IN
    /\ At(p, "watch")
    /\ session' = IF session[e] # NoSession THEN session
                  ELSE [session EXCEPT ![e] = [host |-> start[p].host,
                            achieved |-> FALSE, enabled |-> TRUE]]
    /\ Goes(p, "mark")
    /\ UNCHANGED <<file, epics, ingest, world, used, revived, stranded>>

Revives(e, state) ==
    revived' = IF epics[e].state \notin ActiveStates /\ state \in ActiveStates
               THEN revived \cup {e} ELSE revived

\* An UPDATE by id, whatever the row's state.
MarkEpicLaunched(p) ==
    LET e == start[p].epic IN
    /\ At(p, "mark")
    /\ epics' = IF epics[e] = NoEpic THEN epics
                ELSE [epics EXCEPT ![e].state = "running"]
    /\ Revives(e, "running")
    /\ Ends(p)
    /\ UNCHANGED <<file, session, ingest, world, used, stranded>>

\* The process is interrupted.
Interrupted(p) ==
    /\ ~At(p, "idle")
    /\ Ends(p)
    /\ stranded' = stranded \cup {start[p].epic}
    /\ Upset
    /\ UNCHANGED <<file, epics, session, ingest, world, revived>>

(***************************************************************************)
(* The other commands.                                                     *)
(***************************************************************************)

\* Whatever state the epic is in; the tmux session goes on.
AbandonEpicRun(e) ==
    /\ epics[e] # NoEpic /\ epics[e].state # "abandoned"
    /\ epics' = [epics EXCEPT ![e].state = "abandoned"]
    /\ session' = [session EXCEPT ![e].enabled = FALSE]
    /\ Upset
    /\ UNCHANGED <<file, start, ingest, world, revived, stranded>>

RemoveGoalSession(e) ==
    /\ session[e] # NoSession
    /\ session' = [session EXCEPT ![e] = NoSession]
    /\ Upset
    /\ UNCHANGED <<file, epics, start, ingest, world, revived, stranded>>

\* "stop it by hand"
KillByHand(h, e) ==
    /\ tmux[h][e] # "none"
    /\ tmux' = [tmux EXCEPT ![h][e] = "none"]
    /\ Upset
    /\ UNCHANGED <<file, epics, session, start, ingest, tree, branch, reached,
                   revived, stranded>>

(***************************************************************************)
(* The agents, and the watchdog's eye on them.                             *)
(***************************************************************************)

\* What an agent pushes carries its report; done is the last one.
Pushes(h, e) ==
    /\ tmux[h][e] = "busy" /\ branch[e] # "done"
    /\ \E word \in Words \ {branch[e]} : branch' = [branch EXCEPT ![e] = word]
    /\ UNCHANGED <<file, epics, session, start, ingest, tmux, tree, used, reached,
                   revived, stranded>>

Achieves(h, e) ==
    /\ tmux[h][e] = "busy"
    /\ tmux' = [tmux EXCEPT ![h][e] = "achieved"]
    /\ reached' = reached \cup {e}
    /\ UNCHANGED <<file, epics, session, start, ingest, tree, branch, used,
                   revived, stranded>>

\* GoalWatch!Capture of a session that shows "Goal achieved".
UpsertObservation(e) ==
    /\ session[e].enabled /\ ~session[e].achieved
    /\ tmux[session[e].host][e] = "achieved"
    /\ session' = [session EXCEPT ![e].achieved = TRUE]
    /\ UNCHANGED <<file, epics, start, ingest, world, used, revived, stranded>>

(***************************************************************************)
(* ingestEpicStatuses.                                                     *)
(***************************************************************************)

ListActiveEpicRuns ==
    /\ ingest = NoIngest
    /\ \E e \in Epics : Active(e)
    /\ ingest' = [NoIngest EXCEPT !.todo = {e \in Epics : Active(e)}]
    /\ UNCHANGED <<file, epics, session, start, world, used, revived, stranded>>

\* A branch that is not there yet is skipped.
ReadStatus(e) ==
    /\ ingest.on = Nothing /\ e \in ingest.todo
    /\ ingest' = [todo |-> ingest.todo \ {e}, raw |-> branch[e],
                  on |-> IF branch[e] = "none" THEN Nothing ELSE e]
    /\ UNCHANGED <<file, epics, session, start, world, used, revived, stranded>>

\* The broken variant that looks for the word in the text.
NextStateContains(cur, raw) ==
    IF raw \in {"done", "abandoned"} THEN "done"
    ELSE CASE raw = "building" -> "running" [] raw = "blocked" -> "blocked" [] OTHER -> cur

\* Whole words only; anything else is no transition.
NextEpicState(cur, raw) ==
    CASE raw = "done" -> "done"
      [] raw = "blocked" -> "blocked"
      [] raw = "building" -> "running"
      [] OTHER -> cur

\* The broken variant without the join on goal_sessions.
FoldReport(e, raw) == NextEpicState(epics[e].state, raw)
\* The watchdog's achieved counts unless the report says done.
Folded(e, raw) ==
    LET next == NextEpicState(epics[e].state, raw)
    IN IF session[e].achieved /\ next # "done" THEN "achieved" ELSE next

\* The row's state now, whatever it was when it was listed.
UpsertEpicStatus ==
    LET e == ingest.on IN
    /\ e # Nothing
    /\ IF epics[e] = NoEpic THEN UNCHANGED <<epics, revived>>
       ELSE /\ epics' = [epics EXCEPT ![e].state = Folded(e, ingest.raw)]
            /\ Revives(e, Folded(e, ingest.raw))
    /\ ingest' = [ingest EXCEPT !.on = Nothing, !.raw = "none"]
    /\ UNCHANGED <<file, session, start, world, used, stranded>>

RestartServe ==
    /\ ingest # NoIngest
    /\ ingest' = NoIngest
    /\ Upset
    /\ UNCHANGED <<file, epics, session, start, world, revived, stranded>>

(***************************************************************************)
(* The specification.                                                      *)
(***************************************************************************)

StartStep(p) ==
    \/ Preflight(p) \/ AddEpicRun(p)
    \/ NewTmuxSession(p) \/ SendGoal(p) \/ VerifyGoal(p)
    \/ DeleteEpicRun(p) \/ KillTmuxSession(p)
    \/ AddGoalSession(p) \/ MarkEpicLaunched(p)
StartFault(p) == LaunchFails(p) \/ KillFails(p) \/ Interrupted(p)
Operator(e) ==
    AbandonEpicRun(e) \/ RemoveGoalSession(e) \/ \E h \in Hosts : KillByHand(h, e)
Agent(e) == \E h \in Hosts : Pushes(h, e) \/ Achieves(h, e)
IngestStep == UpsertEpicStatus \/ \E e \in Epics : ReadStatus(e)

Next ==
    \/ \E p \in Procs, e \in Epics : RunEpicStart(p, e)
    \/ \E p \in Procs : StartStep(p) \/ StartFault(p)
    \/ \E e \in Epics : Operator(e) \/ Agent(e) \/ UpsertObservation(e)
    \/ ListActiveEpicRuns \/ IngestStep \/ RestartServe

Spec == Init /\ [][Next]_vars

\* The two tickers of serve come round again.
Fairness ==
    /\ \A e \in Epics : WF_vars(UpsertObservation(e))
    /\ WF_vars(ListActiveEpicRuns)
    /\ WF_vars(IngestStep)

FairSpec == Spec /\ Fairness

(***************************************************************************)
(* Properties.                                                             *)
(***************************************************************************)

\* Every variable keeps its type, within the bounds.
TypeOK ==
    /\ file \in Files
    /\ epics \in [Epics -> [state : States, host : Hosts \cup {Nothing}]]
    /\ session \in [Epics -> [host : Hosts \cup {Nothing},
                              achieved : BOOLEAN, enabled : BOOLEAN]]
    /\ start \in [Procs -> [step : {"idle", "preflight", "register", "create", "send",
                                    "verify", "delete", "kill", "watch", "mark"},
                            epic : Epics \cup {Nothing}, host : Hosts \cup {Nothing}]]
    /\ ingest \in [todo : SUBSET Epics, on : Epics \cup {Nothing},
                   raw : Words \cup {"none"}]
    /\ tmux \in [Hosts -> [Epics -> {"none", "prompt", "busy", "achieved"}]]
    /\ tree \in [Hosts -> {"none", "clean", "dirty"}]
    /\ branch \in [Epics -> Words \cup {"none"}]
    /\ used \in [starts : 0 .. MaxStarts, upsets : 0 .. MaxUpsets]
    /\ reached \cup revived \cup stranded \subseteq Epics

\* Two active epics share neither a host nor a scope, whatever starts ran at
\* the same time, unless one of them had been released and came back
\* (AddEpicRun: the transaction is the authority).
BookedOnce ==
    \A a, b \in Epics :
        /\ a # b /\ Active(a) /\ Active(b)
        /\ epics[a].host = epics[b].host \/ ScopeOverlap(a, b)
        => {a, b} \cap revived # {}

\* When no start of an epic is under way, and none was cut short, its row is
\* not left launching, and an agent that runs for it has a row: a launch that
\* fails gives back what it booked and leaves no agent behind.
Starting(e) == \E p \in Procs : start[p].epic = e
LaunchIsWhole ==
    \A e \in Epics :
        ~Starting(e) /\ e \notin stranded =>
            /\ epics[e].state # "launching"
            /\ \A h \in Hosts : tmux[h][e] # "none" => epics[e] # NoEpic

\* A booking is given back as done only when the agent wrote that word, as
\* achieved only when the goal was reached (nextEpicState, whole words).
DoneMeansDone ==
    \A e \in Epics :
        /\ epics[e].state = "done" => branch[e] = "done"
        /\ epics[e].state = "achieved" => e \in reached

\* An epic whose agent has achieved its goal, seen by the watchdog and with
\* its branch pushed, gives its booking back, whatever the agent last wrote.
Finished(e) ==
    /\ Active(e) /\ branch[e] # "none"
    /\ session[e].enabled /\ session[e].host = epics[e].host
    /\ tmux[epics[e].host][e] = "achieved"
GoalSurfaces == \A e \in Epics : Finished(e) ~> ~Finished(e)
=============================================================================
