----------------------------- MODULE GoalWatch -----------------------------
(***************************************************************************)
(* The goal-session watchdog: long agent sessions in tmux, possibly on     *)
(* another box, whose pane a pass of serve captures, and into which it     *)
(* types "/goal resume" when it believes that this is all they need.       *)
(*                                                                         *)
(* The pane is the environment's.  A pass reads it in separate commands    *)
(* (status line, scrollback, verification), so that it may have changed    *)
(* from one to the next; every command may fail.  The registry row is the  *)
(* watcher's memory: it survives a restart, the count of unreadable        *)
(* scrollbacks does not.                                                   *)
(*                                                                         *)
(* Abstractions.  Pursuing and working are one state.  A message of the    *)
(* usage limit names a clock time or says nothing that parses; one that    *)
(* names a weekday is a clock time with a longer day.  A Tick is longer    *)
(* than a pass, so the clock stands while one runs (Pass takes `now` once).*)
(* Instants are kept as the ticks left to them.                            *)
(***************************************************************************)
EXTENDS Integers, FiniteSets

CONSTANTS
    Sessions,
    Nobody,
    Day,         \* ticks of a day: a clock time comes again after so many
    Skew,        \* the box's clock is so many ticks ahead of serve's
    Window,      \* goalResumeWindow
    MaxResumes,  \* goalResumeMaxPerWindow
    MaxMisses,   \* consecutive failed captures that are reported
    CoolDown,    \* usageLimitFallbackCooldown
    MaxFaults    \* BOUND: commands on the box that fail, restarts of serve

\* With a budget of one, a session that is removed and added again between
\* RecordResumeAttempt and the keys has used up more than its new row says.
ASSUME GoalWatchAssumption ==
    /\ Nobody \notin Sessions
    /\ {Day, Window, MaxResumes, MaxMisses, CoolDown} \subseteq Nat \ {0}
    /\ {Skew, MaxFaults} \subseteq Nat
    /\ MaxResumes >= 2
    /\ CoolDown <= Day

VARIABLES
    row,    \* goal_sessions
    pane,   \* what each tmux pane shows
    cap,    \* ticks left of the usage limit in force at the provider
    time,   \* the box's time of day
    pass,   \* the watch pass under way
    faults, \* counted against MaxFaults
    blind,  \* Watcher.scrollbackFails
    spent,  \* history: the resumes spent in the last Window ticks, <<age, serial>>
    told    \* history: the reset time of the limit in force has been read

vars == <<row, pane, cap, time, pass, faults, blind, spent, told>>
env == <<pane, cap, time>>

NoText == -1    \* no usage-limit message in the last 60 lines
Vague == -2     \* a message whose reset clause does not parse
Clock == 0..(Day - 1)

NoRow == [state |-> "absent"]
Row == [state : {"unknown", "working", "blocked", "achieved", "unreachable"},
        detail : {"", "usage_limit", "needs_operator"},
        until : 0..Day,               \* blocked_until
        attempts : 0..MaxResumes,     \* resume_attempts
        window : 0..Window,           \* left of the window of resume_window_start
        misses : 0..MaxMisses,        \* consecutive_failures
        enabled : BOOLEAN,
        tz : BOOLEAN]                 \* registered with the box's timezone
Pane == [line : {"working", "blocked", "achieved"},
         text : {NoText, Vague} \cup Clock,  \* the oldest message in the scrollback
         own : BOOLEAN,                \* and it is that of the limit in force
         infra : BOOLEAN,              \* an infra keyword in the last 15 lines
         input : BOOLEAN]              \* "/goal resume" unsubmitted in the input line
\* What a pass keeps of a row it listed: bookkeeping of a block, a deadline ahead.
NotListed == [block |-> FALSE, waits |-> TRUE]
Listed == [block : BOOLEAN, waits : BOOLEAN]
Idle == [step |-> "idle", on |-> Nobody, still |-> TRUE,
         todo |-> {}, listed |-> [s \in Sessions |-> NotListed]]
Keys == {K \in SUBSET ((0..(Window - 1)) \X Nat) : IsFiniteSet(K)}

Init ==
    /\ row = [s \in Sessions |-> NoRow]
    /\ pane = [s \in Sessions |-> [line |-> "working", text |-> NoText,
                                   own |-> FALSE, infra |-> FALSE, input |-> FALSE]]
    /\ cap = [s \in Sessions |-> 0]
    /\ time = 0
    /\ pass = Idle
    /\ faults = 0
    /\ blind = [s \in Sessions |-> 0]
    /\ spent = [s \in Sessions |-> {}]
    /\ told = [s \in Sessions |-> FALSE]

Fault == faults < MaxFaults /\ faults' = faults + 1

Registered(s) == row[s] # NoRow
Watched(s) == Registered(s) /\ row[s].enabled

(***************************************************************************)
(* The operator's registry commands.                                       *)
(***************************************************************************)

\* session add.  An id that is taken is refused.  A new row has a new budget,
\* on which nothing is spent, even if its session was removed a moment ago.
AddGoalSession(s, zone) ==
    /\ ~Registered(s)
    /\ row' = [row EXCEPT ![s] =
            [state |-> "unknown", detail |-> "", until |-> 0, attempts |-> 0,
             window |-> 0, misses |-> 0, enabled |-> TRUE, tz |-> zone]]
    /\ spent' = [spent EXCEPT ![s] = {}]
    /\ told' = [told EXCEPT ![s] = FALSE]
    /\ UNCHANGED <<env, pass, blind, faults>>

RemoveGoalSession(s) ==
    /\ Registered(s)
    /\ row' = [row EXCEPT ![s] = NoRow]
    /\ UNCHANGED <<env, pass, blind, spent, told, faults>>

\* session pause, session resume-watch: nothing else of the row changes.
SetGoalSessionEnabled(s, enabled) ==
    /\ Registered(s)
    /\ row[s].enabled # enabled
    /\ row' = [row EXCEPT ![s].enabled = enabled]
    /\ UNCHANGED <<env, pass, blind, spent, told, faults>>

(***************************************************************************)
(* The pass.                                                               *)
(***************************************************************************)

Finished(s) ==
    [Idle EXCEPT !.todo = pass.todo \ {s},
                 !.listed = [pass.listed EXCEPT ![s] = NotListed],
                 !.step = IF pass.todo = {s} THEN "idle" ELSE "watch"]

\* Every write is an UPDATE by id: of a removed row it changes nothing.
Updated(s, new) == IF Registered(s) THEN [row EXCEPT ![s] = new] ELSE row

ListEnabledGoalSessions ==
    /\ pass.step = "idle"
    /\ \E s \in Sessions : Watched(s)
    /\ pass' = [Idle EXCEPT !.step = "watch", !.todo = {s \in Sessions : Watched(s)},
            !.listed = [s \in Sessions |->
                IF Watched(s)
                THEN [block |-> row[s].state = "blocked" \/ row[s].detail # "",
                      waits |-> row[s].until > 0]
                ELSE NotListed]]
    /\ UNCHANGED <<env, row, blind, spent, told, faults>>

RecordCaptureFailure(r) ==
    LET n == IF r.misses < MaxMisses THEN r.misses + 1 ELSE MaxMisses
    IN [r EXCEPT !.misses = n,
                 !.state = IF n = MaxMisses THEN "unreachable" ELSE @]

\* The raw parse touches neither the gate nor the budget.
UpsertObservation(r, state) == [r EXCEPT !.state = state, !.misses = 0]

ClearBlock(r) == [r EXCEPT !.detail = "", !.until = 0, !.attempts = 0, !.window = 0]

\* watchOne to the end of UpsertObservation, and what follows at once.
CaptureFails(s) ==
    /\ pass.step = "watch" /\ s \in pass.todo
    /\ row' = Updated(s, RecordCaptureFailure(row[s]))
    /\ pass' = Finished(s)
    /\ Fault
    /\ UNCHANGED <<env, blind, spent, told>>

\* A pane caught in the middle of a redraw: unknown is never acted on.
CaptureGarbled(s) ==
    /\ pass.step = "watch" /\ s \in pass.todo
    /\ row' = Updated(s, UpsertObservation(row[s], "unknown"))
    /\ pass' = Finished(s)
    /\ Fault
    /\ UNCHANGED <<env, blind, spent, told>>

\* A listed deadline that has not come ends the pass for a blocked session.  A
\* session that is seen at work after a block is given a new budget, too.
Capture(s) ==
    LET line == pane[s].line
        clears == line = "working" /\ pass.listed[s].block /\ Registered(s)
        handled == line = "blocked" /\ Registered(s) /\ ~pass.listed[s].waits
        seen == UpsertObservation(row[s], line)
    IN /\ pass.step = "watch" /\ s \in pass.todo
       /\ row' = Updated(s, IF clears THEN ClearBlock(seen) ELSE seen)
       /\ pass' = IF handled THEN [pass EXCEPT !.step = "classify", !.on = s]
                  ELSE Finished(s)
       /\ spent' = IF clears THEN [spent EXCEPT ![s] = {}] ELSE spent
       /\ told' = IF clears THEN [told EXCEPT ![s] = FALSE] ELSE told
       /\ UNCHANGED <<env, blind, faults>>

\* The broken variant that resolves every clock time in serve's zone.
ServeResetTime(at, zone) == 1 + ((at - (time - Skew) - 1) % Day)

\* The broken variant that looks for a usage limit before the infra keywords.
LimitsFirst(p) ==
    IF p.text # NoText THEN "usage_limit" ELSE IF p.infra THEN "infra" ELSE "resume"

\* The next time the box's clock shows `at`: today, or tomorrow when it has
\* passed.  Without a registered timezone the clock read is serve's.
ParseResetTime(at, zone) ==
    LET now == IF zone THEN time ELSE (time - Skew) % Day
    IN 1 + ((at - now - 1) % Day)

ClassifyBlocked(p) ==
    IF p.infra THEN "infra" ELSE IF p.text # NoText THEN "usage_limit" ELSE "resume"

SetNeedsOperator(r) == [r EXCEPT !.detail = "needs_operator"]

SetBlockedUntil(r, text) ==
    [r EXCEPT !.detail = "usage_limit",
              !.until = IF text = Vague THEN CoolDown ELSE ParseResetTime(text, r.tz)]

\* The broken variant that forgets to open the window.
RecordUnopened(r) ==
    IF r.window = 0 THEN [r EXCEPT !.attempts = 1] ELSE [r EXCEPT !.attempts = @ + 1]

\* Counted before the keys are sent; a fresh window starts at one.
RecordResumeAttempt(r) ==
    IF r.window = 0 THEN [r EXCEPT !.attempts = 1, !.window = Window]
    ELSE [r EXCEPT !.attempts = @ + 1]
MayResume(r) == r.window = 0 \/ r.attempts < MaxResumes

\* The earlier posture: an unreadable scrollback is classified as an empty one.
ResumesBlind(s) ==
    /\ pass.step = "classify" /\ pass.on = s
    /\ Registered(s) /\ MayResume(row[s])
    /\ row' = Updated(s, RecordResumeAttempt(row[s]))
    /\ pass' = [pass EXCEPT !.step = "send", !.still = TRUE]
    /\ Fault
    /\ UNCHANGED <<env, blind, spent, told>>

\* The scrollback cannot be read: no action, and after three the operator.
ScrollbackFails(s) ==
    LET n == IF blind[s] < MaxMisses THEN blind[s] + 1 ELSE MaxMisses
    IN /\ pass.step = "classify" /\ pass.on = s
       /\ blind' = [blind EXCEPT ![s] = n]
       /\ row' = IF n = MaxMisses THEN Updated(s, SetNeedsOperator(row[s])) ELSE row
       /\ pass' = Finished(s)
       /\ Fault
       /\ UNCHANGED <<env, spent, told>>

\* handleBlocked and autoResume up to the keys.
HandleBlocked(s) ==
    LET class == ClassifyBlocked(pane[s])
        resume == class = "resume" /\ Registered(s) /\ MayResume(row[s])
    IN /\ pass.step = "classify" /\ pass.on = s
       /\ blind' = [blind EXCEPT ![s] = 0]
       /\ row' = Updated(s,
              CASE class = "usage_limit" -> SetBlockedUntil(row[s], pane[s].text)
                [] resume -> RecordResumeAttempt(row[s])
                [] OTHER -> SetNeedsOperator(row[s]))
       /\ pass' = IF resume THEN [pass EXCEPT !.step = "send", !.still = TRUE]
                  ELSE Finished(s)
       /\ told' = [told EXCEPT ![s] = @ \/ /\ class = "usage_limit"
                                           /\ pane[s].text \in Clock /\ pane[s].own]
       /\ UNCHANGED <<env, spent, faults>>

\* The keys typed in the last n ticks, and those that are left after one more.
Since(keys, n) == {k \in keys : k[1] < n}
Aged(keys) == {<<k[1] + 1, k[2]>> : k \in Since(keys, Window - 1)}

\* The keys.  The slash menu of the TUI may swallow the Enter.
SendResume(s) ==
    /\ pass.step = "send" /\ pass.on = s
    /\ \/ pane' = [pane EXCEPT ![s] = IF @.line # "blocked" THEN @
                                      ELSE [@ EXCEPT !.line = "working"]]
       \/ /\ pane[s].line = "blocked"
          /\ pane' = [pane EXCEPT ![s].input = TRUE]
    /\ spent' = [spent EXCEPT ![s] = @ \cup {<<0, Cardinality(Since(@, 1))>>}]
    /\ pass' = [pass EXCEPT !.step = "verify"]
    /\ UNCHANGED <<cap, time, row, blind, told, faults>>

SendFails(s) ==
    /\ pass.step = "send" /\ pass.on = s
    /\ pass' = Finished(s)
    /\ Fault
    /\ UNCHANGED <<env, row, blind, spent, told>>

\* One bare Enter, when the input line holds exactly the unsubmitted command.
VerifyResume(s) ==
    /\ pass.step = "verify" /\ pass.on = s
    /\ pane' = IF pane[s].input
               THEN [pane EXCEPT ![s].input = FALSE, ![s].line = "working"]
               ELSE pane
    /\ pass' = Finished(s)
    /\ UNCHANGED <<cap, time, row, blind, spent, told, faults>>

VerifyFails(s) ==
    /\ pass.step = "verify" /\ pass.on = s
    /\ pass' = Finished(s)
    /\ Fault
    /\ UNCHANGED <<env, row, blind, spent, told>>

\* serve restarts: the pass and the in-memory counter are gone.
Restart ==
    /\ pass' = Idle
    /\ blind' = [s \in Sessions |-> 0]
    /\ (pass # Idle \/ \E s \in Sessions : blind[s] > 0)
    /\ Fault
    /\ UNCHANGED <<env, row, spent, told>>

(***************************************************************************)
(* The sessions and their users.                                           *)
(***************************************************************************)

Moves(s, p) ==
    /\ pane' = [pane EXCEPT ![s] = p]
    /\ pass' = IF pass.on = s THEN [pass EXCEPT !.still = FALSE] ELSE pass
    /\ UNCHANGED <<time, row, blind, spent, faults>>

Achieves(s) ==
    /\ pane[s].line = "working" /\ cap[s] = 0
    /\ Moves(s, [pane[s] EXCEPT !.line = "achieved"])
    /\ UNCHANGED <<cap, told>>

\* The agent stops: on its own, or on its environment.
Blocks(s) ==
    /\ pane[s].line = "working" /\ cap[s] = 0
    /\ \E broken \in BOOLEAN :
           Moves(s, [pane[s] EXCEPT !.line = "blocked", !.infra = broken])
    /\ UNCHANGED <<cap, told>>

\* The limit is hit, or is still in force.  An older message may be left
\* above the new one, and is the first that matches.
HitsUsageLimit(s) ==
    \E left \in IF cap[s] = 0 THEN 1..Day ELSE {cap[s]} :
        LET new == {Vague, (time + left) % Day} \X {TRUE}
            old == IF pane[s].text = NoText THEN {} ELSE {<<pane[s].text, FALSE>>}
        IN /\ pane[s].line = "working"
           /\ cap' = [cap EXCEPT ![s] = left]
           /\ told' = [told EXCEPT ![s] = @ /\ cap[s] > 0]
           /\ \E m \in new \cup old :
                  Moves(s, [pane[s] EXCEPT !.line = "blocked", !.infra = FALSE,
                                           !.text = m[1], !.own = m[2]])

\* A user types, or output scrolls: text leaves the captured lines.
Scrolls(s) ==
    /\ pane[s].text # NoText \/ pane[s].infra
    /\ Moves(s, [pane[s] EXCEPT !.text = NoText, !.own = FALSE, !.infra = FALSE])
    /\ UNCHANGED <<cap, told>>

\* A user resumes the session, or gives it the next goal.
UserResumes(s) ==
    /\ pane[s].line # "working"
    /\ Moves(s, [pane[s] EXCEPT !.line = "working", !.input = FALSE])
    /\ UNCHANGED <<cap, told>>

Less(n) == IF n = 0 THEN 0 ELSE n - 1

Tick ==
    /\ pass.step = "idle"
    /\ time' = (time + 1) % Day
    /\ cap' = [s \in Sessions |-> Less(cap[s])]
    /\ pane' = [s \in Sessions |-> [pane[s] EXCEPT !.own = @ /\ cap[s] > 1]]
    /\ row' = [s \in Sessions |->
            IF Registered(s)
            THEN [row[s] EXCEPT !.until = Less(@), !.window = Less(@)] ELSE NoRow]
    /\ spent' = [s \in Sessions |-> Aged(spent[s])]
    /\ UNCHANGED <<pass, blind, told, faults>>

(***************************************************************************)
(* The specification.                                                      *)
(***************************************************************************)

Registry(s) ==
    \/ \E zone \in BOOLEAN : AddGoalSession(s, zone)
    \/ RemoveGoalSession(s)
    \/ \E enabled \in BOOLEAN : SetGoalSessionEnabled(s, enabled)

WatchOne(s) ==
    \/ CaptureFails(s) \/ CaptureGarbled(s) \/ Capture(s)
    \/ ScrollbackFails(s) \/ HandleBlocked(s)
    \/ SendResume(s) \/ SendFails(s) \/ VerifyResume(s) \/ VerifyFails(s)

Session(s) ==
    \/ Achieves(s) \/ Blocks(s) \/ HitsUsageLimit(s) \/ Scrolls(s) \/ UserResumes(s)

Next ==
    \/ ListEnabledGoalSessions \/ Restart \/ Tick
    \/ \E s \in Sessions : Registry(s) \/ WatchOne(s) \/ Session(s)

Spec == Init /\ [][Next]_vars

\* The 2-minute ticker and the clock; a pass comes to its end.
Fairness ==
    /\ WF_vars(ListEnabledGoalSessions)
    /\ SF_vars(Tick)
    /\ \A s \in Sessions : WF_vars(WatchOne(s))

FairSpec == Spec /\ Fairness

(***************************************************************************)
(* Properties.                                                             *)
(***************************************************************************)

\* Every variable keeps its type; the registry row has the columns of
\* goal_sessions that the watcher reads.
TypeOK ==
    /\ row \in [Sessions -> Row \cup {NoRow}]
    /\ pane \in [Sessions -> Pane]
    /\ cap \in [Sessions -> 0..Day]
    /\ time \in Clock
    /\ pass \in [step : {"idle", "watch", "classify", "send", "verify"},
                 on : Sessions \cup {Nobody}, still : BOOLEAN,
                 todo : SUBSET Sessions, listed : [Sessions -> Listed]]
    /\ blind \in [Sessions -> 0..MaxMisses]
    /\ spent \in [Sessions -> Keys]
    /\ told \in [Sessions -> BOOLEAN]
    /\ faults \in 0..MaxFaults

\* Fewer than twice MaxResumes resumes within Window ticks are typed on one
\* budget, whatever crashes, failed sends and pauses fall in between, and
\* even if the row is removed under the pass: RecordResumeAttempt counts
\* before the keys, and its window opens at its first attempt and does not
\* slide, so two windows may meet, but never two whole ones.  This is no
\* bound of a session's hour: a pass that sees it work (ClearBlock) and
\* session add hand out a new budget.
ResumesAreBounded ==
    \A s \in Sessions : Cardinality(spent[s]) <= 2 * MaxResumes - 1

Types(s) == ~(Since(spent'[s], 1) \subseteq spent[s])

\* A session whose scrollback shows broken infrastructure gets no keys, as
\* long as the pane has not changed since the pass read it (handleBlocked's
\* order: unreadable means no action, infra before limits before resuming).
InfraUntouched ==
    [][\A s \in Sessions : Types(s) /\ pass.still => ~pane[s].infra]_vars

\* Once the reset time of the limit in force was read, nothing is typed
\* before it, on a box registered with its timezone: neither a restart, nor a
\* pause, nor the message leaving the scrollback lifts the gate.
NotBeforeReset ==
    [][\A s \in Sessions :
           Types(s) => ~(Registered(s) /\ row[s].tz /\ told[s] /\ cap[s] > 0)]_vars

\* A blocked session that is watched, and that no usage-limit message holds
\* back, does not stay both blocked and unknown to the operator.
Unattended(s) ==
    /\ Watched(s) /\ row[s].detail # "needs_operator"
    /\ pane[s].line = "blocked"
    /\ pane[s].text = NoText \/ pane[s].infra
Attended == \A s \in Sessions : Unattended(s) ~> ~Unattended(s)
=============================================================================
