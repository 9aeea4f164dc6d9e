--------------------------- MODULE EpicLaneProofs ---------------------------
(***************************************************************************)
(* Theorems of EpicLane, for all epics, hosts, files, and numbers of       *)
(* starts and upsets: the types, that active epics share neither a host    *)
(* nor a scope, that a launch that fails leaves nothing behind, and that a *)
(* booking is given back for the reason its row states.                    *)
(***************************************************************************)
EXTENDS EpicLane, TLAPS

\* From AddEpicRun to its last step, a start owns the row of its epic.
Owning == {"create", "send", "verify", "delete", "watch", "mark"}
Owns(p, e) == start[p].epic = e /\ start[p].step \in Owning

\* A start, a row and an agent are on the host the epic's file declares.
HostsSound ==
    /\ \A p \in Procs : start[p].step # "idle" =>
          /\ p <= used.starts
          /\ start[p].epic \in Epics /\ start[p].host = file[start[p].epic].host
    /\ \A e \in Epics, h \in Hosts : tmux[h][e] # "none" => h = file[e].host
    /\ \A e \in Epics : epics[e].state = "none" => epics[e] = NoEpic

\* A row has one owner at most, and a row nobody owns is not left launching.
OwnersSound ==
    /\ \A p \in Procs, e \in Epics : Owns(p, e) => epics[e].state # "none"
    /\ \A p, q \in Procs, e \in Epics : Owns(p, e) /\ Owns(q, e) => p = q
    /\ \A e \in Epics : epics[e].state = "launching" =>
          e \in stranded \/ \E p \in Procs : Owns(p, e)

\* An agent without a row is about to be killed.
AgentsSound ==
    \A e \in Epics, h \in Hosts : tmux[h][e] # "none" =>
        \/ epics[e].state # "none" \/ e \in stranded
        \/ \E p \in Procs : At(p, "kill") /\ start[p].epic = e

\* What ingestion and the watchdog have read is what the agent did.
ReportsSound ==
    /\ ingest.raw = "done" => ingest.on \in Epics /\ branch[ingest.on] = "done"
    /\ \A e \in Epics : session[e].achieved => e \in reached
    /\ \A e \in Epics : session[e].enabled => session[e].host \in Hosts
    /\ \A e \in Epics, h \in Hosts : tmux[h][e] = "achieved" => e \in reached

EpicInv ==
    /\ TypeOK
    /\ HostsSound
    /\ OwnersSound
    /\ AgentsSound
    /\ ReportsSound
    /\ BookedOnce
    /\ DoneMeansDone
-----------------------------------------------------------------------------
(* Types. *)

EpicRow == [state : States, host : Hosts \cup {Nothing}]
SessionRow == [host : Hosts \cup {Nothing}, achieved : BOOLEAN, enabled : BOOLEAN]
Steps == {"idle", "preflight", "register", "create", "send", "verify", "delete", "kill",
          "watch", "mark"}
StartRow == [step : Steps, epic : Epics \cup {Nothing}, host : Hosts \cup {Nothing}]
Ingestion == [todo : SUBSET Epics, on : Epics \cup {Nothing}, raw : Words \cup {"none"}]
Pane == {"none", "prompt", "busy", "achieved"}
Panes == [Hosts -> [Epics -> Pane]]
Trees == [Hosts -> {"none", "clean", "dirty"}]
Counts == [starts : 0 .. MaxStarts, upsets : 0 .. MaxUpsets]

LEMMA Types ==
    TypeOK <=> /\ file \in Files /\ epics \in [Epics -> EpicRow]
               /\ session \in [Epics -> SessionRow] /\ start \in [Procs -> StartRow]
               /\ ingest \in Ingestion /\ tmux \in Panes /\ tree \in Trees
               /\ branch \in [Epics -> Words \cup {"none"}] /\ used \in Counts
               /\ reached \cup revived \cup stranded \subseteq Epics
BY DEF TypeOK, EpicRow, SessionRow, StartRow, Steps, Ingestion, Panes, Pane, Trees, Counts

LEMMA TypesNext ==
    ASSUME file' \in Files, epics' \in [Epics -> EpicRow],
           session' \in [Epics -> SessionRow], start' \in [Procs -> StartRow],
           ingest' \in Ingestion, tmux' \in Panes, tree' \in Trees,
           branch' \in [Epics -> Words \cup {"none"}], used' \in Counts,
           reached' \cup revived' \cup stranded' \subseteq Epics
    PROVE  TypeOK'
BY DEF TypeOK, EpicRow, SessionRow, StartRow, Steps, Ingestion, Panes, Pane, Trees, Counts

LEMMA DeclaredHost ==
    ASSUME TypeOK, NEW e \in Epics
    PROVE  file[e].host \in Hosts /\ file[e].host # Nothing
BY EpicLaneAssumption DEF TypeOK

\* A start goes to another step.
LEMMA GoesOn ==
    ASSUME TypeOK, NEW p \in Procs, NEW z \in Steps, Goes(p, z)
    PROVE  /\ start' \in [Procs -> StartRow] /\ start'[p].step = z
           /\ start'[p].epic = start[p].epic /\ start'[p].host = start[p].host
           /\ \A q \in Procs \ {p} : start'[q] = start[q]
BY Types DEF Goes, StartRow

LEMMA GoesIdle ==
    ASSUME TypeOK, NEW p \in Procs, Ends(p)
    PROVE  /\ start' \in [Procs -> StartRow] /\ start'[p] = NoStart
           /\ start'[p].step = "idle" /\ \A q \in Procs \ {p} : start'[q] = start[q]
<1>1. NoStart \in StartRow /\ NoStart.step = "idle"
  BY DEF NoStart, StartRow, Steps
<1> QED
  BY <1>1, Types DEF Ends

LEMMA UpsetCounts ==
    ASSUME TypeOK, Upset
    PROVE  used' \in Counts /\ used'.starts = used.starts
BY EpicLaneAssumption, Types DEF Upset, Counts

LEMMA RowSet ==
    ASSUME TypeOK, NEW e \in Epics, NEW z \in States, epics[e].state # "none", z # "none",
           epics' = [epics EXCEPT ![e].state = z]
    PROVE  /\ epics' \in [Epics -> EpicRow] /\ epics'[e].state = z
           /\ epics'[e].host = epics[e].host /\ \A o \in Epics \ {e} : epics'[o] = epics[o]
BY Types DEF EpicRow

LEMMA PaneSet ==
    ASSUME TypeOK, NEW h \in Hosts, NEW e \in Epics, NEW z \in Pane,
           tmux' = [tmux EXCEPT ![h][e] = z]
    PROVE  /\ tmux' \in Panes /\ tmux'[h][e] = z
           /\ \A g \in Hosts, o \in Epics : g # h \/ o # e => tmux'[g][o] = tmux[g][o]
BY Types DEF Panes

LEMMA PaneCleared ==
    ASSUME TypeOK, NEW h \in Hosts, NEW e \in Epics, tmux' = [tmux EXCEPT ![h][e] = "none"]
    PROVE  /\ tmux' \in Panes /\ tmux'[h][e] = "none"
           /\ \A g \in Hosts, o \in Epics : g # h \/ o # e => tmux'[g][o] = tmux[g][o]
BY Types DEF Panes, Pane
-----------------------------------------------------------------------------
(* Steps that register no row and create no session. *)

\* A start begins, goes on with the role it has, or ends when nothing hangs on it.
StartsTurn ==
    \A p \in Procs :
        \/ start'[p] = start[p]
        \/ /\ start'[p].epic = start[p].epic /\ start'[p].host = start[p].host
           /\ start'[p].step # "idle" /\ start[p].step # "idle"
           /\ start[p].step \in Owning <=> start'[p].step \in Owning
           /\ start[p].step = "kill" <=> start'[p].step = "kill"
        \/ /\ start[p].step = "idle" /\ start'[p].step = "preflight" /\ p <= used'.starts
           /\ start'[p].epic \in Epics /\ start'[p].host = file[start'[p].epic].host
        \/ /\ start'[p].step = "idle"
           /\ start[p].step \notin Owning \cup {"kill"} \/ start[p].epic \in stranded'

\* A row keeps its host; it becomes active again only on record.
EpicsTurn ==
    \A e \in Epics :
        \/ epics'[e] = epics[e]
        \/ /\ epics[e].state # "none" /\ epics'[e].state \notin {"none", "launching"}
           /\ epics'[e].host = epics[e].host
           /\ Active(e)' => Active(e) \/ e \in revived'

PanesTurn == \A h \in Hosts, e \in Epics : tmux'[h][e] # "none" => tmux[h][e] # "none"

HistoryGrows ==
    reached \subseteq reached' /\ revived \subseteq revived' /\ stranded \subseteq stranded'

Kept == file' = file /\ used.starts <= used'.starts /\ HistoryGrows

LEMMA QuietHosts ==
    ASSUME EpicInv, Kept, StartsTurn, EpicsTurn, PanesTurn, TypeOK'
    PROVE  HostsSound'
<1>1. used.starts \in Nat /\ used'.starts \in Nat
  BY Types, TypesNext DEF EpicInv, TypeOK
<1>2. \A p \in Procs : p \in Nat
  BY DEF Procs
<1>3. \A p \in Procs : start'[p].step # "idle" =>
          /\ p <= used'.starts
          /\ start'[p].epic \in Epics /\ start'[p].host = file'[start'[p].epic].host
  BY <1>1, <1>2 DEF EpicInv, HostsSound, StartsTurn, Kept
<1>4. \A e \in Epics, h \in Hosts : tmux'[h][e] # "none" => h = file'[e].host
  BY DEF EpicInv, HostsSound, PanesTurn, Kept
<1>5. \A e \in Epics : epics'[e].state = "none" => epics'[e] = NoEpic
  BY DEF EpicInv, HostsSound, EpicsTurn
<1> QED
  BY <1>3, <1>4, <1>5 DEF HostsSound

LEMMA QuietOwners ==
    ASSUME EpicInv, Kept, StartsTurn, EpicsTurn
    PROVE  OwnersSound'
<1>1. \A p \in Procs, e \in Epics : Owns(p, e)' => Owns(p, e)
  BY DEF StartsTurn, Owns, Owning
<1>2. \A p \in Procs, e \in Epics : Owns(p, e) => Owns(p, e)' \/ e \in stranded'
  BY DEF StartsTurn, Owns, Owning
<1>3. \A e \in Epics : epics'[e].state = "none" <=> epics[e].state = "none"
  BY DEF EpicsTurn
<1>4. \A e \in Epics : epics'[e].state = "launching" => epics[e].state = "launching"
  BY DEF EpicsTurn
<1>5. \A e \in stranded : e \in stranded'
  BY DEF Kept, HistoryGrows
<1>6. \A p \in Procs, e \in Epics : Owns(p, e)' => epics'[e].state # "none"
  BY <1>1, <1>3 DEF EpicInv, OwnersSound
<1>7. \A p, q \in Procs, e \in Epics : Owns(p, e)' /\ Owns(q, e)' => p = q
  BY <1>1 DEF EpicInv, OwnersSound
<1>8. ASSUME NEW e \in Epics, epics'[e].state = "launching", e \notin stranded'
      PROVE  \E p \in Procs : Owns(p, e)'
  <2>1. PICK p \in Procs : Owns(p, e)
    BY <1>4, <1>5, <1>8 DEF EpicInv, OwnersSound
  <2> QED
    BY <1>2, <1>8, <2>1
<1> QED
  BY <1>6, <1>7, <1>8 DEF OwnersSound

LEMMA QuietAgents ==
    ASSUME EpicInv, Kept, StartsTurn, EpicsTurn, PanesTurn
    PROVE  AgentsSound'
<1> SUFFICES ASSUME NEW e \in Epics, NEW h \in Hosts, tmux'[h][e] # "none",
                    epics'[e].state = "none", e \notin stranded'
             PROVE  \E p \in Procs : At(p, "kill")' /\ start'[p].epic = e
  BY DEF AgentsSound
<1>1. tmux[h][e] # "none" /\ epics[e].state = "none" /\ e \notin stranded
  BY DEF PanesTurn, EpicsTurn, Kept, HistoryGrows
<1>2. PICK p \in Procs : At(p, "kill") /\ start[p].epic = e
  BY <1>1 DEF EpicInv, AgentsSound
<1>3. At(p, "kill")' /\ start'[p].epic = e
  BY <1>2 DEF StartsTurn, At
<1> QED
  BY <1>3

LEMMA QuietBookings ==
    ASSUME EpicInv, Kept, EpicsTurn
    PROVE  BookedOnce'
<1> SUFFICES ASSUME NEW a \in Epics, NEW b \in Epics, a # b, Active(a)', Active(b)',
                    epics'[a].host = epics'[b].host \/ ScopeOverlap(a, b)',
                    {a, b} \cap revived' = {}
             PROVE  FALSE
  BY DEF BookedOnce
<1>1. \A e \in {a, b} : Active(e) /\ epics'[e].host = epics[e].host
  BY DEF EpicsTurn, Active
<1>2. ScopeOverlap(a, b)' => ScopeOverlap(a, b)
  BY DEF ScopeOverlap, Kept
<1>3. {a, b} \cap revived = {}
  BY DEF Kept, HistoryGrows
<1> QED
  BY <1>1, <1>2, <1>3 DEF EpicInv, BookedOnce
-----------------------------------------------------------------------------
(* Steps that report nothing new. *)

ReportsTurn ==
    /\ ingest'.raw = "done" => ingest' = ingest
    /\ \A e \in Epics : branch[e] = "done" => branch'[e] = "done"
    /\ \A e \in Epics : session'[e].achieved => session[e].achieved \/ e \in reached'
    /\ \A e \in Epics : session'[e].enabled =>
          session'[e].host \in Hosts \/ (session[e].enabled /\ session'[e].host = session[e].host)
    /\ \A h \in Hosts, e \in Epics :
          tmux'[h][e] = "achieved" => tmux[h][e] = "achieved" \/ e \in reached'
    /\ \A e \in Epics : epics'[e].state \in {"done", "achieved"} => epics'[e] = epics[e]

LEMMA QuietReports ==
    ASSUME EpicInv, HistoryGrows, ReportsTurn
    PROVE  ReportsSound' /\ DoneMeansDone'
<1>1. ReportsSound'
  BY DEF EpicInv, ReportsSound, HistoryGrows, ReportsTurn
<1>2. DoneMeansDone'
  BY DEF EpicInv, DoneMeansDone, HistoryGrows, ReportsTurn
<1> QED
  BY <1>1, <1>2

LEMMA QuietStep ==
    ASSUME EpicInv, TypeOK', Kept, StartsTurn, EpicsTurn, PanesTurn, ReportsTurn
    PROVE  EpicInv'
BY QuietHosts, QuietOwners, QuietAgents, QuietBookings, QuietReports DEF EpicInv, Kept

\* A step that touches neither a row nor a session nor what was reported.
LEMMA StartStepKeeps ==
    ASSUME EpicInv, StartsTurn, start' \in [Procs -> StartRow], tree' \in Trees,
           used' \in Counts, used.starts <= used'.starts,
           stranded \subseteq stranded', stranded' \subseteq Epics,
           UNCHANGED <<file, epics, session, ingest, tmux, branch, reached, revived>>
    PROVE  EpicInv'
<1>1. TypeOK'
  BY Types, TypesNext DEF EpicInv
<1>2. Kept /\ EpicsTurn /\ PanesTurn /\ ReportsTurn
  BY DEF Kept, HistoryGrows, EpicsTurn, PanesTurn, ReportsTurn
<1> QED
  BY <1>1, <1>2, QuietStep
-----------------------------------------------------------------------------
(* epic start. *)

LEMMA RunKeeps ==
    ASSUME EpicInv, NEW p \in Procs, NEW e \in Epics, RunEpicStart(p, e)
    PROVE  EpicInv'
<1> DEFINE s == [step |-> "preflight", epic |-> e, host |-> file[e].host]
<1>1. TypeOK /\ file[e].host \in Hosts /\ used \in Counts /\ start \in [Procs -> StartRow]
  BY DeclaredHost, Types DEF EpicInv
<1>2. s \in StartRow /\ s.step = "preflight" /\ s.epic = e /\ s.host = file[e].host
  BY <1>1 DEF StartRow, Steps
<1>3. /\ p = used.starts + 1 /\ start' = [start EXCEPT ![p] = s]
      /\ used' = [used EXCEPT !.starts = @ + 1]
      /\ UNCHANGED <<file, epics, session, ingest, world, revived, stranded>>
  BY DEF RunEpicStart
<1> HIDE DEF s
<1>4. used' \in Counts /\ used.starts \in Nat /\ used'.starts = p
  BY <1>1, <1>3, EpicLaneAssumption DEF Counts, Procs
<1>5. start[p].step = "idle"
  BY <1>3, <1>4 DEF EpicInv, HostsSound
<1>6. start' \in [Procs -> StartRow] /\ StartsTurn
  BY <1>1, <1>2, <1>3, <1>4, <1>5 DEF StartsTurn, Procs
<1>7. stranded' \subseteq Epics /\ tree' \in Trees
  BY <1>1, <1>3, Types DEF world
<1> QED
  BY <1>3, <1>4, <1>6, <1>7, StartStepKeeps DEF world

LEMMA CountsStay ==
    ASSUME EpicInv, UNCHANGED used
    PROVE  used' \in Counts /\ used.starts \in Nat /\ used.starts <= used'.starts
BY Types DEF EpicInv, Counts

LEMMA PreflightKeeps ==
    ASSUME EpicInv, NEW p \in Procs, Preflight(p)
    PROVE  EpicInv'
<1>1. TypeOK /\ start[p].step = "preflight" /\ file[start[p].epic].host = start[p].host
      /\ start[p].epic \in Epics
  BY DEF EpicInv, Preflight, At, HostsSound
<1>2. (Goes(p, "register") \/ Ends(p))
      /\ UNCHANGED <<file, epics, session, ingest, tmux, branch, used, reached, revived,
                     stranded>>
  BY DEF Preflight
<1>3. start' \in [Procs -> StartRow] /\ StartsTurn
  <2>1. CASE Goes(p, "register")
    BY <1>1, <2>1, GoesOn DEF StartsTurn, Steps, Owning
  <2>2. CASE Ends(p)
    BY <1>1, <2>2, GoesIdle DEF StartsTurn, Owning
  <2> QED
    BY <1>2, <2>1, <2>2
<1>4. tree' \in Trees /\ stranded' \subseteq Epics
  <2>1. tree \in Trees
    BY <1>1, Types
  <2>2. tree' = [tree EXCEPT ![start[p].host] = "clean"] \/ tree' = tree
    BY DEF Preflight, Refreshes, CheckoutClashes
  <2> QED
    BY <1>1, <1>2, <2>1, <2>2, Types DEF Trees
<1> QED
  BY <1>2, <1>3, <1>4, CountsStay, StartStepKeeps

\* The booking: the one step that makes a row active without having been so.
LEMMA AddKeeps ==
    ASSUME EpicInv, NEW p \in Procs, AddEpicRun(p)
    PROVE  EpicInv'
<1>0. /\ TypeOK /\ start[p].step = "register" /\ start[p].epic \in Epics
      /\ start[p].host = file[start[p].epic].host /\ epics \in [Epics -> EpicRow]
  BY Types DEF EpicInv, AddEpicRun, At, HostsSound
<1> PICK e \in Epics, h \in Hosts : e = start[p].epic /\ h = start[p].host
  BY <1>0, DeclaredHost
<1> DEFINE r == [state |-> "launching", host |-> h]
<1>1. /\ TypeOK /\ start[p].step = "register" /\ e \in Epics /\ h = file[e].host
      /\ h \in Hosts /\ epics \in [Epics -> EpicRow]
  BY <1>0
<1>2. UNCHANGED <<file, session, ingest, tmux, tree, branch, reached, used, revived, stranded>>
  BY DEF AddEpicRun, world
<1>3. used' \in Counts /\ used.starts \in Nat /\ used.starts <= used'.starts
         /\ tree' \in Trees /\ stranded' \subseteq Epics
  BY <1>1, <1>2, CountsStay, Types
<1>4. CASE Ends(p) /\ UNCHANGED epics
  <2>1. start' \in [Procs -> StartRow] /\ StartsTurn
    BY <1>1, <1>4, GoesIdle DEF StartsTurn, Owning
  <2> QED
    BY <1>2, <1>3, <1>4, <2>1, StartStepKeeps
<1>5. CASE /\ ~HostBusy(h) /\ ~ScopeTaken(e) /\ epics[e] = NoEpic
           /\ epics' = [epics EXCEPT ![e] = r] /\ Goes(p, "create")
  <2>1. r \in EpicRow /\ r.state = "launching" /\ r.host = h
    BY <1>1 DEF EpicRow, States, ActiveStates
  <2> HIDE DEF r
  <2>2. /\ epics' \in [Epics -> EpicRow] /\ epics'[e] = r
        /\ \A o \in Epics \ {e} : epics'[o] = epics[o]
    BY <1>1, <1>5, <2>1
  <2>3. /\ start' \in [Procs -> StartRow] /\ start'[p].step = "create"
        /\ start'[p].epic = e /\ start'[p].host = h
        /\ \A q \in Procs \ {p} : start'[q] = start[q]
    BY <1>1, <1>5, GoesOn DEF Steps
  <2>4. TypeOK'
    BY <1>1, <1>2, <1>3, <2>2, <2>3, Types, TypesNext
  <2>5. HostsSound'
    BY <1>1, <1>2, <2>1, <2>2, <2>3 DEF EpicInv, HostsSound
  <2>6. epics[e].state = "none" /\ \A q \in Procs : ~Owns(q, e)
    BY <1>1, <1>5 DEF EpicInv, OwnersSound, NoEpic
  <2>7. OwnersSound'
    <3>1. Owns(p, e)' /\ \A o \in Epics : Owns(p, o)' => o = e
      BY <2>3 DEF Owns, Owning
    <3>2. \A q \in Procs \ {p}, o \in Epics : Owns(q, o)' <=> Owns(q, o)
      BY <2>3 DEF Owns
    <3>3. \A o \in Epics : ~Owns(p, o)
      BY <1>1 DEF Owns, Owning
    <3> QED
      BY <1>1, <1>2, <2>1, <2>2, <2>6, <3>1, <3>2, <3>3 DEF EpicInv, OwnersSound
  <2>8. AgentsSound'
    <3>1. \A q \in Procs : At(q, "kill") => At(q, "kill")' /\ start'[q].epic = start[q].epic
      BY <1>1, <2>3 DEF At
    <3> QED
      BY <1>2, <2>1, <2>2, <3>1 DEF EpicInv, AgentsSound
  <2>9. BookedOnce'
    <3>1. Active(e)' /\ ~Active(e)
      BY <2>1, <2>2, <2>6 DEF Active, ActiveStates
    <3>2. \A o \in Epics \ {e} : Active(o)' <=> Active(o)
      BY <2>2 DEF Active
    <3>3. \A o \in Epics : Active(o) => epics[o].host # h /\ ~ScopeOverlap(e, o)
      BY <1>5 DEF HostBusy, ScopeTaken
    <3>4. \A a, b \in Epics : ScopeOverlap(a, b)' <=> ScopeOverlap(a, b)
      BY <1>2 DEF ScopeOverlap
    <3>5. \A a, b \in Epics : ScopeOverlap(a, b) <=> ScopeOverlap(b, a)
      BY DEF ScopeOverlap
    <3> QED
      BY <1>1, <1>2, <2>1, <2>2, <3>1, <3>2, <3>3, <3>4, <3>5 DEF EpicInv, BookedOnce
  <2>10. ReportsSound' /\ DoneMeansDone'
    <3>1. ReportsTurn /\ HistoryGrows
      BY <1>2, <2>1, <2>2 DEF ReportsTurn, HistoryGrows
    <3> QED
      BY <3>1, QuietReports
  <2> QED
    BY <2>4, <2>5, <2>7, <2>8, <2>9, <2>10 DEF EpicInv
<1> QED
  BY <1>4, <1>5 DEF AddEpicRun

\* A start with a row goes on with it.
LEMMA OwnerGoes ==
    ASSUME EpicInv, NEW p \in Procs, NEW z \in Owning, start[p].step \in Owning, Goes(p, z)
    PROVE  /\ StartsTurn /\ start' \in [Procs -> StartRow] /\ start'[p].step = z
           /\ start[p].epic \in Epics /\ start[p].host \in Hosts
           /\ start[p].host = file[start[p].epic].host
           /\ epics[start[p].epic].state # "none"
<1>1. TypeOK /\ z \in Steps /\ start[p].step # "idle" /\ z # "idle" /\ z # "kill"
         /\ start[p].step # "kill"
  BY DEF EpicInv, Owning, Steps
<1>2. start[p].epic \in Epics /\ start[p].host = file[start[p].epic].host
  BY <1>1 DEF EpicInv, HostsSound
<1>3. epics[start[p].epic].state # "none"
  BY <1>2 DEF EpicInv, OwnersSound, Owns
<1>4. start' \in [Procs -> StartRow] /\ StartsTurn /\ start'[p].step = z
  BY <1>1, GoesOn DEF StartsTurn
<1> QED
  BY <1>1, <1>2, <1>3, <1>4, DeclaredHost

\* An agent runs, or is going to, for an epic with a row.
LEMMA AgentSubmits ==
    ASSUME EpicInv, NEW h \in Hosts, NEW e \in Epics,
           Submits(h, e) \/ UNCHANGED <<tmux, tree>>
    PROVE  /\ tmux' \in Panes /\ tree' \in Trees /\ PanesTurn
           /\ \A g \in Hosts, o \in Epics :
                tmux'[g][o] = "achieved" => tmux[g][o] = "achieved"
<1>1. TypeOK /\ tmux \in Panes /\ tree \in Trees
  BY Types DEF EpicInv
<1>2. CASE UNCHANGED <<tmux, tree>>
  BY <1>1, <1>2 DEF PanesTurn
<1>3. CASE Submits(h, e)
  <2>1. /\ tmux' \in Panes /\ tmux'[h][e] = "busy" /\ tmux[h][e] = "prompt"
        /\ \A g \in Hosts, o \in Epics : g # h \/ o # e => tmux'[g][o] = tmux[g][o]
    BY <1>1, <1>3, PaneSet DEF Submits, Pane
  <2>2. tree' \in Trees
    BY <1>1, <1>3 DEF Submits, Trees
  <2> QED
    BY <2>1, <2>2 DEF PanesTurn
<1> QED
  BY <1>2, <1>3

\* A start makes its session, or fails to, and goes on.
LEMMA SessionMade ==
    ASSUME EpicInv, NEW p \in Procs, NEW z \in Owning, At(p, "create"), Goes(p, z),
           Creates(start[p].host, start[p].epic) \/ UNCHANGED tmux,
           used' \in Counts, used.starts <= used'.starts,
           UNCHANGED <<file, epics, session, ingest, tree, branch, reached, revived, stranded>>
    PROVE  EpicInv'
<1>0. TypeOK /\ start[p].step = "create" /\ start[p].epic \in Epics
         /\ start[p].host = file[start[p].epic].host
  BY DEF EpicInv, At, HostsSound
<1> PICK e \in Epics, h \in Hosts : e = start[p].epic /\ h = start[p].host
  BY <1>0, DeclaredHost
<1>2. /\ StartsTurn /\ start' \in [Procs -> StartRow] /\ h = file[e].host
      /\ epics[e].state # "none"
  BY <1>0, OwnerGoes DEF Owning
<1>3. /\ tmux' \in Panes
      /\ \A g \in Hosts, o \in Epics : tmux'[g][o] # tmux[g][o] =>
            g = h /\ o = e /\ tmux'[g][o] = "prompt"
  <2>1. tmux \in Panes
    BY <1>0, Types
  <2>2. tmux' = tmux \/ tmux' = [tmux EXCEPT ![h][e] = "prompt"]
    BY DEF Creates
  <2> QED
    BY <1>0, <2>1, <2>2, PaneSet DEF Pane
<1>4. TypeOK'
  BY <1>0, <1>2, <1>3, Types, TypesNext
<1>5. Kept /\ EpicsTurn /\ ReportsTurn
  BY <1>3 DEF Kept, HistoryGrows, EpicsTurn, ReportsTurn
<1>6. HostsSound'
  <2>1. used.starts \in Nat /\ used'.starts \in Nat /\ \A q \in Procs : q \in Nat
    BY <1>0, Types DEF Counts, Procs
  <2> QED
    BY <1>0, <1>2, <1>3, <2>1 DEF EpicInv, HostsSound, StartsTurn
<1>7. AgentsSound'
  <2>1. \A q \in Procs : At(q, "kill") => At(q, "kill")' /\ start'[q].epic = start[q].epic
    BY <1>0, GoesOn DEF At, Owning, Steps
  <2> QED
    BY <1>2, <1>3, <2>1 DEF EpicInv, AgentsSound
<1> QED
  BY <1>2, <1>4, <1>5, <1>6, <1>7, QuietOwners, QuietBookings, QuietReports
     DEF EpicInv, Kept

LEMMA CreateKeeps ==
    ASSUME EpicInv, NEW p \in Procs, NewTmuxSession(p)
    PROVE  EpicInv'
<1>1. /\ At(p, "create") /\ (Goes(p, "send") \/ Goes(p, "delete"))
      /\ Creates(start[p].host, start[p].epic) \/ UNCHANGED tmux
      /\ UNCHANGED <<file, epics, session, ingest, tree, branch, used, reached, revived, stranded>>
  BY DEF NewTmuxSession
<1> QED
  BY <1>1, SessionMade, CountsStay DEF Owning

LEMMA SendKeeps ==
    ASSUME EpicInv, NEW p \in Procs, SendGoal(p) \/ VerifyGoal(p)
    PROVE  EpicInv'
<1>0. TypeOK /\ start[p].step \in {"send", "verify"} /\ start[p].epic \in Epics
         /\ start[p].host = file[start[p].epic].host
  BY DEF EpicInv, SendGoal, VerifyGoal, At, HostsSound
<1>1. UNCHANGED <<file, epics, session, ingest, branch, used, reached, revived, stranded>>
         /\ \E z \in {"delete", "verify", "watch"} : Goes(p, z)
         /\ (Submits(start[p].host, start[p].epic) \/ UNCHANGED <<tmux, tree>>)
  BY DEF SendGoal, VerifyGoal
<1>2. StartsTurn /\ start' \in [Procs -> StartRow]
  BY <1>0, <1>1, OwnerGoes DEF Owning
<1>3. /\ tmux' \in Panes /\ tree' \in Trees /\ PanesTurn
      /\ \A g \in Hosts, o \in Epics :
                tmux'[g][o] = "achieved" => tmux[g][o] = "achieved"
  BY <1>0, <1>1, AgentSubmits, DeclaredHost
<1>4. TypeOK'
  BY <1>0, <1>1, <1>2, <1>3, Types, TypesNext
<1>5. Kept /\ EpicsTurn /\ ReportsTurn
  BY <1>1, <1>3, CountsStay DEF Kept, HistoryGrows, EpicsTurn, ReportsTurn
<1> QED
  BY <1>2, <1>3, <1>4, <1>5, QuietStep

LEMMA FailsKeeps ==
    ASSUME EpicInv, NEW p \in Procs, LaunchFails(p)
    PROVE  EpicInv'
<1>1. UNCHANGED <<file, epics, session, ingest, branch, reached, revived, stranded>>
         /\ Goes(p, "delete") /\ start[p].step \in Owning
  BY DEF LaunchFails, At, Owning
<1>2. StartsTurn /\ start' \in [Procs -> StartRow] /\ start[p].epic \in Epics
         /\ start[p].host \in Hosts
  BY <1>1, OwnerGoes DEF Owning
<1>3. used' \in Counts /\ used.starts <= used'.starts
  BY UpsetCounts DEF EpicInv, LaunchFails, Counts
<1>4. CASE UNCHANGED <<tmux, tree>> \/ Submits(start[p].host, start[p].epic)
  <2>1. /\ tmux' \in Panes /\ tree' \in Trees /\ PanesTurn
        /\ \A g \in Hosts, o \in Epics :
                  tmux'[g][o] = "achieved" => tmux[g][o] = "achieved"
    BY <1>2, <1>4, AgentSubmits
  <2>2. TypeOK'
    BY <1>1, <1>2, <1>3, <2>1, Types, TypesNext DEF EpicInv
  <2>3. Kept /\ EpicsTurn /\ ReportsTurn
    BY <1>1, <1>3, <2>1 DEF Kept, HistoryGrows, EpicsTurn, ReportsTurn
  <2> QED
    BY <1>2, <2>1, <2>2, <2>3, QuietStep
<1>5. CASE At(p, "create") /\ Creates(start[p].host, start[p].epic) /\ UNCHANGED tree
  BY <1>1, <1>3, <1>5, SessionMade DEF Owning
<1> QED
  BY <1>4, <1>5 DEF LaunchFails

\* The roll-back gives up the row, which is its own, and goes on to the kill.
LEMMA DeleteKeeps ==
    ASSUME EpicInv, NEW p \in Procs, DeleteEpicRun(p)
    PROVE  EpicInv'
<1>0. /\ TypeOK /\ start[p].step = "delete" /\ start[p].epic \in Epics
      /\ start[p].host = file[start[p].epic].host /\ epics \in [Epics -> EpicRow]
  BY Types DEF EpicInv, DeleteEpicRun, At, HostsSound
<1> PICK e \in Epics, h \in Hosts : e = start[p].epic /\ h = start[p].host
  BY <1>0, DeclaredHost
<1>1. UNCHANGED <<file, session, ingest, tmux, tree, branch, reached, used, revived, stranded>>
         /\ epics' = [epics EXCEPT ![e] = NoEpic] /\ Goes(p, "kill")
  BY DEF DeleteEpicRun, world
<1>2. /\ start' \in [Procs -> StartRow] /\ start'[p].step = "kill"
      /\ start'[p].epic = e /\ start'[p].host = h
      /\ \A q \in Procs \ {p} : start'[q] = start[q]
  BY <1>0, <1>1, GoesOn DEF Steps
<1>3. /\ epics' \in [Epics -> EpicRow] /\ epics'[e] = NoEpic /\ epics'[e].state = "none"
      /\ \A o \in Epics \ {e} : epics'[o] = epics[o]
  BY <1>0, <1>1 DEF NoEpic, EpicRow, States
<1>4. TypeOK'
  BY <1>0, <1>1, <1>2, <1>3, CountsStay, Types, TypesNext
<1>5. HostsSound'
  BY <1>0, <1>1, <1>2, <1>3 DEF EpicInv, HostsSound
<1>6. OwnersSound'
  <2>1. Owns(p, e) /\ \A o \in Epics : ~Owns(p, o)'
    BY <1>0, <1>2 DEF Owns, Owning
  <2>2. \A q \in Procs \ {p}, o \in Epics : Owns(q, o)' <=> Owns(q, o)
    BY <1>2 DEF Owns
  <2>3. \A q \in Procs \ {p} : ~Owns(q, e)
    BY <2>1 DEF EpicInv, OwnersSound
  <2>4. \A o \in Epics \ {e} : ~Owns(p, o)
    BY DEF Owns
  <2> QED
    BY <1>1, <1>3, <2>1, <2>2, <2>3, <2>4 DEF EpicInv, OwnersSound
<1>7. AgentsSound'
  <2>1. \A q \in Procs : At(q, "kill") => At(q, "kill")' /\ start'[q].epic = start[q].epic
    BY <1>0, <1>2 DEF At
  <2>2. At(p, "kill")' /\ start'[p].epic = e
    BY <1>2 DEF At
  <2> QED
    BY <1>1, <1>3, <2>1, <2>2 DEF EpicInv, AgentsSound
<1>8. BookedOnce'
  <2>1. ~Active(e)' /\ \A o \in Epics \ {e} : Active(o)' <=> Active(o)
    BY <1>3 DEF Active, ActiveStates
  <2>2. \A a, b \in Epics : ScopeOverlap(a, b)' <=> ScopeOverlap(a, b)
    BY <1>1 DEF ScopeOverlap
  <2> QED
    BY <1>1, <1>3, <2>1, <2>2 DEF EpicInv, BookedOnce
<1>9. ReportsSound' /\ DoneMeansDone'
  <2>1. ReportsTurn /\ HistoryGrows
    BY <1>1, <1>3 DEF ReportsTurn, HistoryGrows
  <2> QED
    BY <2>1, QuietReports
<1> QED
  BY <1>4, <1>5, <1>6, <1>7, <1>8, <1>9 DEF EpicInv

LEMMA KillKeeps ==
    ASSUME EpicInv, NEW p \in Procs, KillTmuxSession(p)
    PROVE  EpicInv'
<1>0. /\ TypeOK /\ start[p].step = "kill" /\ start[p].epic \in Epics
      /\ start[p].host = file[start[p].epic].host
  BY DEF EpicInv, KillTmuxSession, At, HostsSound
<1> PICK e \in Epics, h \in Hosts : e = start[p].epic /\ h = start[p].host
  BY <1>0, DeclaredHost
<1>1. UNCHANGED <<file, epics, session, ingest, tree, branch, used, reached, revived, stranded>>
         /\ tmux' = [tmux EXCEPT ![h][e] = "none"] /\ Ends(p)
  BY DEF KillTmuxSession
<1>2. /\ start' \in [Procs -> StartRow] /\ start'[p].step = "idle"
      /\ \A q \in Procs \ {p} : start'[q] = start[q]
  BY <1>0, <1>1, GoesIdle
<1>3. /\ tmux' \in Panes /\ tmux'[h][e] = "none"
      /\ \A g \in Hosts, o \in Epics : g # h \/ o # e => tmux'[g][o] = tmux[g][o]
  <2>1. TypeOK /\ tmux' = [tmux EXCEPT ![h][e] = "none"]
    BY <1>0, <1>1
  <2> QED
    BY <2>1, PaneCleared
<1>4. TypeOK'
  BY <1>0, <1>1, <1>2, <1>3, CountsStay, Types, TypesNext
<1>5. Kept /\ EpicsTurn /\ ReportsTurn
  BY <1>1, <1>3, CountsStay DEF Kept, HistoryGrows, EpicsTurn, ReportsTurn
<1>6. HostsSound'
  BY <1>1, <1>2, <1>3 DEF EpicInv, HostsSound
<1>7. OwnersSound'
  <2>1. \A q \in Procs, o \in Epics : Owns(q, o)' <=> Owns(q, o)
    BY <1>0, <1>2 DEF Owns, Owning
  <2> QED
    BY <1>1, <2>1 DEF EpicInv, OwnersSound
<1>8. AgentsSound'
  <2> SUFFICES ASSUME NEW o \in Epics, NEW g \in Hosts, tmux'[g][o] # "none",
                      epics'[o].state = "none", o \notin stranded'
               PROVE  \E q \in Procs : At(q, "kill")' /\ start'[q].epic = o
    BY DEF AgentsSound
  <2>1. tmux[g][o] # "none" /\ g = file[o].host
    BY <1>3 DEF EpicInv, HostsSound
  <2>2. o # e
    BY <1>0, <1>3, <2>1
  <2>3. PICK q \in Procs : At(q, "kill") /\ start[q].epic = o
    BY <1>1, <2>1 DEF EpicInv, AgentsSound
  <2>4. At(q, "kill")' /\ start'[q].epic = o
    BY <1>2, <2>2, <2>3 DEF At
  <2> QED
    BY <2>4
<1> QED
  BY <1>4, <1>5, <1>6, <1>7, <1>8, QuietBookings, QuietReports DEF EpicInv, Kept

\* A start that ends on record leaves what it leaves.
LEMMA CutShort ==
    ASSUME EpicInv, NEW p \in Procs, Ends(p), start[p].step # "idle",
           stranded' = stranded \cup {start[p].epic}
    PROVE  /\ StartsTurn /\ start' \in [Procs -> StartRow]
           /\ stranded \subseteq stranded' /\ stranded' \subseteq Epics
<1>1. start[p].epic \in Epics /\ TypeOK
  BY DEF EpicInv, HostsSound
<1>2. start' \in [Procs -> StartRow] /\ StartsTurn
  BY <1>1, GoesIdle DEF StartsTurn
<1> QED
  BY <1>1, <1>2, Types

LEMMA CutShortKeeps ==
    ASSUME EpicInv, NEW p \in Procs, KillFails(p) \/ Interrupted(p)
    PROVE  EpicInv'
<1>1. /\ Ends(p) /\ start[p].step # "idle" /\ stranded' = stranded \cup {start[p].epic}
      /\ UNCHANGED <<file, epics, session, ingest, world, revived>>
      /\ Upset \/ UNCHANGED used
  BY DEF KillFails, Interrupted, At
<1>2. /\ StartsTurn /\ start' \in [Procs -> StartRow]
      /\ stranded \subseteq stranded' /\ stranded' \subseteq Epics
  BY <1>1, CutShort
<1>3. used' \in Counts /\ used.starts <= used'.starts /\ tree' \in Trees
  BY <1>1, UpsetCounts, CountsStay, Types DEF EpicInv, Counts, world
<1> QED
  BY <1>1, <1>2, <1>3, StartStepKeeps DEF world

LEMMA WatchKeeps ==
    ASSUME EpicInv, NEW p \in Procs, AddGoalSession(p)
    PROVE  EpicInv'
<1> DEFINE e == start[p].epic
           s == [host |-> start[p].host, achieved |-> FALSE, enabled |-> TRUE]
<1>1. UNCHANGED <<file, epics, ingest, world, used, revived, stranded>> /\ Goes(p, "mark")
         /\ start[p].step \in Owning
  BY DEF AddGoalSession, At, Owning
<1>2. /\ StartsTurn /\ start' \in [Procs -> StartRow]
      /\ e \in Epics /\ start[p].host \in Hosts
  BY <1>1, OwnerGoes DEF Owning
<1>3. s \in SessionRow /\ ~s.achieved /\ s.host \in Hosts
  BY <1>2 DEF SessionRow
<1>4. session' = session \/ session' = [session EXCEPT ![e] = s]
  BY DEF AddGoalSession
<1> HIDE DEF e, s
<1>5. /\ session' \in [Epics -> SessionRow]
      /\ \A o \in Epics : session'[o].achieved => session[o].achieved
      /\ \A o \in Epics : session'[o] = session[o] \/ session'[o].host \in Hosts
  BY <1>2, <1>3, <1>4, Types DEF EpicInv
<1>6. TypeOK'
  BY <1>1, <1>2, <1>5, Types, TypesNext DEF EpicInv, world
<1>7. Kept /\ EpicsTurn /\ PanesTurn /\ ReportsTurn
  BY <1>1, <1>5, CountsStay DEF Kept, HistoryGrows, EpicsTurn, PanesTurn, ReportsTurn, world
<1> QED
  BY <1>2, <1>6, <1>7, QuietStep

\* A row with another state, on the record if that makes it active again.
LEMMA RowTurns ==
    ASSUME EpicInv, NEW e \in Epics, NEW z \in States \ {"none", "launching"},
           epics[e].state # "none", epics' = [epics EXCEPT ![e].state = z],
           Revives(e, z)
    PROVE  /\ EpicsTurn /\ epics' \in [Epics -> EpicRow] /\ epics'[e].state = z
           /\ \A o \in Epics \ {e} : epics'[o] = epics[o]
           /\ revived \subseteq revived' /\ revived' \subseteq Epics
<1>1. /\ epics' \in [Epics -> EpicRow] /\ epics'[e].state = z
      /\ epics'[e].host = epics[e].host /\ \A o \in Epics \ {e} : epics'[o] = epics[o]
  BY RowSet DEF EpicInv
<1>2. /\ revived \subseteq revived' /\ revived' \subseteq Epics
      /\ Active(e)' => Active(e) \/ e \in revived'
  BY <1>1, Types DEF EpicInv, Revives, Active
<1>3. EpicsTurn
  BY <1>1, <1>2 DEF EpicsTurn
<1> QED
  BY <1>1, <1>2, <1>3

\* The last step of a start: the row is no longer launching when its owner is gone.
LEMMA MarkKeeps ==
    ASSUME EpicInv, NEW p \in Procs, MarkEpicLaunched(p)
    PROVE  EpicInv'
<1>0. /\ TypeOK /\ start[p].step = "mark" /\ start[p].epic \in Epics
      /\ epics[start[p].epic].state # "none"
  BY DEF EpicInv, MarkEpicLaunched, At, HostsSound, OwnersSound, Owns, Owning
<1> PICK e \in Epics : e = start[p].epic
  BY <1>0
<1>1. UNCHANGED <<file, session, ingest, tmux, tree, branch, reached, used, stranded>>
         /\ epics' = [epics EXCEPT ![e].state = "running"] /\ Ends(p)
         /\ Revives(e, "running")
  BY <1>0 DEF MarkEpicLaunched, world, NoEpic
<1>2. /\ start' \in [Procs -> StartRow] /\ start'[p].step = "idle"
      /\ \A q \in Procs \ {p} : start'[q] = start[q]
  BY <1>0, <1>1, GoesIdle
<1>3. "running" \in States \ {"none", "launching"}
  BY DEF States, ActiveStates
<1>4. /\ EpicsTurn /\ epics' \in [Epics -> EpicRow] /\ epics'[e].state = "running"
      /\ \A o \in Epics \ {e} : epics'[o] = epics[o]
      /\ revived \subseteq revived' /\ revived' \subseteq Epics
  BY <1>0, <1>1, <1>3, RowTurns
<1>5. TypeOK'
  BY <1>0, <1>1, <1>2, <1>4, CountsStay, Types, TypesNext
<1>6. Kept /\ ReportsTurn
  BY <1>1, <1>4, CountsStay DEF Kept, HistoryGrows, ReportsTurn
<1>7. HostsSound'
  BY <1>1, <1>2, <1>4 DEF EpicInv, HostsSound, EpicsTurn
<1>8. OwnersSound'
  <2>1. \A o \in Epics : ~Owns(p, o)'
    BY <1>2 DEF Owns, Owning
  <2>2. \A q \in Procs \ {p}, o \in Epics : Owns(q, o)' <=> Owns(q, o)
    BY <1>2 DEF Owns
  <2>3. \A o \in Epics \ {e} : ~Owns(p, o)
    BY DEF Owns
  <2> QED
    BY <1>1, <1>4, <2>1, <2>2, <2>3 DEF EpicInv, OwnersSound
<1>9. AgentsSound'
  <2>1. \A q \in Procs : At(q, "kill") => At(q, "kill")' /\ start'[q].epic = start[q].epic
    BY <1>0, <1>2 DEF At
  <2> QED
    BY <1>1, <1>4, <2>1 DEF EpicInv, AgentsSound
<1> QED
  BY <1>4, <1>5, <1>6, <1>7, <1>8, <1>9, QuietBookings, QuietReports DEF EpicInv, Kept
-----------------------------------------------------------------------------
(* The operator, the agents, the watchdog and ingestion. *)

\* A step that is no start's.
LEMMA OtherStepKeeps ==
    ASSUME EpicInv, TypeOK', UNCHANGED <<file, start>>, used.starts <= used'.starts,
           HistoryGrows, EpicsTurn, PanesTurn, ReportsTurn
    PROVE  EpicInv'
BY QuietStep DEF Kept, StartsTurn

LEMMA OperatorKeeps ==
    ASSUME EpicInv, NEW e \in Epics, AbandonEpicRun(e) \/ RemoveGoalSession(e)
    PROVE  EpicInv'
<1>1. /\ UNCHANGED <<file, start, ingest, tmux, tree, branch, reached, revived, stranded>>
      /\ Upset
  BY DEF AbandonEpicRun, RemoveGoalSession, world
<1>2. TypeOK /\ used' \in Counts /\ used.starts <= used'.starts
  BY <1>1, UpsetCounts, Types DEF EpicInv, Counts
<1>3. /\ session' \in [Epics -> SessionRow]
      /\ \A o \in Epics : session'[o].achieved => session[o].achieved
      /\ \A o \in Epics : session'[o].enabled => session'[o] = session[o]
  <2>1. NoSession \in SessionRow /\ ~NoSession.achieved /\ ~NoSession.enabled
    BY DEF NoSession, SessionRow
  <2>2. session \in [Epics -> SessionRow]
    BY <1>2, Types
  <2>3. CASE RemoveGoalSession(e)
    BY <2>1, <2>2, <2>3 DEF RemoveGoalSession
  <2>4. CASE AbandonEpicRun(e)
    BY <2>2, <2>4 DEF AbandonEpicRun, SessionRow
  <2> QED
    BY <2>3, <2>4
<1>4. epics' \in [Epics -> EpicRow] /\ EpicsTurn
      /\ \A o \in Epics : epics'[o].state \in {"done", "achieved"} => epics'[o] = epics[o]
  <2>1. CASE epics' = epics
    BY <1>2, <2>1, Types DEF EpicsTurn
  <2>2. CASE AbandonEpicRun(e)
    <3>1. "abandoned" \in States /\ epics[e].state # "none"
             /\ epics' = [epics EXCEPT ![e].state = "abandoned"]
      BY <2>2 DEF AbandonEpicRun, States, EpicInv, HostsSound
    <3>2. /\ epics' \in [Epics -> EpicRow] /\ epics'[e].state = "abandoned"
          /\ epics'[e].host = epics[e].host /\ \A o \in Epics \ {e} : epics'[o] = epics[o]
      BY <1>2, <3>1, RowSet
    <3> QED
      BY <3>1, <3>2 DEF EpicsTurn, Active, ActiveStates
  <2> QED
    BY <2>1, <2>2 DEF RemoveGoalSession
<1>5. TypeOK'
  BY <1>1, <1>2, <1>3, <1>4, Types, TypesNext
<1>6. HistoryGrows /\ PanesTurn /\ ReportsTurn
  BY <1>1, <1>3, <1>4 DEF HistoryGrows, PanesTurn, ReportsTurn
<1> QED
  BY <1>1, <1>2, <1>4, <1>5, <1>6, OtherStepKeeps

LEMMA KillByHandKeeps ==
    ASSUME EpicInv, NEW h \in Hosts, NEW e \in Epics, KillByHand(h, e)
    PROVE  EpicInv'
<1>1. /\ UNCHANGED <<file, epics, session, start, ingest, tree, branch, reached, revived,
                     stranded>>
      /\ Upset
  BY DEF KillByHand
<1>0. tmux' = [tmux EXCEPT ![h][e] = "none"]
  BY DEF KillByHand
<1>2. TypeOK /\ used' \in Counts /\ used.starts <= used'.starts
  BY <1>1, UpsetCounts, Types DEF EpicInv, Counts
<1>3. /\ tmux' \in Panes /\ tmux'[h][e] = "none"
      /\ \A g \in Hosts, o \in Epics : g # h \/ o # e => tmux'[g][o] = tmux[g][o]
  BY <1>0, <1>2, PaneCleared
<1>4. TypeOK'
  BY <1>1, <1>2, <1>3, Types, TypesNext
<1>5. HistoryGrows /\ EpicsTurn /\ PanesTurn /\ ReportsTurn
  BY <1>1, <1>3 DEF HistoryGrows, EpicsTurn, PanesTurn, ReportsTurn
<1> QED
  BY <1>1, <1>2, <1>4, <1>5, OtherStepKeeps

LEMMA PushKeeps ==
    ASSUME EpicInv, NEW h \in Hosts, NEW e \in Epics, Pushes(h, e)
    PROVE  EpicInv'
<1>1. UNCHANGED <<file, epics, session, start, ingest, tmux, tree, used, reached, revived,
                  stranded>> /\ branch[e] # "done"
  BY DEF Pushes
<1>2. PICK word \in Words : branch' = [branch EXCEPT ![e] = word]
  BY DEF Pushes
<1>3. TypeOK /\ branch' \in [Epics -> Words \cup {"none"}]
         /\ \A o \in Epics : branch[o] = "done" => branch'[o] = "done"
  BY <1>1, <1>2, Types DEF EpicInv
<1>4. TypeOK'
  BY <1>1, <1>3, CountsStay, Types, TypesNext
<1>5. HistoryGrows /\ EpicsTurn /\ PanesTurn /\ ReportsTurn
  BY <1>1, <1>3 DEF HistoryGrows, EpicsTurn, PanesTurn, ReportsTurn
<1> QED
  BY <1>1, <1>4, <1>5, CountsStay, OtherStepKeeps

LEMMA AchieveKeeps ==
    ASSUME EpicInv, NEW h \in Hosts, NEW e \in Epics, Achieves(h, e)
    PROVE  EpicInv'
<1>1. /\ UNCHANGED <<file, epics, session, start, ingest, tree, branch, used, revived,
                     stranded>>
      /\ tmux[h][e] = "busy" /\ tmux' = [tmux EXCEPT ![h][e] = "achieved"]
      /\ "achieved" \in Pane /\ reached' = reached \cup {e}
  BY DEF Achieves, Pane
<1>2. TypeOK
  BY DEF EpicInv
<1>3. /\ tmux' \in Panes /\ tmux'[h][e] = "achieved"
      /\ \A g \in Hosts, o \in Epics : g # h \/ o # e => tmux'[g][o] = tmux[g][o]
  BY <1>1, <1>2, PaneSet
<1>4. TypeOK'
  BY <1>1, <1>2, <1>3, CountsStay, Types, TypesNext
<1>5. HistoryGrows /\ EpicsTurn /\ PanesTurn /\ ReportsTurn
  BY <1>1, <1>3 DEF HistoryGrows, EpicsTurn, PanesTurn, ReportsTurn
<1> QED
  BY <1>1, <1>4, <1>5, CountsStay, OtherStepKeeps

\* The watchdog has seen what the agent achieved.
LEMMA ObservationKeeps ==
    ASSUME EpicInv, NEW e \in Epics, UpsertObservation(e)
    PROVE  EpicInv'
<1>1. UNCHANGED <<file, epics, start, ingest, tmux, tree, branch, reached, used, revived,
                  stranded>> /\ session' = [session EXCEPT ![e].achieved = TRUE]
  BY DEF UpsertObservation, world
<1>2. TypeOK /\ session \in [Epics -> SessionRow]
  BY Types DEF EpicInv
<1>3. e \in reached
  BY DEF UpsertObservation, EpicInv, ReportsSound
<1>4. /\ session' \in [Epics -> SessionRow]
      /\ \A o \in Epics : session'[o].achieved => session[o].achieved \/ o \in reached'
      /\ \A o \in Epics : session'[o].enabled => session[o].enabled
                                                 /\ session'[o].host = session[o].host
  BY <1>1, <1>2, <1>3 DEF SessionRow
<1>5. TypeOK'
  BY <1>1, <1>2, <1>4, CountsStay, Types, TypesNext
<1>6. HistoryGrows /\ EpicsTurn /\ PanesTurn /\ ReportsTurn
  BY <1>1, <1>4 DEF HistoryGrows, EpicsTurn, PanesTurn, ReportsTurn
<1> QED
  BY <1>1, <1>5, <1>6, CountsStay, OtherStepKeeps

\* Ingestion lists, reads, or is restarted: what it has read is what is on the branch.
LEMMA IngestKeeps ==
    ASSUME EpicInv, ListActiveEpicRuns \/ RestartServe \/ \E e \in Epics : ReadStatus(e)
    PROVE  EpicInv'
<1>1. /\ UNCHANGED <<file, epics, session, start, tmux, tree, branch, reached, revived,
                     stranded>>
      /\ Upset \/ UNCHANGED used
  BY DEF ListActiveEpicRuns, RestartServe, ReadStatus, world
<1>2. TypeOK /\ used' \in Counts /\ used.starts <= used'.starts
  BY <1>1, UpsetCounts, CountsStay, Types DEF EpicInv, Counts
<1>3. /\ ingest' \in Ingestion
      /\ ingest'.raw = "done" => ingest'.on \in Epics /\ branch'[ingest'.on] = "done"
  <2>1. ingest \in Ingestion /\ branch \in [Epics -> Words \cup {"none"}]
    BY <1>2, Types
  <2>2. NoIngest \in Ingestion /\ NoIngest.raw = "none"
    BY DEF NoIngest, Ingestion
  <2>3. CASE RestartServe
    BY <2>2, <2>3 DEF RestartServe
  <2>4. CASE ListActiveEpicRuns
    <3>1. ingest' = [NoIngest EXCEPT !.todo = {e \in Epics : Active(e)}]
      BY <2>4 DEF ListActiveEpicRuns
    <3> QED
      BY <2>2, <3>1 DEF Ingestion
  <2>5. ASSUME NEW e \in Epics, ReadStatus(e)
        PROVE  /\ ingest' \in Ingestion
               /\ ingest'.raw = "done" => ingest'.on \in Epics /\ branch'[ingest'.on] = "done"
    <3>1. ingest' = [todo |-> ingest.todo \ {e}, raw |-> branch[e],
                     on |-> IF branch[e] = "none" THEN Nothing ELSE e]
      BY <2>5 DEF ReadStatus
    <3> QED
      BY <1>1, <2>1, <3>1 DEF Ingestion
  <2> QED
    BY <2>3, <2>4, <2>5
<1>4. TypeOK'
  BY <1>1, <1>2, <1>3, Types, TypesNext
<1>5. Kept /\ StartsTurn /\ EpicsTurn /\ PanesTurn
  BY <1>1, <1>2 DEF Kept, HistoryGrows, StartsTurn, EpicsTurn, PanesTurn
<1>6. ReportsSound' /\ DoneMeansDone'
  BY <1>1, <1>3 DEF EpicInv, ReportsSound, DoneMeansDone
<1> QED
  BY <1>4, <1>5, <1>6, QuietHosts, QuietOwners, QuietAgents, QuietBookings DEF EpicInv

LEMMA FoldedStates ==
    ASSUME TypeOK, NEW e \in Epics, NEW raw, epics[e].state # "none"
    PROVE  /\ Folded(e, raw) \in States \ {"none"}
           /\ Folded(e, raw) = "launching" => epics[e].state = "launching"
           /\ Folded(e, raw) = "done" => epics[e].state = "done" \/ raw = "done"
           /\ Folded(e, raw) = "achieved" => epics[e].state = "achieved" \/ session[e].achieved
<1>1. epics[e].state \in States
  BY Types DEF EpicRow
<1>2. NextEpicState(epics[e].state, raw) \in {"done", "blocked", "running", epics[e].state}
      /\ (NextEpicState(epics[e].state, raw) = "done" => epics[e].state = "done" \/ raw = "done")
  BY DEF NextEpicState
<1> QED
  BY <1>1, <1>2 DEF Folded, States, ActiveStates

\* The row takes the state that was reported, whatever it is by now.
LEMMA FoldKeeps ==
    ASSUME EpicInv, UpsertEpicStatus
    PROVE  EpicInv'
<1>1. /\ UNCHANGED <<file, session, start, tmux, tree, branch, reached, used, stranded>>
      /\ ingest.on # Nothing
      /\ ingest' = [ingest EXCEPT !.on = Nothing, !.raw = "none"]
  BY DEF UpsertEpicStatus, world
<1>2. TypeOK /\ ingest \in Ingestion /\ epics \in [Epics -> EpicRow]
  BY Types DEF EpicInv
<1>3. ingest' \in Ingestion /\ ingest'.raw = "none"
  BY <1>1, <1>2 DEF Ingestion
<1> PICK e \in Epics, raw \in Words \cup {"none"} : e = ingest.on /\ raw = ingest.raw
  BY <1>1, <1>2 DEF Ingestion
<1>4. /\ EpicsTurn /\ epics' \in [Epics -> EpicRow]
      /\ revived \subseteq revived' /\ revived' \subseteq Epics
      /\ \A o \in Epics : epics'[o] = epics[o] \/
            /\ o = e
            /\ epics'[o].state = "done" => epics[o].state = "done" \/ raw = "done"
            /\ epics'[o].state = "achieved" =>
                  epics[o].state = "achieved" \/ session[o].achieved
  <2>1. CASE epics[e] = NoEpic
    BY <1>2, <2>1, Types DEF UpsertEpicStatus, EpicsTurn
  <2>2. CASE epics[e] # NoEpic
    <3> DEFINE z == Folded(e, raw)
    <3>1. epics[e].state # "none"
      BY <2>2 DEF EpicInv, HostsSound
    <3>2. /\ z \in States \ {"none"} /\ (z = "launching" => epics[e].state = "launching")
          /\ z = "done" => epics[e].state = "done" \/ raw = "done"
          /\ z = "achieved" => epics[e].state = "achieved" \/ session[e].achieved
      BY <1>2, <3>1, FoldedStates
    <3>3. epics' = [epics EXCEPT ![e].state = z] /\ Revives(e, z)
      BY <2>2 DEF UpsertEpicStatus
    <3> HIDE DEF z
    <3>4. CASE z # "launching"
      BY <3>1, <3>2, <3>3, <3>4, RowTurns, ZenonT(60)
    <3>5. CASE z = "launching"
      <4>1. epics' = epics /\ revived' = revived
        BY <1>2, <3>2, <3>3, <3>5 DEF EpicRow, Revives, ActiveStates
      <4> QED
        BY <1>2, <4>1, Types DEF EpicsTurn
    <3> QED
      BY <3>4, <3>5
  <2> QED
    BY <2>1, <2>2
<1>5. TypeOK'
  BY <1>1, <1>2, <1>3, <1>4, CountsStay, Types, TypesNext
<1>6. Kept /\ StartsTurn /\ PanesTurn
  BY <1>1, <1>4, CountsStay DEF Kept, HistoryGrows, StartsTurn, PanesTurn
<1>7. ReportsSound' /\ DoneMeansDone'
  <2>1. raw = "done" => branch[e] = "done"
    BY DEF EpicInv, ReportsSound
  <2>2. ReportsSound'
    BY <1>1, <1>3 DEF EpicInv, ReportsSound
  <2>3. DoneMeansDone'
    BY <1>1, <1>4, <2>1 DEF EpicInv, ReportsSound, DoneMeansDone
  <2> QED
    BY <2>2, <2>3
<1> QED
  BY <1>4, <1>5, <1>6, <1>7, QuietHosts, QuietOwners, QuietAgents, QuietBookings DEF EpicInv

LEMMA StuttersKeep ==
    ASSUME EpicInv, UNCHANGED vars
    PROVE  EpicInv'
<1>1. TypeOK'
  BY Types, TypesNext DEF EpicInv, vars
<1>2. HistoryGrows /\ EpicsTurn /\ PanesTurn /\ ReportsTurn /\ UNCHANGED <<file, start>>
  BY DEF HistoryGrows, EpicsTurn, PanesTurn, ReportsTurn, vars
<1> QED
  BY <1>1, <1>2, CountsStay, OtherStepKeeps DEF vars
-----------------------------------------------------------------------------
LEMMA InitInv == Init => EpicInv
<1> SUFFICES ASSUME Init PROVE EpicInv
  OBVIOUS
<1>1. TypeOK
  <2>1. NoEpic \in EpicRow /\ NoSession \in SessionRow /\ NoStart \in StartRow
           /\ NoIngest \in Ingestion
    BY DEF NoEpic, EpicRow, States, NoSession, SessionRow, NoStart, StartRow, Steps,
       NoIngest, Ingestion
  <2>2. tmux \in Panes /\ tree \in Trees /\ branch \in [Epics -> Words \cup {"none"}]
    BY DEF Init, Panes, Pane, Trees
  <2>3. used \in Counts
    BY EpicLaneAssumption DEF Init, Counts
  <2>4. /\ epics \in [Epics -> EpicRow] /\ session \in [Epics -> SessionRow]
        /\ start \in [Procs -> StartRow] /\ ingest \in Ingestion /\ file \in Files
        /\ reached = {} /\ revived = {} /\ stranded = {}
    BY <2>1 DEF Init
  <2> QED
    BY <2>2, <2>3, <2>4, Types
<1>2. HostsSound
  BY DEF Init, HostsSound, NoStart
<1>3. OwnersSound /\ AgentsSound
  BY DEF Init, OwnersSound, AgentsSound, Owns, Owning, NoStart, NoEpic
<1>4. ReportsSound /\ DoneMeansDone /\ BookedOnce
  BY DEF Init, ReportsSound, DoneMeansDone, BookedOnce, NoIngest, NoSession, NoEpic, Active,
     ActiveStates
<1> QED
  BY <1>1, <1>2, <1>3, <1>4 DEF EpicInv

LEMMA NextInv == EpicInv /\ [Next]_vars => EpicInv'
<1> SUFFICES ASSUME EpicInv, [Next]_vars PROVE EpicInv'
  OBVIOUS
<1>1. ASSUME NEW p \in Procs, StartStep(p) \/ StartFault(p)
      PROVE  EpicInv'
  BY <1>1, PreflightKeeps, AddKeeps, CreateKeeps, SendKeeps, DeleteKeeps, KillKeeps,
     WatchKeeps, MarkKeeps, FailsKeeps, CutShortKeeps DEF StartStep, StartFault
<1>2. ASSUME NEW e \in Epics, Operator(e) \/ Agent(e) \/ UpsertObservation(e)
      PROVE  EpicInv'
  BY <1>2, OperatorKeeps, KillByHandKeeps, PushKeeps, AchieveKeeps, ObservationKeeps
     DEF Operator, Agent
<1>3. ASSUME ListActiveEpicRuns \/ IngestStep \/ RestartServe
      PROVE  EpicInv'
  BY <1>3, IngestKeeps, FoldKeeps DEF IngestStep
<1> QED
  BY <1>1, <1>2, <1>3, RunKeeps, StuttersKeep DEF Next

LEMMA Invariant == Spec => []EpicInv
BY InitInv, NextInv, PTL DEF Spec

\* The types of the epics and goal_sessions rows, of the starts under way and of what
\* is on the hosts.
THEOREM EpicTypes == Spec => []TypeOK
<1>1. EpicInv => TypeOK
  BY DEF EpicInv
<1> QED
  BY <1>1, Invariant, PTL

\* However many starts run at once, active epics share neither a host nor a scope,
\* unless one came back after it had been released: AddEpicRun checks in the
\* transaction that books.
THEOREM BookingsExclusive == Spec => []BookedOnce
<1>1. EpicInv => BookedOnce
  BY DEF EpicInv
<1> QED
  BY <1>1, Invariant, PTL

\* A launch that fails gives back its row and kills its agent, and one that goes
\* through is not left launching, unless it was cut short.
THEOREM LaunchesAreWhole == Spec => []LaunchIsWhole
<1>1. EpicInv => LaunchIsWhole
  BY DEF EpicInv, OwnersSound, AgentsSound, HostsSound, LaunchIsWhole, Starting, Owns, NoEpic
<1> QED
  BY <1>1, Invariant, PTL

\* A booking is given back as done only on the agent's word, as achieved only when the
\* goal was reached, however old the report is that ingestion folds.
THEOREM ReleasesAreEarned == Spec => []DoneMeansDone
<1>1. EpicInv => DoneMeansDone
  BY DEF EpicInv
<1> QED
  BY <1>1, Invariant, PTL
=============================================================================
