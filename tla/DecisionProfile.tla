--------------------------- MODULE DecisionProfile ---------------------------
(***************************************************************************)
(* The users of the decision store and the preference profile derived from *)
(* it: agents that present a decision to the user, record the answer and   *)
(* rebuild the profile (implementation_decision_tool.go), and the          *)
(* dashboard, whose requests revise decisions and rules and whose          *)
(* background thread rebuilds the profile (decision_dashboard_server.go).  *)
(* Each agent is a process of its own, the dashboard is one more.          *)
(***************************************************************************)
EXTENDS DecisionStore

CONSTANTS Agents, Requests,   \* the clients of the store
          Background,         \* the dashboard's rebuilding thread
          Deleted,            \* the text of a deleted decision; no answer is one
          Notes,              \* what the user says about a rule of the profile
          MaxProfile          \* bound on the revisions of the profile

ASSUME ProfileAssumption == /\ Clients = Agents \cup Requests
                            /\ Agents \cap Requests = {} /\ Background \notin Clients

VARIABLES profile,   \* the profile file; listed: the records its List read (source_hash is of the active ones)
          session,   \* of each agent: the pending decision in memory and in the saved session
          dash,      \* [dirty, run, req]: profileDirty, profileRebuildRun, profileRebuildReq
          work,      \* what each thread is doing
          scheduled  \* the revisions the dashboard has scheduled a rebuild for

profileVars == <<profile, session, dash, work, scheduled>>
vars == <<storeVars, profileVars>>

Threads == Clients \cup {Background}
Dashboard == Requests \cup {Background}
Unread == [rev |-> 0, text |-> None]
Nothing == [d \in Decisions |-> Unread]
Idle == [at |-> "idle", todo |-> {}, seen |-> Nothing, prev |-> [rev |-> 0, note |-> None],
         d |-> None, stable |-> TRUE, start |-> [d \in Decisions |-> 0], issues |-> {}]

ProfileInit == /\ profile = [rev |-> 0, listed |-> Nothing, note |-> None]
               /\ session = [a \in Agents |-> [pending |-> None, saved |-> None]]
               /\ dash = [dirty |-> FALSE, run |-> FALSE, req |-> FALSE]
               /\ work = [t \in Threads |-> Idle]
               /\ scheduled = [d \in Decisions |-> 0]

Init == StoreInit /\ ProfileInit

At(t, at) == work[t].at = at
Go(t, at) == work' = [work EXCEPT ![t].at = at]
Rest(t) == work' = [work EXCEPT ![t] = Idle]
StartOver(t, at) == work' = [work EXCEPT ![t] = [Idle EXCEPT !.at = at]]

-----------------------------------------------------------------------------
\* Rebuilding the profile: RebuildContext lists the records without their
\* locks, then reads the profile it replaces, under the lock of the profile.

HoldProfile == {"listing", "saving", "noting"}
ProfileUnlocked == \A t \in Threads : work[t].at \notin HoldProfile

\* Mutants of Lock: the lock is taken when the profile is written.
LockLater(t) == /\ At(t, "rebuild")
                /\ work' = [work EXCEPT ![t].at = "listing", ![t].todo = Decisions]
                /\ UNCHANGED <<storeVars, profile, session, dash, scheduled>>

Lock(t) == /\ At(t, "rebuild") /\ ProfileUnlocked
           /\ work' = [work EXCEPT ![t].at = "listing", ![t].todo = Decisions]
           /\ UNCHANGED <<storeVars, profile, session, dash, scheduled>>

\* ListWithIssues reads one record after the other.  A file that cannot be
\* read is an issue: a page goes on without it, a rebuild fails.
ListOne(t) == /\ At(t, "listing") \/ At(t, "booting")
              /\ \E d \in work[t].todo :
                   \/ work' = [work EXCEPT ![t].todo = @ \ {d}, ![t].seen[d] = record[d]]
                   \/ /\ At(t, "booting") /\ record[d].rev > 0
                      /\ work' = [work EXCEPT ![t].todo = @ \ {d}, ![t].issues = @ \cup {d}]
              /\ UNCHANGED <<storeVars, profile, session, dash, scheduled>>

ReadPrevious(t) == /\ At(t, "listing") /\ work[t].todo = {}
                   /\ work' = [work EXCEPT ![t].at = "saving",
                                           ![t].prev = [rev |-> profile.rev, note |-> profile.note]]
                   /\ UNCHANGED <<storeVars, profile, session, dash, scheduled>>

\* An agent's rebuild ends the tool call; the dashboard's is published.
Rebuilt(t, ok) == IF t \in Agents THEN Rest(t) ELSE StartOver(t, IF ok THEN "rebuilt" ELSE "failed")

Save(t) == /\ At(t, "saving") /\ work[t].prev.rev < MaxProfile
           /\ profile' = [rev |-> work[t].prev.rev + 1, listed |-> work[t].seen, note |-> work[t].prev.note]
           /\ Rebuilt(t, TRUE)
           /\ UNCHANGED <<storeVars, session, dash, scheduled>>

RebuildFails(t) == /\ work[t].at \in {"rebuild", "listing", "saving"}
                   /\ Rebuilt(t, FALSE)
                   /\ UNCHANGED <<storeVars, profile, session, dash, scheduled>>

-----------------------------------------------------------------------------
\* The tool present_implementation_decision.

Pending(a) == session[a].pending
Keep(a, d) == \E ok \in BOOLEAN :
  session' = [session EXCEPT ![a] = [pending |-> d, saved |-> IF ok THEN d ELSE @.saved]]

\* A decision that is recorded already is not asked again.
PresentRecorded(a, d) == /\ At(a, "idle") /\ Pending(a) \in {None, d}
                         /\ record[d].rev > 0
                         /\ IF Pending(a) = d THEN Keep(a, None) ELSE UNCHANGED session
                         /\ UNCHANGED <<storeVars, profile, dash, work, scheduled>>

\* The decision is pending from before the user is asked; the answer may be
\* a cancellation, or the session cannot be saved: it stays pending.
Present(a, d) == /\ At(a, "idle") /\ Pending(a) \in {None, d}
                 /\ record[d].rev = 0
                 /\ Keep(a, d)
                 /\ work' = [work EXCEPT ![a].at = IF session'[a].saved = d THEN "asking" ELSE "idle"]
                 /\ UNCHANGED <<storeVars, profile, dash, scheduled>>

NoAnswer(a) == /\ At(a, "asking")
               /\ Rest(a)
               /\ UNCHANGED <<storeVars, profile, session, dash, scheduled>>

\* The user has answered: Put, while another agent may have recorded the decision.
Answer(a, d, t) == /\ At(a, "asking") /\ Pending(a) = d /\ t # Deleted
                   /\ \/ BeginPut(a, d, t) /\ Go(a, "putting")
                      \/ PutExists(d, t) /\ Go(a, "stored") /\ UNCHANGED storeVars
                      \/ PutConflicts(d, t) /\ Rest(a) /\ UNCHANGED storeVars
                   /\ UNCHANGED <<profile, session, dash, scheduled>>

PutEnds(a) == /\ At(a, "putting")
              /\ \/ WriteNew(a) /\ Go(a, "stored")
                 \/ Abort(a) /\ Rest(a)
              /\ UNCHANGED <<profile, session, dash, scheduled>>

\* Mutants of Clear: the pending decision is cleared when the answer is there.
ClearAnswered(a) == /\ At(a, "stored") \/ At(a, "asking")
                    /\ Keep(a, None)
                    /\ work' = [work EXCEPT ![a].at = IF session'[a].saved = None THEN "rebuild" ELSE "idle"]
                    /\ UNCHANGED <<storeVars, profile, dash, scheduled>>

\* clearPending, then Rebuild; a session that cannot be saved ends the call.
Clear(a) == /\ At(a, "stored")
            /\ Keep(a, None)
            /\ work' = [work EXCEPT ![a].at = IF session'[a].saved = None THEN "rebuild" ELSE "idle"]
            /\ UNCHANGED <<storeVars, profile, dash, scheduled>>

\* The process ends and the session is resumed from its file.
AgentCrashes(a) == /\ Die({a})
                   /\ Rest(a)
                   /\ session' = [session EXCEPT ![a].pending = session[a].saved]
                   /\ UNCHANGED <<profile, dash, scheduled>>

-----------------------------------------------------------------------------
\* The dashboard's requests.

\* Revise, delete or restore a decision at the revision the page showed.
AskRevise(q, d, e, t) == /\ At(q, "idle")
                         /\ t = Deleted => record[d].text # Deleted
                         /\ BeginRevise(q, d, e, t)
                         /\ work' = [work EXCEPT ![q].at = "revising", ![q].d = d]
                         /\ UNCHANGED <<profile, session, dash, scheduled>>

ReviseStep(q) == /\ At(q, "revising")
                 /\ \/ Archive(q) /\ UNCHANGED work
                    \/ WriteRevision(q) /\ Go(q, "changed")
                    \/ Abort(q) /\ Rest(q)
                 /\ UNCHANGED <<profile, session, dash, scheduled>>

\* Whoever changes the status bumps its generation: no bootstrap under way
\* finds it stable.
Bump(w) == [t \in Threads |-> IF w[t].at \in {"booting", "loading", "loaded"} THEN [w[t] EXCEPT !.stable = FALSE] ELSE w[t]]

\* Mutants of Schedule: a rebuild that runs is taken to see the change.
ScheduleOnce(q) == /\ At(q, "changed")
                   /\ dash' = [dirty |-> TRUE, run |-> TRUE, req |-> FALSE]
                   /\ scheduled' = [scheduled EXCEPT ![work[q].d] = record[work[q].d].rev]
                   /\ work' = Bump([work EXCEPT ![q] = Idle, ![Background].at = IF dash.run THEN @ ELSE "waiting"])
                   /\ UNCHANGED <<storeVars, profile, session>>

\* scheduleProfileRebuild: one thread rebuilds; a change that comes while it
\* runs asks it to do so once more.
Schedule(q) == /\ At(q, "changed")
               /\ dash' = [dirty |-> TRUE, run |-> TRUE, req |-> dash.run]
               /\ scheduled' = [scheduled EXCEPT ![work[q].d] = record[work[q].d].rev]
               /\ work' = Bump([work EXCEPT ![q] = Idle, ![Background].at = IF dash.run THEN @ ELSE "waiting"])
               /\ UNCHANGED <<storeVars, profile, session>>

\* A rebuild of the dashboard is one at a time from before it locks the
\* profile until its result is published.
Rebuilding == {"rebuild", "listing", "saving", "rebuilt", "failed"}
DashUnlocked == \A t \in Dashboard : work[t].at \notin Rebuilding

AskRebuild(q) == /\ At(q, "idle")
                 /\ Go(q, "waiting")
                 /\ UNCHANGED <<storeVars, profile, session, dash, scheduled>>

BeginRebuild(t) == /\ At(t, "waiting") /\ DashUnlocked
                   /\ StartOver(t, "rebuild")
                   /\ UNCHANGED <<storeVars, profile, session, dash, scheduled>>

Publish(t) == /\ At(t, "rebuilt") \/ At(t, "failed")
              /\ dash' = [dash EXCEPT !.dirty = At(t, "failed")]
              /\ work' = Bump([work EXCEPT ![t] = IF t = Background THEN [Idle EXCEPT !.at = "again"] ELSE Idle])
              /\ UNCHANGED <<storeVars, profile, session, scheduled>>

\* runScheduledProfileRebuilds: again if a change was scheduled meanwhile.
Again == /\ At(Background, "again")
         /\ dash' = IF dash.req THEN [dash EXCEPT !.req = FALSE] ELSE [dash EXCEPT !.run = FALSE]
         /\ Go(Background, IF dash.req THEN "waiting" ELSE "idle")
         /\ UNCHANGED <<storeVars, profile, session, scheduled>>

\* UpdateRule: what the user says about a rule outlives every rebuild.
AskNote(q, e, n) == /\ At(q, "idle") /\ ProfileUnlocked
                    /\ profile.rev = e /\ e > 0
                    /\ work' = [work EXCEPT ![q].at = "noting", ![q].prev = [rev |-> e, note |-> n]]
                    /\ UNCHANGED <<storeVars, profile, session, dash, scheduled>>

Note(q) == /\ At(q, "noting")
           /\ \/ /\ work[q].prev.rev < MaxProfile
                 /\ profile' = [profile EXCEPT !.rev = work[q].prev.rev + 1, !.note = work[q].prev.note]
              \/ UNCHANGED profile
           /\ Rest(q)
           /\ UNCHANGED <<storeVars, session, dash, scheduled>>

-----------------------------------------------------------------------------
\* handleBootstrap: the status generation, the records, the profile, and then
\* the status, each read in a step of its own.

AskBootstrap(q) == /\ At(q, "idle")
                   /\ work' = [work EXCEPT ![q] = [Idle EXCEPT !.at = "booting", !.todo = Decisions, !.start = [d \in Decisions |-> record[d].rev]]]
                   /\ UNCHANGED <<storeVars, profile, session, dash, scheduled>>

\* The records the source hash of a profile is of.
Active(listed) == {<<d, listed[d]>> : d \in {x \in Decisions : listed[x].rev > 0 /\ listed[x].text # Deleted}}

Matches(p, listed) == IF p.rev = 0 THEN Active(listed) = {} ELSE Active(p.listed) = Active(listed)

LoadProfile(q) == /\ At(q, "booting") /\ work[q].todo = {}
                  /\ work' = IF Matches(profile, work[q].seen)
                              THEN [work EXCEPT ![q].at = "loaded", ![q].seen = profile.listed]
                              ELSE [work EXCEPT ![q] = Idle]
                  /\ UNCHANGED <<storeVars, profile, session, dash, scheduled>>

\* A profile that does not match is reported as dirty.  One that matches is
\* clean when every record was read and the status was stable, and else as
\* dirty as the status says; the report also says whether a rebuild is running.
ReportClean(q) == /\ At(q, "loaded")
                  /\ (work[q].issues = {} /\ work[q].stable) \/ ~dash.dirty
                  /\ ~dash.run
                  /\ StartOver(q, "clean")
                  /\ UNCHANGED <<storeVars, profile, session, dash, scheduled>>

Respond(q) == /\ work[q].at \in {"loaded", "clean"}
              /\ Rest(q)
              /\ UNCHANGED <<storeVars, profile, session, dash, scheduled>>

\* The dashboard ends and is started again.
DashboardCrashes == /\ Die(Requests)
                    /\ work' = [t \in Threads |-> IF t \in Dashboard THEN Idle ELSE work[t]]
                    /\ dash' = [dirty |-> FALSE, run |-> FALSE, req |-> FALSE]
                    /\ scheduled' = [d \in Decisions |-> 0]
                    /\ UNCHANGED <<profile, session>>

-----------------------------------------------------------------------------
Next ==
  \/ \E t \in Threads : Lock(t) \/ ListOne(t) \/ ReadPrevious(t) \/ Save(t) \/ RebuildFails(t)
  \/ \E a \in Agents : \/ \E d \in Decisions : \/ PresentRecorded(a, d) \/ Present(a, d)
                                                  \/ \E t \in Texts : Answer(a, d, t)
                       \/ NoAnswer(a) \/ PutEnds(a) \/ Clear(a) \/ AgentCrashes(a)
  \/ \E q \in Requests : \/ \E d \in Decisions, e \in Revisions, t \in Texts : AskRevise(q, d, e, t)
                         \/ \E e \in 1 .. MaxProfile, n \in Notes : AskNote(q, e, n)
                         \/ ReviseStep(q) \/ Schedule(q) \/ AskRebuild(q) \/ Note(q)
                         \/ AskBootstrap(q) \/ LoadProfile(q) \/ ReportClean(q) \/ Respond(q)
  \/ \E t \in Dashboard : BeginRebuild(t) \/ Publish(t)
  \/ Again \/ DashboardCrashes

Spec == Init /\ [][Next]_vars
-----------------------------------------------------------------------------
\* A pending decision is given up only when the journal has it: a cancelled
\* question, an error, a lost race and a restart leave it pending.  (the tool's
\* savePending and clearPending)
PendingIsKept ==
  [][\A a \in Agents : Pending(a) # None /\ session'[a].pending # Pending(a) =>
        record[Pending(a)].rev > 0 \/ session[a].saved # Pending(a)]_vars

\* The profile moves on by one revision at a time, never to older records, and
\* what the user said about a rule changes only when the user says something
\* else.  (RebuildContext and UpdateRule under the lock of the profile)
ProfileIsSerial ==
  [][profile' # profile =>
       /\ profile'.rev = profile.rev + 1
       /\ \A d \in Decisions : profile'.listed[d].rev >= profile.listed[d].rev
       /\ profile'.note # profile.note => \E q \in Requests : At(q, "noting")]_vars

\* A listing has a decision as it is at some revision from one on.
Shows(listed, d, from) ==
  \/ listed[d].rev >= from
  \/ /\ listed[d].text \in {None, Deleted}
     /\ from = 0 \/ \E r \in from .. record[d].rev : Journal[d][r] = Deleted

\* A page that shows the profile as neither dirty nor being rebuilt is right:
\* the profile has every change this dashboard has scheduled a rebuild for, and
\* every change made before the page was asked for, by any process, to a record
\* that the page does not list as an issue.  (handleBootstrap; profileDirty,
\* profileRebuildRun and profileStatusGen)
CleanIsCurrent ==
  [][\A q \in Requests : ~At(q, "clean") /\ work'[q].at = "clean" =>
       \A d \in Decisions : /\ d \in work[q].issues \/ Shows(work[q].seen, d, work[q].start[d])
                            /\ \/ Shows(work[q].seen, d, scheduled[d])
                               \/ Shows(profile.listed, d, scheduled[d])]_vars
=============================================================================
